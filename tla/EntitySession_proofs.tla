------------------------ MODULE EntitySession_proofs ------------------------
(***************************************************************************)
(* Theorems about the two users of the keys in Valkey with a TTL:          *)
(* EntitySession, for every set of entities, session ids and operations in *)
(* flight, and RateLimiter, for every limit, window and set of callers.    *)
(* The two share no variable: each has its own inductive invariant.        *)
(***************************************************************************)
EXTENDS EntitySession, RateLimiter, TLAPS, FiniteSetTheorems, FunctionTheorems

\* Which fields of an operation are set at each point of its code.
Shape(q) ==
    /\ q.pc \in {"setnx", "index", "getidx", "getrec", "touch"} => q.sid # None
    /\ q.pc = "reply" => q.sid # None
    /\ q.pc = "touch" => q.read # None
    /\ q.pc \in {"getidx", "getrec", "touch"} => q.kind = "process"
    /\ q.pc = "idle" => q.sid = None /\ q.read = None

ShapedOperation == {q \in Operation : Shape(q)}

\* What the operation of slot o refers to was generated for its entity.
OwnOperation(o) ==
    /\ op[o].sid # None => owner[op[o].sid] = EntityOf[o]
    /\ op[o].read # None => owner[op[o].read] = EntityOf[o]

\* Both keys name sessions of their own entity, and nothing refers to a session
\* that was not generated.
Owned ==
    /\ \A e \in Entity : rec[e] # None =>
           /\ owner[rec[e].sid] = e
           /\ rec[e].ttl # None => owner[rec[e].ttl] = e
    /\ \A s \in SessionId : idx[s] \in {None, owner[s]}
    /\ \A o \in Slot : OwnOperation(o)
    /\ \A s \in known \cup gone : owner[s] # None

Base ==
    /\ rec \in [Entity -> [sid : SessionId, ttl : SessionId \cup {None}] \cup {None}]
    /\ idx \in [SessionId -> Entity \cup {None}]
    /\ op \in [Slot -> ShapedOperation]
    /\ known \subseteq SessionId
    /\ owner \in [SessionId -> Entity \cup {None}]
    /\ gone \subseteq SessionId
    /\ deleted \subseteq gone
    /\ overtaken \subseteq deleted
    /\ touchers \subseteq Entity
    /\ crowded \subseteq Entity
    /\ Owned

\* A session that was stored has ended, or its TTL is still on the key of its
\* entity: no touch, creation or deletion loses a deadline.
Ticking(s) == s \in gone \/ (rec[owner[s]] # None /\ rec[owner[s]].ttl = s)

Created(o) == op[o].pc \in {"index", "reply"}

Deadlines ==
    /\ \A s \in known : Ticking(s)
    /\ \A e \in Entity : rec[e] # None => Ticking(rec[e].sid)
    /\ \A o \in Slot : op[o].read # None => Ticking(op[o].read)
    /\ \A o \in Slot : Created(o) => Ticking(op[o].sid)

\* The index is there before the creation is answered.
Indexed(s) == s \in gone \/ idx[s] = owner[s]

Indices ==
    /\ \A s \in known : Indexed(s)
    /\ \A o \in Slot : op[o].pc = "reply" => Indexed(op[o].sid)

\* A session on its way to SET NX is in no key and in no other hand.
Unused(o) ==
    LET s == op[o].sid
    IN  /\ s \notin gone
        /\ \A e \in Entity : rec[e] # None => rec[e].sid # s /\ rec[e].ttl # s
        /\ \A p \in Slot : op[p].read # s
        /\ \A p \in Slot \ {o} : op[p].pc = "setnx" => op[p].sid # s

Pending == \A o \in Slot : op[o].pc = "setnx" => Unused(o)

\* In calm a touch writes back the record it read, unless that one expired.
CalmTouch(o) == rec[EntityOf[o]] # None => rec[EntityOf[o]].sid = op[o].read

\* In calm, the session of a record is the one its TTL belongs to.
Quiet(e) == rec[e] # None => rec[e].ttl \in {rec[e].sid, None}

CalmKept ==
    /\ \A e \in Entity : Calm(e) => Quiet(e)
    /\ \A o \in Slot : op[o].pc = "touch" /\ Calm(EntityOf[o]) => CalmTouch(o)

\* A request in hand, and two operations of one entity, are on record.
Recorded ==
    /\ \A o \in Slot : op[o].pc \in {"getidx", "getrec", "touch"} => EntityOf[o] \in touchers
    /\ \A o, p \in Slot :
           o # p /\ EntityOf[o] = EntityOf[p] /\ op[o].pc # "idle" /\ op[p].pc # "idle"
           => EntityOf[o] \in crowded

\* A deleted session that no request had in hand is in no record, and no request
\* is about to write it.
Buried ==
    \A s \in deleted \ overtaken :
        /\ \A e \in Entity : rec[e] # None => rec[e].sid # s
        /\ \A o \in Slot : op[o].pc = "touch" => op[o].read # s

Inductive == Base /\ Recorded /\ Deadlines /\ Indices /\ Pending /\ CalmKept /\ Buried

Step(o) ==
    \/ Call(o) \/ Return(o) \/ Exists(o) \/ SetRecord(o) \/ SetIndex(o)
    \/ GetIndex(o) \/ GetRecord(o) \/ Touch(o) \/ ReadRecord(o) \/ Delete(o)
    \/ Abort(o)

-----------------------------------------------------------------------------
(* Types *)

LEMMA BaseType == Base => TypeOK
BY DEF Base, TypeOK, ShapedOperation

\* What Base says of one operation.
LEMMA OperationFacts ==
    ASSUME Base, NEW o \in Slot
    PROVE  op[o] \in Operation /\ Shape(op[o]) /\ OwnOperation(o)
BY DEF Base, ShapedOperation, Owned

\* What Base says of one record.
LEMMA RecordFacts ==
    ASSUME Base, NEW e \in Entity
    PROVE  \/ rec[e] = None
           \/ /\ rec[e] # None
              /\ rec[e].sid \in SessionId /\ owner[rec[e].sid] = e
              /\ rec[e].ttl = None \/ (rec[e].ttl \in SessionId /\ owner[rec[e].ttl] = e)
BY DEF Base, Owned

LEMMA IdleShaped == Idle \in ShapedOperation
BY DEF Idle, State, ShapedOperation, Shape, Operation, Pc, Kind

\* The operation of o after a step.
At(o, pc, sid, read) == op'[o].pc = pc /\ op'[o].sid = sid /\ op'[o].read = read

\* What every step of an operation does to the operations.
Stepped(o) ==
    /\ op' \in [Slot -> ShapedOperation]
    /\ \A p \in Slot \ {o} : op'[p] = op[p]

LEMMA Replaced ==
    ASSUME Base, NEW o \in Slot, NEW q \in ShapedOperation, op' = [op EXCEPT ![o] = q]
    PROVE  Stepped(o) /\ op'[o] = q
BY DEF Base, Stepped

LEMMA Moved ==
    ASSUME Base, NEW o \in Slot, NEW pc, NEW kind, NEW sid, NEW read,
           State(pc, kind, sid, read) \in ShapedOperation,
           op' = [op EXCEPT ![o] = State(pc, kind, sid, read)]
    PROVE  Stepped(o) /\ At(o, pc, sid, read)
<1>1. Stepped(o) /\ op'[o] = State(pc, kind, sid, read)
  BY Replaced
<1>2. QED
  BY <1>1 DEF At, State

\* An answer ends the operation.
Refused(o) == op'[o].pc = "idle" /\ op'[o].sid = None /\ op'[o].read = None

LEMMA Answered ==
    ASSUME Base, NEW o \in Slot, Answer(o)
    PROVE  Stepped(o) /\ op'[o] = Idle /\ Refused(o)
<1>1. Stepped(o) /\ op'[o] = Idle
  BY IdleShaped, Replaced DEF Answer
<1>2. QED
  BY <1>1 DEF Refused, Idle, State

-----------------------------------------------------------------------------
(* What each action does, said once for all invariants *)

\* Steps that read the keys and write none.
Reading(o) ==
    Call(o) \/ Return(o) \/ GetIndex(o) \/ GetRecord(o) \/ ReadRecord(o) \/ Abort(o)

ReadingEffect(o) ==
    /\ Stepped(o)
    /\ UNCHANGED <<rec, idx, owner, gone, deleted, overtaken>>
    /\ op'[o].read \in {None} \cup StoredSid(EntityOf[o])
    /\ op'[o].sid \in {None, op[o].sid} \cup {s \in known : owner[s] = EntityOf[o]}
    /\ op'[o].pc # "setnx" /\ ~Created(o)'
    /\ known' \subseteq known \cup {s \in SessionId : Created(o) /\ op[o].pc = "reply" /\ s = op[o].sid}
    /\ touchers \subseteq touchers' /\ touchers' \subseteq Entity
    /\ crowded \subseteq crowded' /\ crowded' \subseteq Entity
    /\ op'[o].pc \in {"getidx", "getrec", "touch"} => EntityOf[o] \in touchers'
    /\ op'[o].pc # "idle" => \/ op[o].pc # "idle"
                             \/ \A p \in Slot \ {o} :
                                  EntityOf[p] = EntityOf[o] /\ op[p].pc # "idle"
                                  => EntityOf[o] \in crowded'
    /\ op'[o].pc = "touch" => rec[EntityOf[o]] # None /\ op'[o].read = rec[EntityOf[o]].sid

LEMMA ReadingStep ==
    ASSUME Base, NEW o \in Slot, Reading(o),
           Recorded
    PROVE  ReadingEffect(o)
<1> USE ConstantsAssumption DEF history, load
<1> DEFINE e == EntityOf[o]
<1>0. /\ op[o] \in Operation /\ Shape(op[o]) /\ OwnOperation(o) /\ e \in Entity
      /\ known \subseteq SessionId /\ touchers \subseteq Entity /\ crowded \subseteq Entity
      /\ op[o].pc \in {"getidx", "getrec", "touch"} => e \in touchers
  BY OperationFacts DEF Base, Recorded
<1>1. CASE Call(o)
  <2>1. PICK q \in ShapedOperation :
          /\ op' = [op EXCEPT ![o] = q]
          /\ q.pc \in {"exists", "getidx", "read"} /\ q.read = None
          /\ q.sid \in {None} \cup {s \in known : owner[s] = e}
          /\ q.pc = "getidx" => q.kind = "process"
    <3>1. CASE Check(o)
      <4>1. State("exists", "check", None, None) \in ShapedOperation
        BY DEF State, ShapedOperation, Shape, Operation, Pc, Kind
      <4>2. QED
        BY <3>1, <4>1 DEF Check, State
    <3>2. CASE Create(o)
      <4>1. State("exists", "create", None, None) \in ShapedOperation
        BY DEF State, ShapedOperation, Shape, Operation, Pc, Kind
      <4>2. QED
        BY <3>2, <4>1 DEF Create, State
    <3>3. CASE Process(o)
      <4>1. PICK s \in known : /\ owner[s] = e
                               /\ op' = [op EXCEPT ![o] = State("getidx", "process", s, None)]
        BY <3>3 DEF Process
      <4>2. State("getidx", "process", s, None) \in ShapedOperation
        BY <1>0 DEF State, ShapedOperation, Shape, Operation, Pc, Kind
      <4>3. QED
        BY <4>1, <4>2 DEF State
    <3>4. CASE Invalidate(o)
      <4>1. State("read", "invalidate", None, None) \in ShapedOperation
        BY DEF State, ShapedOperation, Shape, Operation, Pc, Kind
      <4>2. QED
        BY <3>4, <4>1 DEF Invalidate, State
    <3>5. QED
      BY <1>1, <3>1, <3>2, <3>3, <3>4 DEF Call
  <2>2. Stepped(o) /\ op'[o] = q
    BY <2>1, Replaced
  <2>3. /\ touchers' = IF op'[o].kind = "process" THEN touchers \cup {e} ELSE touchers
        /\ crowded' = IF \E p \in Slot \ {o} : EntityOf[p] = e /\ op[p].pc # "idle"
                      THEN crowded \cup {e} ELSE crowded
        /\ UNCHANGED <<rec, idx, known, owner, gone, deleted, overtaken>>
    BY <1>1 DEF Call
  <2>4. touchers \subseteq touchers' /\ touchers' \subseteq Entity
        /\ (op'[o].pc \in {"getidx", "getrec", "touch"} => e \in touchers')
    BY <1>0, <2>1, <2>2, <2>3
  <2>5. /\ crowded \subseteq crowded' /\ crowded' \subseteq Entity
        /\ \A p \in Slot \ {o} : EntityOf[p] = e /\ op[p].pc # "idle" => e \in crowded'
    BY <1>0, <2>3
  <2>6. QED
    BY <2>1, <2>2, <2>3, <2>4, <2>5 DEF ReadingEffect, Created
<1>2. CASE Return(o) \/ Abort(o)
  <2>1. op' = [op EXCEPT ![o] = Idle]
    BY <1>2 DEF Return, Abort
  <2>2. Stepped(o) /\ op'[o] = Idle
    BY <2>1, IdleShaped, Replaced
  <2>3. /\ UNCHANGED <<rec, idx, owner, gone, deleted, overtaken, touchers, crowded>>
        /\ \/ known' = known
           \/ known' = known \cup {op[o].sid} /\ op[o].pc = "reply"
    BY <1>2 DEF Return, Abort
  <2>4. op[o].pc = "reply" => op[o].sid \in SessionId
    BY <1>0 DEF Shape, Operation
  <2>5. QED
    BY <1>0, <2>2, <2>3, <2>4 DEF ReadingEffect, Created, Idle, State
<1>3. CASE GetIndex(o)
  <2>1. op[o].pc = "getidx" /\ UNCHANGED <<rec, idx, known, owner, gone, deleted, overtaken, touchers, crowded>>
    BY <1>3 DEF GetIndex
  <2>2. PICK q \in ShapedOperation :
          /\ op' = [op EXCEPT ![o] = q]
          /\ q.pc \in {"getrec", "idle"} /\ q.read = None
          /\ q.sid \in {None, op[o].sid}
    <3>1. CASE Answer(o)
      BY <3>1, IdleShaped DEF Answer, Idle, State
    <3>2. CASE Goto(o, "getrec", op[o].sid, None)
      <4>1. State("getrec", op[o].kind, op[o].sid, None) \in ShapedOperation
        BY <1>0, <2>1 DEF State, ShapedOperation, Shape, Operation, Pc
      <4>2. QED
        BY <3>2, <4>1 DEF Goto, State
    <3>3. QED
      BY <1>3, <3>1, <3>2 DEF GetIndex
  <2>3. Stepped(o) /\ op'[o] = q
    BY <2>2, Replaced
  <2>4. QED
    BY <1>0, <2>1, <2>2, <2>3 DEF ReadingEffect, Created
<1>4. CASE GetRecord(o)
  <2>1. op[o].pc = "getrec" /\ UNCHANGED <<rec, idx, known, owner, gone, deleted, overtaken, touchers, crowded>>
    BY <1>4 DEF GetRecord
  <2>2. PICK q \in ShapedOperation :
          /\ op' = [op EXCEPT ![o] = q]
          /\ q.pc \in {"touch", "idle"}
          /\ q.sid \in {None, op[o].sid}
          /\ \/ q.pc = "idle" /\ q.read = None
             \/ rec[e] # None /\ q.read = rec[e].sid
    <3>1. CASE Answer(o)
      BY <3>1, IdleShaped DEF Answer, Idle, State
    <3>2. CASE rec[e] # None /\ Goto(o, "touch", op[o].sid, rec[e].sid)
      <4>1. rec[e].sid \in SessionId
        BY <1>0, <3>2, RecordFacts
      <4>2. State("touch", op[o].kind, op[o].sid, rec[e].sid) \in ShapedOperation
        BY <1>0, <2>1, <4>1 DEF State, ShapedOperation, Shape, Operation, Pc
      <4>3. QED
        BY <3>2, <4>2 DEF Goto, State
    <3>3. QED
      BY <1>4, <3>1, <3>2 DEF GetRecord
  <2>3. Stepped(o) /\ op'[o] = q
    BY <2>2, Replaced
  <2>4. QED
    BY <1>0, <2>1, <2>2, <2>3 DEF ReadingEffect, Created, StoredSid
<1>5. CASE ReadRecord(o)
  <2> DEFINE q == State("delete", op[o].kind, None, IF rec[e] = None THEN None ELSE rec[e].sid)
  <2>1. op[o].pc = "read" /\ UNCHANGED <<rec, idx, known, owner, gone, deleted, overtaken, touchers, crowded>>
    BY <1>5 DEF ReadRecord
  <2>2. rec[e] # None => rec[e].sid \in SessionId
    BY <1>0, RecordFacts
  <2>3. q \in ShapedOperation
    BY <1>0, <2>2 DEF State, ShapedOperation, Shape, Operation, Pc
  <2>4. Stepped(o) /\ op'[o] = q
    BY <1>5, <2>3, Replaced DEF ReadRecord, Goto
  <2>5. QED
    BY <1>0, <2>1, <2>4 DEF ReadingEffect, Created, StoredSid, State
<1>6. QED
  BY <1>1, <1>2, <1>3, <1>4, <1>5 DEF Reading

LEMMA ExistsStep ==
    ASSUME Base, NEW o \in Slot, Exists(o)
    PROVE  /\ Stepped(o) /\ op[o].pc = "exists"
           /\ UNCHANGED <<rec, idx, known, gone, deleted, overtaken, touchers, crowded>>
           /\ \/ UNCHANGED owner /\ Refused(o)
              \/ \E s \in SessionId :
                   /\ owner[s] = None
                   /\ owner' = [owner EXCEPT ![s] = EntityOf[o]]
                   /\ At(o, "setnx", s, None)
<1> USE DEF load
<1>1. op[o].kind \in Kind
  BY OperationFacts DEF Operation
<1>2. CASE UNCHANGED owner /\ Answer(o)
  BY <1>2, Answered DEF Exists
<1>3. ASSUME NEW s \in Fresh, Goto(o, "setnx", s, None),
             owner' = [owner EXCEPT ![s] = EntityOf[o]]
      PROVE  Stepped(o) /\ At(o, "setnx", s, None)
  <2>1. State("setnx", op[o].kind, s, None) \in ShapedOperation
    BY <1>1, ConstantsAssumption DEF Fresh, State, ShapedOperation, Shape, Operation, Pc
  <2>2. QED
    BY <1>3, <2>1, Moved DEF Goto
<1>4. QED
  BY <1>2, <1>3 DEF Exists, Fresh

LEMMA SetRecordStep ==
    ASSUME Base, NEW o \in Slot, SetRecord(o)
    PROVE  /\ Stepped(o) /\ op[o].pc = "setnx" /\ op[o].sid \in SessionId
           /\ UNCHANGED <<idx, known, owner, gone, deleted, overtaken, touchers, crowded>>
           /\ \/ UNCHANGED rec /\ Refused(o)
              \/ /\ rec[EntityOf[o]] = None
                 /\ \A e \in Entity :
                      rec'[e] = IF e = EntityOf[o] THEN [sid |-> op[o].sid, ttl |-> op[o].sid]
                                ELSE rec[e]
                 /\ rec' \in [Entity -> [sid : SessionId, ttl : SessionId \cup {None}] \cup {None}]
                 /\ At(o, "index", op[o].sid, None)
<1> USE DEF history, load
<1>1. op[o].pc = "setnx" /\ op[o].kind \in Kind /\ op[o].sid \in SessionId
  BY OperationFacts DEF Operation, SetRecord, Shape
<1>2. CASE Answer(o) /\ UNCHANGED rec
  BY <1>1, <1>2, Answered DEF SetRecord
<1>3. CASE /\ rec[EntityOf[o]] = None /\ Goto(o, "index", op[o].sid, None)
           /\ rec' = [rec EXCEPT ![EntityOf[o]] = [sid |-> op[o].sid, ttl |-> op[o].sid]]
  <2>1. State("index", op[o].kind, op[o].sid, None) \in ShapedOperation
    BY <1>1, ConstantsAssumption DEF State, ShapedOperation, Shape, Operation, Pc
  <2>2. Stepped(o) /\ At(o, "index", op[o].sid, None)
    BY <1>3, <2>1, Moved DEF Goto
  <2>3. rec \in [Entity -> [sid : SessionId, ttl : SessionId \cup {None}] \cup {None}]
    BY DEF Base
  <2>4. rec' \in [Entity -> [sid : SessionId, ttl : SessionId \cup {None}] \cup {None}]
    BY <1>1, <1>3, <2>3
  <2>5. QED
    BY <1>1, <1>3, <2>2, <2>3, <2>4 DEF SetRecord
<1>4. QED
  BY <1>2, <1>3 DEF SetRecord

LEMMA SetIndexStep ==
    ASSUME Base, NEW o \in Slot, SetIndex(o)
    PROVE  /\ Stepped(o) /\ op[o].pc = "index" /\ op[o].sid \in SessionId
           /\ UNCHANGED <<rec, known, owner, gone, deleted, overtaken, touchers, crowded>>
           /\ idx' \in [SessionId -> Entity \cup {None}]
           /\ \A s \in SessionId : idx'[s] = IF s = op[o].sid THEN EntityOf[o] ELSE idx[s]
           /\ At(o, "reply", op[o].sid, None)
<1> USE DEF history, load
<1>1. op[o].pc = "index" /\ op[o] \in Operation /\ op[o].sid \in SessionId /\ op[o].sid # None
  BY OperationFacts DEF Operation, SetIndex, Shape
<1>2. State("reply", op[o].kind, op[o].sid, None) \in ShapedOperation
  BY <1>1 DEF State, ShapedOperation, Shape, Operation, Pc
<1>3. Stepped(o) /\ At(o, "reply", op[o].sid, None)
  BY <1>2, Moved DEF SetIndex, Goto
<1>4. idx \in [SessionId -> Entity \cup {None}] /\ EntityOf[o] \in Entity
  BY ConstantsAssumption DEF Base
<1>5. QED
  BY <1>1, <1>3, <1>4 DEF SetIndex

LEMMA TouchStep ==
    ASSUME Base, NEW o \in Slot, Touch(o)
    PROVE  /\ Stepped(o) /\ op[o].pc = "touch" /\ op[o].read \in SessionId
           /\ UNCHANGED <<idx, known, owner, gone, deleted, overtaken, touchers, crowded>>
           /\ rec' \in [Entity -> [sid : SessionId, ttl : SessionId \cup {None}] \cup {None}]
           /\ \A e \in Entity \ {EntityOf[o]} : rec'[e] = rec[e]
           /\ rec'[EntityOf[o]] # None /\ rec'[EntityOf[o]].sid = op[o].read
           /\ rec'[EntityOf[o]].ttl = IF rec[EntityOf[o]] = None THEN None ELSE rec[EntityOf[o]].ttl
           /\ Refused(o)
<1> USE DEF history, load
<1> DEFINE e == EntityOf[o]
           r == [sid |-> op[o].read, ttl |-> IF rec[e] = None THEN None ELSE rec[e].ttl]
<1>1. op[o].pc = "touch" /\ op[o] \in Operation /\ op[o].read \in SessionId /\ e \in Entity
  BY OperationFacts, ConstantsAssumption DEF Operation, Touch, Shape
<1>3. Stepped(o) /\ Refused(o)
  BY Answered DEF Touch
<1>4. rec \in [Entity -> [sid : SessionId, ttl : SessionId \cup {None}] \cup {None}]
  BY DEF Base
<1>5. r \in [sid : SessionId, ttl : SessionId \cup {None}] /\ r # None
  BY <1>1, RecordFacts, ConstantsAssumption
<1>6. rec' = [rec EXCEPT ![e] = r]
  BY DEF Touch
<1>7. /\ rec' \in [Entity -> [sid : SessionId, ttl : SessionId \cup {None}] \cup {None}]
      /\ rec'[e] = r /\ \A f \in Entity \ {e} : rec'[f] = rec[f]
  BY <1>1, <1>4, <1>5, <1>6
<1>8. QED
  BY <1>1, <1>3, <1>5, <1>7 DEF Touch

LEMMA DeleteStep ==
    ASSUME Base, NEW o \in Slot, Delete(o)
    PROVE  /\ Stepped(o) /\ op[o].pc = "delete" /\ Refused(o)
           /\ UNCHANGED <<known, owner, touchers, crowded>>
           /\ rec' \in [Entity -> [sid : SessionId, ttl : SessionId \cup {None}] \cup {None}]
           /\ \A e \in Entity : rec'[e] = IF e = EntityOf[o] THEN None ELSE rec[e]
           /\ idx' \in [SessionId -> Entity \cup {None}]
           /\ \A s \in SessionId : idx'[s] = IF s = op[o].read THEN None ELSE idx[s]
           /\ gone' = gone \cup Ended(EntityOf[o])
           /\ deleted' = deleted \cup StoredSid(EntityOf[o])
           /\ overtaken' = overtaken \cup
                  {s \in StoredSid(EntityOf[o]) : \E p \in Slot : op[p].pc = "touch" /\ op[p].read = s}
<1> USE DEF history, load
<1>1. Stepped(o) /\ Refused(o)
  BY Answered DEF Delete
<1>2. /\ rec \in [Entity -> [sid : SessionId, ttl : SessionId \cup {None}] \cup {None}]
      /\ idx \in [SessionId -> Entity \cup {None}]
  BY DEF Base
<1>3. QED
  BY <1>1, <1>2 DEF Delete, Removes

LEMMA ExpireRecordStep ==
    ASSUME Base, NEW f \in Entity, ExpireRecord(f)
    PROVE  /\ UNCHANGED <<idx, op, known, owner, deleted, overtaken, touchers, crowded>>
           /\ rec' \in [Entity -> [sid : SessionId, ttl : SessionId \cup {None}] \cup {None}]
           /\ \A e \in Entity : rec'[e] = IF e = f THEN None ELSE rec[e]
           /\ gone' = gone \cup Ended(f)
BY DEF ExpireRecord, Base, load

\* The sessions that end with the record of e are its own.
LEMMA EndedFacts ==
    ASSUME Base, NEW e \in Entity
    PROVE  /\ Ended(e) \subseteq {s \in SessionId : owner[s] = e}
           /\ StoredSid(e) \subseteq Ended(e)
<1>1. None \notin SessionId
  BY ConstantsAssumption
<1>2. QED
  BY <1>1, RecordFacts DEF Ended, StoredSid

-----------------------------------------------------------------------------
(* Types and ownership *)

LEMMA BaseStep ==
    ASSUME Base, [Next]_vars,
           Recorded
    PROVE  Base'
<1> USE ConstantsAssumption
<1>0. /\ rec \in [Entity -> [sid : SessionId, ttl : SessionId \cup {None}] \cup {None}]
      /\ idx \in [SessionId -> Entity \cup {None}]
      /\ op \in [Slot -> ShapedOperation]
      /\ known \subseteq SessionId
      /\ owner \in [SessionId -> Entity \cup {None}]
      /\ gone \subseteq SessionId
      /\ deleted \subseteq gone
      /\ overtaken \subseteq deleted
      /\ touchers \subseteq Entity
      /\ crowded \subseteq Entity
      /\ Owned
  BY DEF Base
<1>1. ASSUME NEW o \in Slot, Step(o) PROVE Base'
  <2> DEFINE e == EntityOf[o]
  <2>0. op[o] \in Operation /\ Shape(op[o]) /\ OwnOperation(o) /\ e \in Entity
    BY OperationFacts
  <2>1. CASE Reading(o)
    <3>1. ReadingEffect(o)
      BY <2>1, ReadingStep
    <3>2. Stepped(o) /\ UNCHANGED <<rec, idx, owner, gone, deleted, overtaken>>
      BY <3>1 DEF ReadingEffect
    <3>3. known' \subseteq SessionId /\ \A s \in known' : owner[s] # None
      BY <1>0, <2>0, <3>1 DEF ReadingEffect, Owned, Created, Shape, OwnOperation
    <3>4. OwnOperation(o)'
      BY <1>0, <2>0, <3>1, <3>2, RecordFacts DEF ReadingEffect, OwnOperation, StoredSid
    <3>5. Owned'
      BY <1>0, <3>2, <3>3, <3>4 DEF Owned, OwnOperation, Stepped
    <3>6. QED
      BY <1>0, <3>1, <3>2, <3>3, <3>5 DEF Base, ReadingEffect, Stepped
  <2>2. CASE Exists(o)
    <3>1. Stepped(o) /\ UNCHANGED <<rec, idx, known, gone, deleted, overtaken, touchers, crowded>>
      BY <2>2, ExistsStep
    <3>2. /\ owner' \in [SessionId -> Entity \cup {None}]
          /\ \A s \in SessionId : owner[s] # None => owner'[s] = owner[s]
          /\ \A s \in SessionId : idx[s] \in {None, owner[s]} => idx[s] \in {None, owner'[s]}
      BY <1>0, <2>0, <2>2, ExistsStep DEF Owned
    <3>3. OwnOperation(o)'
      <4>1. CASE Refused(o)
        BY <4>1 DEF Refused, OwnOperation
      <4>2. ASSUME NEW s \in SessionId, owner' = [owner EXCEPT ![s] = e],
                   At(o, "setnx", s, None)
            PROVE  OwnOperation(o)'
        <5>1. op'[o].sid = s /\ op'[o].read = None /\ owner'[s] = e
          BY <1>0, <4>2 DEF At
        <5>2. QED
          BY <5>1 DEF OwnOperation
      <4>3. QED
        BY <2>2, <4>1, <4>2, ExistsStep
    <3>4. \A p \in Slot \ {o} : OwnOperation(p)'
      <4> SUFFICES ASSUME NEW p \in Slot \ {o} PROVE OwnOperation(p)'
        OBVIOUS
      <4>1. op[p] \in Operation /\ OwnOperation(p) /\ op'[p] = op[p] /\ EntityOf[p] \in Entity
        BY <3>1, OperationFacts DEF Stepped
      <4>2. QED
        BY <3>2, <4>1 DEF OwnOperation, Operation
    <3>5. \A f \in Entity : rec'[f] # None =>
            /\ owner'[rec'[f].sid] = f
            /\ rec'[f].ttl # None => owner'[rec'[f].ttl] = f
      BY <3>1, <3>2, RecordFacts
    <3>6. (\A s \in SessionId : idx'[s] \in {None, owner'[s]})
          /\ \A s \in known' \cup gone' : owner'[s] # None
      BY <1>0, <3>1, <3>2 DEF Owned
    <3>7. Owned'
      BY <3>3, <3>4, <3>5, <3>6 DEF Owned
    <3>8. QED
      BY <1>0, <3>1, <3>2, <3>7 DEF Base, Stepped
  <2>3. CASE SetRecord(o)
    <3>1. /\ Stepped(o) /\ op[o].sid \in SessionId /\ owner[op[o].sid] = e
          /\ UNCHANGED <<idx, known, owner, gone, deleted, overtaken, touchers, crowded>>
      BY <2>0, <2>3, SetRecordStep DEF OwnOperation
    <3>2. OwnOperation(o)'
      <4>1. op'[o].sid \in {None, op[o].sid} /\ op'[o].read = None
        BY <2>3, SetRecordStep DEF Refused, At
      <4>2. QED
        BY <3>1, <4>1 DEF OwnOperation
    <3>3. /\ rec' \in [Entity -> [sid : SessionId, ttl : SessionId \cup {None}] \cup {None}]
          /\ \A f \in Entity : rec'[f] # None =>
               /\ owner[rec'[f].sid] = f
               /\ rec'[f].ttl # None => owner[rec'[f].ttl] = f
      <4>1. CASE UNCHANGED rec
        BY <1>0, <4>1 DEF Owned
      <4>2. CASE ~ UNCHANGED rec
        <5>1. /\ rec' \in [Entity -> [sid : SessionId, ttl : SessionId \cup {None}] \cup {None}]
              /\ \A f \in Entity :
                   rec'[f] = IF f = e THEN [sid |-> op[o].sid, ttl |-> op[o].sid] ELSE rec[f]
          BY <2>3, <4>2, SetRecordStep
        <5>2. rec'[e].sid = op[o].sid /\ rec'[e].ttl = op[o].sid
          BY <2>0, <5>1
        <5>3. QED
          BY <1>0, <3>1, <5>1, <5>2 DEF Owned
      <4>3. QED
        BY <4>1, <4>2
    <3>4. Owned'
      BY <1>0, <3>1, <3>2, <3>3 DEF Owned, OwnOperation, Stepped
    <3>5. QED
      BY <1>0, <3>1, <3>3, <3>4 DEF Base, Stepped
  <2>4. CASE SetIndex(o)
    <3>1. /\ Stepped(o) /\ op[o].sid \in SessionId /\ owner[op[o].sid] = e
          /\ UNCHANGED <<rec, known, owner, gone, deleted, overtaken, touchers, crowded>>
          /\ idx' \in [SessionId -> Entity \cup {None}]
          /\ \A s \in SessionId : idx'[s] = IF s = op[o].sid THEN e ELSE idx[s]
          /\ At(o, "reply", op[o].sid, None)
      BY <2>0, <2>4, SetIndexStep DEF OwnOperation
    <3>2. OwnOperation(o)'
      BY <2>0, <3>1 DEF OwnOperation, At
    <3>3. Owned'
      BY <1>0, <3>1, <3>2 DEF Owned, OwnOperation, Stepped
    <3>4. QED
      BY <1>0, <3>1, <3>3 DEF Base, Stepped
  <2>5. CASE Touch(o)
    <3>1. /\ Stepped(o) /\ op[o].read \in SessionId /\ owner[op[o].read] = e
          /\ UNCHANGED <<idx, known, owner, gone, deleted, overtaken, touchers, crowded>>
      BY <2>0, <2>5, TouchStep DEF OwnOperation
    <3>2. OwnOperation(o)'
      <4>1. op'[o].sid = None /\ op'[o].read = None
        BY <2>5, TouchStep DEF Refused
      <4>2. QED
        BY <2>0, <3>1, <4>1 DEF OwnOperation
    <3>3. /\ rec' \in [Entity -> [sid : SessionId, ttl : SessionId \cup {None}] \cup {None}]
          /\ \A f \in Entity : rec'[f] # None =>
               /\ owner[rec'[f].sid] = f
               /\ rec'[f].ttl # None => owner[rec'[f].ttl] = f
      BY <1>0, <2>0, <2>5, <3>1, TouchStep DEF Owned
    <3>4. Owned'
      BY <1>0, <3>1, <3>2, <3>3 DEF Owned, OwnOperation, Stepped
    <3>5. QED
      BY <1>0, <3>1, <3>3, <3>4 DEF Base, Stepped
  <2>6. CASE Delete(o)
    <3>1. Stepped(o) /\ UNCHANGED <<known, owner, touchers, crowded>>
      BY <2>6, DeleteStep
    <3>2. OwnOperation(o)'
      BY <2>6, DeleteStep DEF OwnOperation, Refused
    <3>3. /\ gone' \subseteq SessionId /\ deleted' \subseteq gone' /\ overtaken' \subseteq deleted'
          /\ \A s \in gone' : owner[s] # None
      BY <1>0, <2>0, <2>6, DeleteStep, EndedFacts DEF Owned
    <3>4. /\ rec' \in [Entity -> [sid : SessionId, ttl : SessionId \cup {None}] \cup {None}]
          /\ \A f \in Entity : rec'[f] \in {None, rec[f]}
          /\ idx' \in [SessionId -> Entity \cup {None}]
          /\ \A s \in SessionId : idx'[s] \in {None, idx[s]}
      BY <2>6, DeleteStep
    <3>5. Owned'
      BY <1>0, <3>1, <3>2, <3>3, <3>4 DEF Owned, OwnOperation, Stepped
    <3>6. QED
      BY <1>0, <3>1, <3>3, <3>4, <3>5 DEF Base, Stepped
  <2>7. QED
    BY <1>1, <2>1, <2>2, <2>3, <2>4, <2>5, <2>6 DEF Step, Reading
<1>2. ASSUME NEW f \in Entity, ExpireRecord(f) PROVE Base'
  <2>1. /\ UNCHANGED <<idx, op, known, owner, deleted, overtaken, touchers, crowded>>
        /\ rec' \in [Entity -> [sid : SessionId, ttl : SessionId \cup {None}] \cup {None}]
        /\ \A e \in Entity : rec'[e] \in {None, rec[e]}
        /\ gone' = gone \cup Ended(f)
    BY <1>2, ExpireRecordStep
  <2>2. gone' \subseteq SessionId /\ deleted' \subseteq gone' /\ \A s \in gone' : owner[s] # None
    BY <1>0, <2>1, EndedFacts DEF Owned
  <2>3. Owned'
    BY <1>0, <2>1, <2>2 DEF Owned, OwnOperation
  <2>4. QED
    BY <1>0, <2>1, <2>2, <2>3 DEF Base
<1>3. ASSUME NEW s \in SessionId, ExpireIndex(s) PROVE Base'
  <2>1. /\ UNCHANGED <<rec, op, known, owner, gone, deleted, overtaken, touchers, crowded>>
        /\ idx' \in [SessionId -> Entity \cup {None}]
        /\ \A t \in SessionId : idx'[t] \in {None, idx[t]}
    BY <1>0, <1>3 DEF ExpireIndex, history, load
  <2>2. Owned'
    BY <1>0, <2>1 DEF Owned, OwnOperation
  <2>3. QED
    BY <1>0, <2>1, <2>2 DEF Base
<1>4. CASE UNCHANGED vars
  <2>1. UNCHANGED <<rec, idx, op, known, owner, gone, deleted, overtaken, touchers, crowded>>
    BY <1>4 DEF vars, history, load
  <2>2. QED
    BY <1>0, <2>1 DEF Base, Owned, OwnOperation
<1>5. QED
  BY <1>1, <1>2, <1>3, <1>4 DEF Next, Step

-----------------------------------------------------------------------------
(* Deadlines *)

\* No step takes the TTL of a key away without ending the session it belongs to.
LEMMA KeysTick ==
    ASSUME Base, [Next]_vars, NEW e \in Entity, rec[e] # None,
           Recorded
    PROVE  \/ rec'[e] # None /\ rec'[e].ttl = rec[e].ttl
           \/ rec[e].ttl \in gone' \cup {None}
<1>1. ASSUME NEW o \in Slot, Reading(o) \/ Exists(o) \/ SetIndex(o) PROVE UNCHANGED rec
  BY <1>1, ReadingStep, ExistsStep, SetIndexStep DEF ReadingEffect
<1>2. ASSUME NEW o \in Slot, SetRecord(o) PROVE rec'[e] = rec[e]
  BY <1>2, SetRecordStep
<1>3. ASSUME NEW o \in Slot, Touch(o) PROVE rec'[e] # None /\ rec'[e].ttl = rec[e].ttl
  BY <1>3, TouchStep
<1>4. ASSUME NEW o \in Slot, Delete(o) PROVE rec'[e] = rec[e] \/ rec[e].ttl \in gone' \cup {None}
  BY <1>4, DeleteStep DEF Ended
<1>5. ASSUME NEW f \in Entity, ExpireRecord(f)
      PROVE  rec'[e] = rec[e] \/ rec[e].ttl \in gone' \cup {None}
  BY <1>5, ExpireRecordStep DEF Ended
<1>6. ASSUME NEW s \in SessionId, ExpireIndex(s) PROVE UNCHANGED rec
  BY <1>6 DEF ExpireIndex
<1>7. CASE UNCHANGED vars
  BY <1>7 DEF vars
<1>8. QED
  BY <1>1, <1>2, <1>3, <1>4, <1>5, <1>6, <1>7 DEF Next, Reading

\* Sessions that ended stay ended, and keep the entity they were generated for.
LEMMA HistoryGrows ==
    ASSUME Base, [Next]_vars,
           Recorded
    PROVE  /\ gone \subseteq gone' /\ deleted \subseteq deleted'
           /\ touchers \subseteq touchers' /\ crowded \subseteq crowded'
           /\ \A s \in SessionId : owner[s] # None => owner'[s] = owner[s]
<1>1. ASSUME NEW o \in Slot, Reading(o)
      PROVE  /\ UNCHANGED <<gone, deleted, owner>>
             /\ touchers \subseteq touchers' /\ crowded \subseteq crowded'
  BY <1>1, ReadingStep DEF ReadingEffect
<1>2. ASSUME NEW o \in Slot, Exists(o)
      PROVE  /\ UNCHANGED <<gone, deleted, overtaken, touchers, crowded>>
             /\ \A s \in SessionId : owner[s] # None => owner'[s] = owner[s]
  BY <1>2, ExistsStep DEF Base
<1>3. ASSUME NEW o \in Slot, SetRecord(o) \/ SetIndex(o) \/ Touch(o)
      PROVE  UNCHANGED <<gone, deleted, overtaken, touchers, crowded, owner>>
  BY <1>3, SetRecordStep, SetIndexStep, TouchStep
<1>4. ASSUME NEW o \in Slot, Delete(o)
      PROVE  /\ gone \subseteq gone' /\ deleted \subseteq deleted'
             /\ UNCHANGED <<touchers, crowded, owner>>
  BY <1>4, DeleteStep
<1>5. ASSUME NEW f \in Entity, ExpireRecord(f)
      PROVE  gone \subseteq gone' /\ UNCHANGED <<deleted, touchers, crowded, owner>>
  BY <1>5, ExpireRecordStep
<1>6. ASSUME NEW s \in SessionId, ExpireIndex(s)
      PROVE  UNCHANGED <<gone, deleted, overtaken, touchers, crowded, owner>>
  BY <1>6 DEF ExpireIndex, history, load
<1>7. CASE UNCHANGED vars
  BY <1>7 DEF vars, history, load
<1>8. QED
  BY <1>1, <1>2, <1>3, <1>4, <1>5, <1>6, <1>7 DEF Next, Reading

\* Ticking, of a session, in the next state.
TicksOn(s) == s \in gone' \/ (rec'[owner'[s]] # None /\ rec'[owner'[s]].ttl = s)

LEMMA TickingStep ==
    ASSUME Base, [Next]_vars, NEW s \in SessionId, owner[s] # None, Ticking(s),
           Recorded
    PROVE  TicksOn(s)
<1>1. owner[s] \in Entity /\ s # None
  BY ConstantsAssumption DEF Base
<1>2. gone \subseteq gone' /\ owner'[s] = owner[s]
  BY HistoryGrows
<1>3. QED
  BY <1>1, <1>2, KeysTick DEF Ticking, TicksOn

LEMMA DeadlinesStep ==
    ASSUME Base, Deadlines, [Next]_vars,
           Recorded
    PROVE  Deadlines'
<1> USE ConstantsAssumption
<1>0. known \subseteq SessionId
  BY DEF Base
<1>1. \A s \in known : TicksOn(s)
  BY <1>0, TickingStep DEF Deadlines, Base, Owned
<1>2. \A e \in Entity : rec[e] # None => TicksOn(rec[e].sid)
  BY TickingStep, RecordFacts DEF Deadlines
<1>3. ASSUME NEW o \in Slot PROVE op[o].read # None => TicksOn(op[o].read)
  <2>1. op[o].read # None => op[o].read \in SessionId /\ owner[op[o].read] # None
    BY OperationFacts DEF Operation, OwnOperation
  <2>2. QED
    BY <2>1, TickingStep DEF Deadlines
<1>4. ASSUME NEW o \in Slot, Created(o) PROVE op[o].sid \in SessionId /\ TicksOn(op[o].sid)
  <2>1. op[o].sid \in SessionId /\ owner[op[o].sid] # None
    BY <1>4, OperationFacts DEF Operation, OwnOperation, Created, Shape
  <2>2. QED
    BY <1>4, <2>1, TickingStep DEF Deadlines
<1>5. ASSUME NEW o \in Slot, Step(o) PROVE Deadlines'
  <2> DEFINE e == EntityOf[o]
  <2>0. e \in Entity
    OBVIOUS
  <2>1. ASSUME Stepped(o), op'[o].read # None => TicksOn(op'[o].read), known' = known,
               Created(o)' => TicksOn(op'[o].sid),
               \A f \in Entity : rec'[f] # None => TicksOn(rec'[f].sid)
        PROVE  Deadlines'
    BY <1>1, <1>3, <1>4, <2>1 DEF Deadlines, Ticking, TicksOn, Stepped, Created
  <2>2. CASE Reading(o)
    <3>1. ReadingEffect(o)
      BY <2>2, ReadingStep
    <3>2. op'[o].read # None => TicksOn(op'[o].read)
      BY <1>2, <2>0, <3>1 DEF ReadingEffect, StoredSid
    <3>3. \A s \in known' : TicksOn(s)
      BY <1>1, <1>4, <3>1 DEF ReadingEffect
    <3>4. UNCHANGED rec /\ ~Created(o)' /\ Stepped(o)
      BY <3>1 DEF ReadingEffect
    <3>5. QED
      BY <1>2, <1>3, <1>4, <3>2, <3>3, <3>4 DEF Deadlines, Ticking, TicksOn, Stepped, Created
  <2>3. CASE Exists(o)
    <3>1. Stepped(o) /\ UNCHANGED <<rec, known>> /\ op'[o].read = None /\ ~Created(o)'
      BY <2>3, ExistsStep DEF Refused, At, Created
    <3>2. QED
      BY <1>2, <2>1, <3>1
  <2>4. CASE SetRecord(o)
    <3>1. Stepped(o) /\ UNCHANGED <<known, owner>> /\ op'[o].read = None /\ op[o].sid \in SessionId
      BY <2>4, SetRecordStep DEF Refused, At
    <3>2. CASE UNCHANGED rec /\ Refused(o)
      BY <1>2, <2>1, <3>1, <3>2 DEF Refused, Created
    <3>3. CASE ~(UNCHANGED rec /\ Refused(o))
      <4>1. /\ \A f \in Entity :
                 rec'[f] = IF f = e THEN [sid |-> op[o].sid, ttl |-> op[o].sid] ELSE rec[f]
            /\ op'[o].sid = op[o].sid
            /\ rec' \in [Entity -> [sid : SessionId, ttl : SessionId \cup {None}] \cup {None}]
        BY <2>4, <3>3, SetRecordStep DEF At
      <4>2. owner'[op[o].sid] = e
        BY <3>1, OperationFacts DEF OwnOperation
      <4>3. rec'[e] # None /\ rec'[e].ttl = op[o].sid /\ rec'[e].sid = op[o].sid
        BY <2>0, <3>1, <4>1
      <4>4. TicksOn(op[o].sid)
        BY <4>2, <4>3 DEF TicksOn
      <4>5. \A f \in Entity : rec'[f] # None => TicksOn(rec'[f].sid)
        BY <1>2, <4>1, <4>3, <4>4
      <4>6. QED
        BY <2>1, <3>1, <4>1, <4>4, <4>5
    <3>4. QED
      BY <3>2, <3>3
  <2>5. CASE SetIndex(o)
    <3>1. /\ Stepped(o) /\ UNCHANGED <<rec, known>> /\ Created(o)
          /\ op'[o].read = None /\ op'[o].sid = op[o].sid
      BY <2>5, SetIndexStep DEF At, Created
    <3>2. QED
      BY <1>2, <1>3, <1>4, <2>1, <3>1
  <2>6. CASE Touch(o)
    <3>1. /\ Stepped(o) /\ UNCHANGED known /\ op[o].read \in SessionId
          /\ \A f \in Entity \ {e} : rec'[f] = rec[f]
          /\ rec'[e].sid = op[o].read /\ op'[o].read = None
          /\ ~Created(o)'
      BY <2>6, TouchStep DEF Refused, Created
    <3>2. \A f \in Entity : rec'[f] # None => TicksOn(rec'[f].sid)
      BY <1>2, <1>3, <3>1
    <3>3. QED
      BY <1>3, <2>1, <3>1, <3>2
  <2>7. CASE Delete(o)
    <3>1. /\ Stepped(o) /\ UNCHANGED known /\ op'[o].read = None /\ ~Created(o)'
          /\ \A f \in Entity : rec'[f] \in {None, rec[f]}
      BY <2>7, DeleteStep DEF Refused, Created
    <3>2. QED
      BY <1>2, <2>1, <3>1
  <2>8. QED
    BY <1>5, <2>2, <2>3, <2>4, <2>5, <2>6, <2>7 DEF Step, Reading
<1>6. ASSUME NEW f \in Entity, ExpireRecord(f) PROVE Deadlines'
  <2>1. UNCHANGED <<op, known>> /\ \A e \in Entity : rec'[e] \in {None, rec[e]}
    BY <1>6, ExpireRecordStep
  <2>2. QED
    BY <1>1, <1>2, <1>3, <1>4, <2>1 DEF Deadlines, Ticking, TicksOn, Created
<1>7. ASSUME NEW s \in SessionId, ExpireIndex(s) PROVE Deadlines'
  <2>1. UNCHANGED <<op, known, rec>>
    BY <1>7 DEF ExpireIndex
  <2>2. QED
    BY <1>1, <1>2, <1>3, <1>4, <2>1 DEF Deadlines, Ticking, TicksOn, Created
<1>8. CASE UNCHANGED vars
  BY <1>8 DEF vars, history, Deadlines, Created, Ticking
<1>9. QED
  BY <1>5, <1>6, <1>7, <1>8 DEF Next, Step

-----------------------------------------------------------------------------
(* Indices *)

IndexedOn(s) == s \in gone' \/ idx'[s] = owner'[s]

LEMMA IndexedStep ==
    ASSUME Base, [Next]_vars, NEW s \in SessionId, owner[s] # None, Ticking(s), Indexed(s),
           Recorded
    PROVE  IndexedOn(s)
<1> USE ConstantsAssumption
<1>0. gone \subseteq gone' /\ owner'[s] = owner[s] /\ owner[s] \in Entity /\ s # None
  BY HistoryGrows DEF Base
<1>1. ASSUME NEW o \in Slot, Reading(o) \/ Exists(o) \/ SetRecord(o) \/ Touch(o) PROVE UNCHANGED idx
  BY <1>1, ReadingStep, ExistsStep, SetRecordStep, TouchStep DEF ReadingEffect
<1>2. ASSUME NEW o \in Slot, SetIndex(o) PROVE IndexedOn(s)
  <2>1. /\ idx'[s] = IF s = op[o].sid THEN EntityOf[o] ELSE idx[s]
        /\ op[o].sid \in SessionId /\ owner[op[o].sid] = EntityOf[o]
    BY <1>2, SetIndexStep, OperationFacts DEF OwnOperation
  <2>2. QED
    BY <1>0, <2>1 DEF Indexed, IndexedOn
<1>3. ASSUME NEW o \in Slot, Delete(o) PROVE IndexedOn(s)
  <2>1. /\ idx'[s] = IF s = op[o].read THEN None ELSE idx[s]
        /\ gone' = gone \cup Ended(EntityOf[o])
    BY <1>3, DeleteStep
  <2>2. s = op[o].read => s \in gone'
    <3>1. s = op[o].read => owner[s] = EntityOf[o]
      BY <1>0, OperationFacts DEF OwnOperation
    <3>2. QED
      BY <1>0, <2>1, <3>1 DEF Ticking, Ended
  <2>3. QED
    BY <1>0, <2>1, <2>2 DEF Indexed, IndexedOn
<1>4. ASSUME NEW f \in Entity, ExpireRecord(f) PROVE UNCHANGED idx
  BY <1>4, ExpireRecordStep
<1>5. ASSUME NEW t \in SessionId, ExpireIndex(t) PROVE IndexedOn(s)
  <2>1. s = t => s \in gone
    BY <1>0, <1>5 DEF ExpireIndex, Ticking
  <2>2. s # t => idx'[s] = idx[s]
    BY <1>5 DEF ExpireIndex, Base
  <2>3. QED
    BY <1>0, <2>1, <2>2 DEF Indexed, IndexedOn
<1>6. ASSUME UNCHANGED vars PROVE UNCHANGED idx
  BY <1>6 DEF vars
<1>7. CASE UNCHANGED idx
  BY <1>0, <1>7 DEF Indexed, IndexedOn
<1>8. QED
  BY <1>1, <1>2, <1>3, <1>4, <1>5, <1>6, <1>7 DEF Next, Reading

LEMMA IndicesStep ==
    ASSUME Base, Deadlines, Indices, [Next]_vars,
           Recorded
    PROVE  Indices'
<1> USE ConstantsAssumption
<1> DEFINE Announced(o) == op[o].pc = "reply"
<1>1. ASSUME NEW s \in known PROVE IndexedOn(s)
  <2>1. s \in SessionId /\ owner[s] # None /\ Ticking(s) /\ Indexed(s)
    BY DEF Deadlines, Indices, Base, Owned
  <2>2. QED
    BY <2>1, IndexedStep
<1>2. ASSUME NEW o \in Slot, Announced(o) PROVE IndexedOn(op[o].sid)
  <2>1. op[o].sid \in SessionId /\ owner[op[o].sid] # None
    BY <1>2, OperationFacts DEF Operation, OwnOperation, Shape
  <2>2. Ticking(op[o].sid) /\ Indexed(op[o].sid)
    BY <1>2 DEF Deadlines, Created, Indices
  <2>3. QED
    BY <2>1, <2>2, IndexedStep
<1>3. ASSUME NEW o \in Slot, Step(o) PROVE Indices'
  <2>1. CASE Reading(o)
    <3>1. ReadingEffect(o)
      BY <2>1, ReadingStep
    <3>2. \A s \in known' : IndexedOn(s)
      BY <1>1, <1>2, <3>1 DEF ReadingEffect, Created
    <3>3. Stepped(o) /\ ~Created(o)'
      BY <3>1 DEF ReadingEffect
    <3>4. QED
      BY <1>2, <3>2, <3>3 DEF Indices, Indexed, IndexedOn, Created, Stepped
  <2>2. CASE SetIndex(o)
    <3>1. /\ Stepped(o) /\ UNCHANGED <<known, owner>> /\ op[o].sid \in SessionId
          /\ idx'[op[o].sid] = EntityOf[o] /\ op'[o].sid = op[o].sid
      BY <2>2, SetIndexStep DEF At
    <3>2. owner[op[o].sid] = EntityOf[o]
      BY <3>1, OperationFacts DEF OwnOperation
    <3>3. QED
      BY <1>1, <1>2, <3>1, <3>2 DEF Indices, Indexed, IndexedOn, Stepped
  <2>3. CASE Exists(o) \/ SetRecord(o) \/ Touch(o) \/ Delete(o)
    <3>1. Stepped(o) /\ UNCHANGED known /\ op'[o].pc # "reply"
      BY <2>3, ExistsStep, SetRecordStep, TouchStep, DeleteStep DEF Refused, At
    <3>2. QED
      BY <1>1, <1>2, <3>1 DEF Indices, Indexed, IndexedOn, Stepped
  <2>4. QED
    BY <1>3, <2>1, <2>2, <2>3 DEF Step, Reading
<1>4. CASE UNCHANGED <<op, known>>
  BY <1>1, <1>2, <1>4 DEF Indices, Indexed, IndexedOn
<1>5. ASSUME NEW f \in Entity, ExpireRecord(f) PROVE UNCHANGED <<op, known>>
  BY <1>5, ExpireRecordStep
<1>6. ASSUME NEW s \in SessionId, ExpireIndex(s) PROVE UNCHANGED <<op, known>>
  BY <1>6 DEF ExpireIndex
<1>7. ASSUME UNCHANGED vars PROVE UNCHANGED <<op, known>>
  BY <1>7 DEF vars
<1>8. QED
  BY <1>3, <1>4, <1>5, <1>6, <1>7 DEF Next, Step

-----------------------------------------------------------------------------
(* Sessions on their way to SET NX *)

\* s is in no key and in no other hand, in the next state.
UnusedOn(o, s) ==
    /\ s \notin gone'
    /\ \A e \in Entity : rec'[e] # None => rec'[e].sid # s /\ rec'[e].ttl # s
    /\ \A p \in Slot : op'[p].read # s
    /\ \A p \in Slot \ {o} : op'[p].pc = "setnx" => op'[p].sid # s

LEMMA FreshUnused ==
    ASSUME Base, NEW s \in SessionId, owner[s] = None
    PROVE  /\ s \notin gone
           /\ \A e \in Entity : rec[e] # None => rec[e].sid # s /\ rec[e].ttl # s
           /\ \A p \in Slot : op[p].read # s /\ op[p].sid # s
<1> USE ConstantsAssumption
<1>1. s \notin gone
  BY DEF Base, Owned
<1>2. \A e \in Entity : rec[e] # None => rec[e].sid # s /\ rec[e].ttl # s
  BY RecordFacts
<1>3. \A p \in Slot : op[p].read # s /\ op[p].sid # s
  BY OperationFacts DEF OwnOperation
<1>4. QED
  BY <1>1, <1>2, <1>3

LEMMA UnusedStep ==
    ASSUME Base, Pending, [Next]_vars, NEW o \in Slot, op[o].pc = "setnx", op'[o] = op[o],
           Recorded
    PROVE  UnusedOn(o, op[o].sid)
<1> USE ConstantsAssumption
<1> DEFINE s == op[o].sid
<1>0. /\ s \in SessionId
      /\ s \notin gone
      /\ \A e \in Entity : rec[e] # None => rec[e].sid # s /\ rec[e].ttl # s
      /\ \A p \in Slot : op[p].read # s
      /\ \A p \in Slot \ {o} : op[p].pc = "setnx" => op[p].sid # s
  BY OperationFacts DEF Operation, Shape, Pending, Unused
<1>1. ASSUME NEW p \in Slot, Step(p) PROVE UnusedOn(o, s)
  <2>1. CASE Reading(p)
    <3>1. ReadingEffect(p)
      BY <2>1, ReadingStep
    <3>2. /\ Stepped(p) /\ UNCHANGED <<gone, rec>> /\ op'[p].pc # "setnx"
          /\ op'[p].read \in {None} \cup StoredSid(EntityOf[p])
      BY <3>1 DEF ReadingEffect
    <3>3. op'[p].read # s
      BY <1>0, <3>2 DEF StoredSid
    <3>4. QED
      BY <1>0, <3>2, <3>3 DEF UnusedOn, Stepped
  <2>2. CASE Exists(p)
    <3>1. /\ Stepped(p) /\ UNCHANGED <<gone, rec>> /\ op'[p].read = None
          /\ op'[p].pc = "setnx" => owner[op'[p].sid] = None
      BY <2>2, ExistsStep DEF Refused, At
    <3>2. op'[p].pc = "setnx" => op'[p].sid # s
      BY <1>0, <3>1, OperationFacts DEF OwnOperation
    <3>3. QED
      BY <1>0, <3>1, <3>2 DEF UnusedOn, Stepped
  <2>3. CASE SetRecord(p)
    <3>1. Stepped(p) /\ op[p].pc = "setnx" /\ UNCHANGED gone
          /\ op'[p].pc # "setnx" /\ op'[p].read = None
      BY <2>3, SetRecordStep DEF Refused, At
    <3>2. op[p].sid # s
      BY <1>0, <3>1
    <3>3. \A e \in Entity : rec'[e] \in {rec[e], [sid |-> op[p].sid, ttl |-> op[p].sid]}
      BY <2>3, SetRecordStep
    <3>4. \A e \in Entity : rec'[e] # None => rec'[e].sid # s /\ rec'[e].ttl # s
      BY <1>0, <3>2, <3>3
    <3>5. QED
      BY <1>0, <3>1, <3>4 DEF UnusedOn, Stepped
  <2>4. CASE SetIndex(p)
    <3>1. /\ Stepped(p) /\ UNCHANGED <<gone, rec>>
          /\ op'[p].pc # "setnx" /\ op'[p].read = None
      BY <2>4, SetIndexStep DEF At
    <3>2. QED
      BY <1>0, <3>1 DEF UnusedOn, Stepped
  <2>5. CASE Touch(p)
    <3>1. /\ Stepped(p) /\ UNCHANGED gone
          /\ op'[p].pc # "setnx" /\ op'[p].read = None
      BY <2>5, TouchStep DEF Refused
    <3>2. /\ \A e \in Entity \ {EntityOf[p]} : rec'[e] = rec[e]
          /\ rec'[EntityOf[p]].sid = op[p].read
          /\ rec'[EntityOf[p]].ttl = IF rec[EntityOf[p]] = None THEN None ELSE rec[EntityOf[p]].ttl
      BY <2>5, TouchStep
    <3>3. rec'[EntityOf[p]].sid # s /\ rec'[EntityOf[p]].ttl # s
      BY <1>0, <3>2
    <3>4. QED
      BY <1>0, <3>1, <3>2, <3>3 DEF UnusedOn, Stepped
  <2>6. CASE Delete(p)
    <3>1. /\ Stepped(p) /\ op'[p].pc # "setnx" /\ op'[p].read = None
          /\ \A e \in Entity : rec'[e] \in {None, rec[e]}
          /\ gone' = gone \cup Ended(EntityOf[p])
      BY <2>6, DeleteStep DEF Refused
    <3>2. s \notin gone'
      BY <1>0, <3>1 DEF Ended
    <3>3. QED
      BY <1>0, <3>1, <3>2 DEF UnusedOn, Stepped
  <2>7. QED
    BY <1>1, <2>1, <2>2, <2>3, <2>4, <2>5, <2>6 DEF Step, Reading
<1>2. ASSUME NEW f \in Entity, ExpireRecord(f) PROVE UnusedOn(o, s)
  <2>1. /\ UNCHANGED op /\ \A e \in Entity : rec'[e] \in {None, rec[e]}
        /\ gone' = gone \cup Ended(f)
    BY <1>2, ExpireRecordStep
  <2>2. s \notin gone'
    BY <1>0, <2>1 DEF Ended
  <2>3. QED
    BY <1>0, <2>1, <2>2 DEF UnusedOn
<1>3. ASSUME NEW t \in SessionId, ExpireIndex(t) PROVE UnusedOn(o, s)
  BY <1>0, <1>3 DEF ExpireIndex, history, UnusedOn
<1>4. CASE UNCHANGED vars
  BY <1>0, <1>4 DEF vars, history, UnusedOn
<1>5. QED
  BY <1>1, <1>2, <1>3, <1>4 DEF Next, Step

\* Only Exists brings an operation to SET NX.
LEMMA ReachesSetNX ==
    ASSUME Base, [Next]_vars, NEW o \in Slot, op'[o].pc = "setnx", ~Exists(o),
           Recorded
    PROVE  op'[o] = op[o]
<1>1. ASSUME NEW p \in Slot, Step(p) PROVE op'[o] = op[o]
  <2>1. CASE p # o
    <3>1. Stepped(p)
      BY <1>1, ReadingStep, ExistsStep, SetRecordStep, SetIndexStep, TouchStep, DeleteStep
         DEF Step, Reading, ReadingEffect
    <3>2. QED
      BY <2>1, <3>1 DEF Stepped
  <2>2. CASE p = o
    <3>1. op'[o].pc # "setnx"
      BY <1>1, <2>2, ReadingStep, SetRecordStep, SetIndexStep, TouchStep, DeleteStep
         DEF Step, Reading, ReadingEffect, At, Refused
    <3>2. QED
      BY <3>1
  <2>3. QED
    BY <2>1, <2>2
<1>2. ASSUME NEW f \in Entity, ExpireRecord(f) PROVE op' = op
  BY <1>2 DEF ExpireRecord
<1>3. ASSUME NEW t \in SessionId, ExpireIndex(t) PROVE op' = op
  BY <1>3 DEF ExpireIndex
<1>4. CASE UNCHANGED vars
  BY <1>4 DEF vars
<1>5. QED
  BY <1>1, <1>2, <1>3, <1>4 DEF Next, Step

LEMMA PendingStep ==
    ASSUME Base, Pending, [Next]_vars,
           Recorded
    PROVE  Pending'
<1> SUFFICES ASSUME NEW o \in Slot, op'[o].pc = "setnx" PROVE UnusedOn(o, op'[o].sid)
  BY DEF Pending, Unused, UnusedOn
<1>1. CASE Exists(o)
  <2>1. /\ Stepped(o) /\ UNCHANGED <<gone, rec>>
        /\ op'[o].sid \in SessionId /\ owner[op'[o].sid] = None /\ op'[o].read = None
    BY <1>1, ExistsStep DEF Refused, At
  <2>2. QED
    BY <2>1, FreshUnused, ConstantsAssumption DEF UnusedOn, Stepped
<1>2. CASE ~Exists(o)
  BY <1>2, ReachesSetNX, UnusedStep
<1>3. QED
  BY <1>1, <1>2

-----------------------------------------------------------------------------
(* Calm *)

\* Calls that are not calm any more do not become so.
LEMMA CalmBefore ==
    ASSUME Base, [Next]_vars, NEW e \in Entity, Calm(e)',
           Recorded
    PROVE  Calm(e)
BY HistoryGrows DEF Calm

LEMMA RecordedStep == ASSUME Base, Recorded, [Next]_vars PROVE Recorded'
<1>0. touchers \subseteq touchers' /\ crowded \subseteq crowded'
  BY HistoryGrows
<1>1. ASSUME NEW o \in Slot, Reading(o) PROVE Recorded'
  <2>1. ReadingEffect(o)
    BY <1>1, ReadingStep
  <2>2. Stepped(o) /\ (op'[o].pc \in {"getidx", "getrec", "touch"} => EntityOf[o] \in touchers')
    BY <2>1 DEF ReadingEffect
  <2>3. ASSUME NEW p \in Slot \ {o}, EntityOf[p] = EntityOf[o], op[p].pc # "idle", op'[o].pc # "idle"
        PROVE  EntityOf[o] \in crowded'
    BY <1>0, <2>1, <2>3 DEF ReadingEffect, Recorded
  <2>4. QED
    BY <1>0, <2>2, <2>3 DEF Recorded, Stepped
<1>2. ASSUME NEW o \in Slot, Step(o), ~Reading(o) PROVE Recorded'
  <2>1. Stepped(o) /\ op[o].pc # "idle" /\ op'[o].pc \notin {"getidx", "getrec", "touch"}
    BY <1>2, ExistsStep, SetRecordStep, SetIndexStep, TouchStep, DeleteStep
       DEF Step, Reading, Refused, At
  <2>2. QED
    BY <1>0, <2>1 DEF Recorded, Stepped
<1>3. ASSUME op' = op PROVE Recorded'
  BY <1>0, <1>3 DEF Recorded
<1>4. ASSUME NEW f \in Entity, ExpireRecord(f) PROVE op' = op
  BY <1>4 DEF ExpireRecord
<1>5. ASSUME NEW s \in SessionId, ExpireIndex(s) PROVE op' = op
  BY <1>5 DEF ExpireIndex
<1>6. ASSUME UNCHANGED vars PROVE op' = op
  BY <1>6 DEF vars
<1>7. QED
  BY <1>1, <1>2, <1>3, <1>4, <1>5, <1>6 DEF Next, Step

\* The other operations of an entity wait while a touch of it is calm.
LEMMA CalmAlone ==
    ASSUME Recorded, NEW o \in Slot, op[o].pc = "touch", Calm(EntityOf[o]),
           NEW p \in Slot \ {o}, EntityOf[p] = EntityOf[o]
    PROVE  op[p].pc = "idle"
BY DEF Recorded, Calm

LEMMA CalmKeptStep ==
    ASSUME Base, Recorded, CalmKept, [Next]_vars
    PROVE  CalmKept'
<1> USE ConstantsAssumption
<1>0. /\ \A e \in Entity : Calm(e)' => Calm(e)
      /\ touchers \subseteq touchers' /\ crowded \subseteq crowded'
  BY CalmBefore, HistoryGrows
<1>1. ASSUME NEW e \in Entity, Calm(e)'
      PROVE  Calm(e) /\ Quiet(e)
  BY <1>0, <1>1 DEF CalmKept
<1>2. ASSUME NEW o \in Slot, op[o].pc = "touch", Calm(EntityOf[o])'
      PROVE  Calm(EntityOf[o]) /\ CalmTouch(o)
  BY <1>0, <1>2 DEF CalmKept
<1>3. ASSUME NEW o \in Slot, Reading(o) PROVE CalmKept'
  <2>1. ReadingEffect(o)
    BY <1>3, ReadingStep
  <2>2. Stepped(o) /\ UNCHANGED rec
    BY <2>1 DEF ReadingEffect
  <2>3. op'[o].pc = "touch" /\ Calm(EntityOf[o])' => CalmTouch(o)'
    BY <1>1, <2>1 DEF ReadingEffect, CalmTouch, Quiet
  <2>4. QED
    BY <1>1, <1>2, <2>2, <2>3 DEF CalmKept, Quiet, CalmTouch, Stepped
<1>4. ASSUME NEW o \in Slot, Exists(o) \/ SetIndex(o) PROVE CalmKept'
  <2>1. Stepped(o) /\ UNCHANGED rec /\ op'[o].pc # "touch"
    BY <1>4, ExistsStep, SetIndexStep DEF Refused, At
  <2>2. QED
    BY <1>1, <1>2, <2>1 DEF CalmKept, Quiet, CalmTouch, Stepped
<1>5. ASSUME NEW o \in Slot, SetRecord(o) PROVE CalmKept'
  <2>1. /\ Stepped(o) /\ op[o].pc = "setnx" /\ op'[o].pc # "touch"
        /\ \A e \in Entity : e # EntityOf[o] => rec'[e] = rec[e]
        /\ rec'[EntityOf[o]] \in {rec[EntityOf[o]], [sid |-> op[o].sid, ttl |-> op[o].sid]}
    BY <1>5, SetRecordStep DEF Refused, At
  <2>3. \A e \in Entity : Calm(e)' => Quiet(e)'
    BY <1>1, <2>1 DEF Quiet
  <2>4. ASSUME NEW p \in Slot \ {o}, op'[p].pc = "touch", Calm(EntityOf[p])' PROVE CalmTouch(p)'
    <3>1. op'[p] = op[p] /\ CalmTouch(p) /\ Calm(EntityOf[p])
      BY <1>2, <2>1, <2>4 DEF Stepped
    <3>2. EntityOf[o] # EntityOf[p]
      BY <2>1, <2>4, <3>1, CalmAlone
    <3>3. QED
      BY <2>1, <3>1, <3>2 DEF CalmTouch
  <2>5. QED
    BY <2>1, <2>3, <2>4 DEF CalmKept
<1>6. ASSUME NEW o \in Slot, Touch(o) PROVE CalmKept'
  <2> DEFINE f == EntityOf[o]
  <2>1. /\ Stepped(o) /\ op[o].pc = "touch" /\ op'[o].pc # "touch"
        /\ \A e \in Entity \ {f} : rec'[e] = rec[e]
        /\ rec'[f].sid = op[o].read
        /\ rec'[f].ttl = IF rec[f] = None THEN None ELSE rec[f].ttl
    BY <1>6, TouchStep DEF Refused
  <2>2. Calm(f)' => Quiet(f)'
    BY <1>1, <1>2, <2>1 DEF Quiet, CalmTouch
  <2>3. \A e \in Entity : Calm(e)' => Quiet(e)'
    BY <1>1, <2>1, <2>2 DEF Quiet
  <2>4. ASSUME NEW p \in Slot \ {o}, op'[p].pc = "touch", Calm(EntityOf[p])' PROVE CalmTouch(p)'
    <3>1. op'[p] = op[p] /\ CalmTouch(p) /\ Calm(EntityOf[p])
      BY <1>2, <2>1, <2>4 DEF Stepped
    <3>2. EntityOf[o] # EntityOf[p]
      BY <2>1, <2>4, <3>1, CalmAlone
    <3>3. QED
      BY <2>1, <3>1, <3>2 DEF CalmTouch
  <2>5. QED
    BY <2>1, <2>3, <2>4 DEF CalmKept
<1>7. ASSUME NEW o \in Slot, Delete(o) PROVE CalmKept'
  <2> DEFINE f == EntityOf[o]
  <2>1. /\ Stepped(o) /\ op[o].pc = "delete" /\ op'[o].pc # "touch"
        /\ \A e \in Entity : rec'[e] = IF e = f THEN None ELSE rec[e]
    BY <1>7, DeleteStep DEF Refused
  <2>3. ASSUME NEW e \in Entity, Calm(e)' PROVE Quiet(e)'
    BY <1>1, <2>1, <2>3 DEF Quiet
  <2>4. ASSUME NEW p \in Slot \ {o}, op'[p].pc = "touch", Calm(EntityOf[p])' PROVE CalmTouch(p)'
    <3>1. op'[p] = op[p] /\ CalmTouch(p) /\ Calm(EntityOf[p])
      BY <1>2, <2>1, <2>4 DEF Stepped
    <3>2. f # EntityOf[p]
      BY <2>1, <2>4, <3>1, CalmAlone
    <3>3. QED
      BY <2>1, <3>1, <3>2 DEF CalmTouch
  <2>5. QED
    BY <2>1, <2>3, <2>4 DEF CalmKept
<1>8. ASSUME NEW f \in Entity, ExpireRecord(f) PROVE CalmKept'
  <2>1. UNCHANGED op /\ \A e \in Entity : rec'[e] \in {None, rec[e]}
    BY <1>8, ExpireRecordStep
  <2>2. QED
    BY <1>1, <1>2, <2>1 DEF CalmKept, Quiet, CalmTouch
<1>9. ASSUME NEW s \in SessionId, ExpireIndex(s) PROVE CalmKept'
  <2>1. UNCHANGED <<op, rec>>
    BY <1>9 DEF ExpireIndex
  <2>2. QED
    BY <1>1, <1>2, <2>1 DEF CalmKept, Quiet, CalmTouch
<1>10. CASE UNCHANGED vars
  BY <1>1, <1>2, <1>10 DEF vars, CalmKept, Quiet, CalmTouch
<1>11. QED
  BY <1>3, <1>4, <1>5, <1>6, <1>7, <1>8, <1>9, <1>10 DEF Next, Reading

-----------------------------------------------------------------------------
(* Deleted sessions *)

LEMMA BuriedStep ==
    ASSUME Base, Recorded, Pending, Buried, [Next]_vars
    PROVE  Buried'
<1> USE ConstantsAssumption
<1>1. ASSUME NEW o \in Slot, Reading(o) PROVE Buried'
  <2>1. ReadingEffect(o)
    BY <1>1, ReadingStep
  <2>2. /\ Stepped(o) /\ UNCHANGED <<rec, deleted, overtaken>>
        /\ op'[o].pc = "touch" => /\ rec[EntityOf[o]] # None
                                  /\ op'[o].read = rec[EntityOf[o]].sid
    BY <2>1 DEF ReadingEffect
  <2>3. QED
    BY <2>2 DEF Buried, Stepped
<1>2. ASSUME NEW o \in Slot, Exists(o) \/ SetIndex(o) PROVE Buried'
  <2>1. Stepped(o) /\ UNCHANGED <<rec, deleted, overtaken>> /\ op'[o].pc # "touch"
    BY <1>2, ExistsStep, SetIndexStep DEF Refused, At
  <2>2. QED
    BY <2>1 DEF Buried, Stepped
<1>3. ASSUME NEW o \in Slot, SetRecord(o) PROVE Buried'
  <2>1. /\ Stepped(o) /\ UNCHANGED <<deleted, overtaken>>
        /\ op[o].pc = "setnx" /\ op'[o].pc # "touch"
        /\ \A e \in Entity : rec'[e] \in {rec[e], [sid |-> op[o].sid, ttl |-> op[o].sid]}
    BY <1>3, SetRecordStep DEF Refused, At
  <2>2. op[o].sid \notin deleted
    BY <2>1 DEF Pending, Unused, Base
  <2>3. QED
    BY <2>1, <2>2 DEF Buried, Stepped
<1>4. ASSUME NEW o \in Slot, Touch(o) PROVE Buried'
  <2>1. /\ Stepped(o) /\ UNCHANGED <<deleted, overtaken>>
        /\ op[o].pc = "touch" /\ op'[o].pc # "touch"
        /\ \A e \in Entity \ {EntityOf[o]} : rec'[e] = rec[e]
        /\ rec'[EntityOf[o]].sid = op[o].read
    BY <1>4, TouchStep DEF Refused
  <2>2. QED
    BY <2>1 DEF Buried, Stepped
<1>5. ASSUME NEW o \in Slot, Delete(o) PROVE Buried'
  <2> DEFINE f == EntityOf[o]
  <2>1. /\ Stepped(o) /\ op[o].pc = "delete" /\ op'[o].pc # "touch"
        /\ \A e \in Entity : rec'[e] = IF e = f THEN None ELSE rec[e]
        /\ deleted' = deleted \cup StoredSid(f)
        /\ overtaken' = overtaken \cup
               {s \in StoredSid(f) : \E p \in Slot : op[p].pc = "touch" /\ op[p].read = s}
    BY <1>5, DeleteStep DEF Refused
  <2>2. \A s \in StoredSid(f) : owner[s] = f
    BY EndedFacts
  <2>3. SUFFICES ASSUME NEW s \in deleted' \ overtaken'
                 PROVE  /\ \A e \in Entity : rec'[e] # None => rec'[e].sid # s
                        /\ \A p \in Slot : op'[p].pc = "touch" => op'[p].read # s
    BY DEF Buried
  <2>4. CASE s \in deleted
    BY <2>1, <2>3, <2>4 DEF Buried, Stepped
  <2>5. CASE s \in StoredSid(f)
    <3>1. \A e \in Entity : rec'[e] # None => rec'[e].sid # s
      BY <2>1, <2>2, <2>5, RecordFacts
    <3>2. \A p \in Slot : op[p].pc = "touch" => op[p].read # s
      BY <2>1, <2>3, <2>5
    <3>3. QED
      BY <2>1, <3>1, <3>2 DEF Stepped
  <2>6. QED
    BY <2>1, <2>4, <2>5
<1>6. ASSUME NEW f \in Entity, ExpireRecord(f) PROVE Buried'
  <2>1. UNCHANGED <<op, deleted, overtaken>> /\ \A e \in Entity : rec'[e] \in {None, rec[e]}
    BY <1>6, ExpireRecordStep
  <2>2. QED
    BY <2>1 DEF Buried
<1>7. ASSUME NEW s \in SessionId, ExpireIndex(s) PROVE Buried'
  BY <1>7 DEF ExpireIndex, history, Buried
<1>8. CASE UNCHANGED vars
  BY <1>8 DEF vars, history, Buried
<1>9. QED
  BY <1>1, <1>2, <1>3, <1>4, <1>5, <1>6, <1>7, <1>8 DEF Next, Reading

-----------------------------------------------------------------------------
(* Theorems *)

LEMMA InductiveInit == Init => Inductive
<1> SUFFICES ASSUME Init PROVE Inductive
  OBVIOUS
<1> USE ConstantsAssumption
<1>1. \A o \in Slot : op[o].pc = "idle" /\ op[o].sid = None /\ op[o].read = None
  BY DEF Init, Idle, State
<1>2. \A e \in Entity : rec[e] = None
  BY DEF Init
<1>3. Base
  <2>1. op \in [Slot -> ShapedOperation]
    BY IdleShaped DEF Init
  <2>2. Owned
    BY <1>1, <1>2 DEF Init, Owned, OwnOperation
  <2>3. QED
    BY <2>1, <2>2 DEF Init, Base
<1>4. Recorded /\ Pending
  BY <1>1 DEF Recorded, Pending
<1>5. Deadlines /\ Indices
  BY <1>1, <1>2 DEF Init, Deadlines, Indices, Created
<1>6. CalmKept /\ Buried
  BY <1>1, <1>2 DEF Init, CalmKept, Quiet, Buried
<1>7. QED
  BY <1>3, <1>4, <1>5, <1>6 DEF Inductive

LEMMA InductiveCorrect == Spec => []Inductive
<1>1. Inductive /\ [Next]_vars => Inductive'
  BY BaseStep, RecordedStep, DeadlinesStep, IndicesStep, PendingStep, CalmKeptStep,
     BuriedStep DEF Inductive
<1>2. QED
  BY <1>1, InductiveInit, PTL DEF Spec

\* Every state has its type.
THEOREM TypeCorrect == Spec => []TypeOK
<1>1. Inductive => TypeOK
  BY BaseType DEF Inductive
<1>2. QED
  BY <1>1, InductiveCorrect, PTL

\* However many requests, creations and invalidations are in flight, a session
\* that has not ended has the deadline its creation set (touch_entity_session
\* writes with KEEPTTL).
THEOREM DeadlinesAreKept == Spec => []DeadlineKept
<1>1. Inductive => DeadlineKept
  BY RecordFacts DEF Inductive, Deadlines, Ticking, DeadlineKept
<1>2. QED
  BY <1>1, InductiveCorrect, PTL

\* A session whose creation was answered and that has not ended is found by its
\* id and is the record of its entity, when no touch ran beside another call of
\* the entity (store_entity_session, delete_entity_session).
THEOREM SessionsAreReachable == Spec => []Reachable
<1>1. ASSUME Inductive, NEW s \in known \ gone, Calm(owner[s])
      PROVE  rec[owner[s]] # None /\ rec[owner[s]].sid = s /\ idx[s] = owner[s]
  <2>1. s \in SessionId /\ owner[s] \in Entity
    BY <1>1 DEF Inductive, Base, Owned
  <2>2. rec[owner[s]] # None /\ rec[owner[s]].ttl = s /\ idx[s] = owner[s]
    BY <1>1 DEF Inductive, Deadlines, Ticking, Indices, Indexed
  <2>3. rec[owner[s]].sid = s
    BY <1>1, <2>1, <2>2, ConstantsAssumption DEF Inductive, CalmKept, Quiet
  <2>4. QED
    BY <2>2, <2>3
<1>2. Inductive => Reachable
  BY <1>1 DEF Reachable
<1>3. QED
  BY <1>2, InductiveCorrect, PTL

\* With any number of requests in flight, a session a deletion removed is the record
\* of its entity again only by a request that had verified its tag with the record
\* before the deletion (invalidate_entity_session, touch_entity_session).
THEOREM InvalidatedStaysOut == Spec => []NotRevived
<1>1. Inductive => NotRevived
  BY DEF Inductive, Buried, NotRevived, StoredSid
<1>2. QED
  BY <1>1, InductiveCorrect, PTL

-----------------------------------------------------------------------------
(* The rate limiter *)

\* Of n requests counted, those that are let in.
Passed(n) == IF n > MaxRequests THEN MaxRequests ELSE n

Sum(past, d) == Cardinality(Recent(past, d))

\* What is left of the windows before is less than a limit, and so is what was
\* let in after the tick in which the window got its end: when it ends, the
\* rest of it is out of sight.
Bounded(c, past) ==
    /\ c = Unset => Sum(past, Window) < MaxRequests
    /\ c # Unset /\ c.ttl = Unset => Sum(past, Window) + 1 < MaxRequests + Passed(c.n)
    /\ c # Unset /\ c.ttl # Unset =>
         /\ Sum(past, Window) < MaxRequests + Passed(c.n)
         /\ Sum(past, Window - c.ttl) < Passed(c.n)

\* The request that sets the end of a window is the first of it, and nobody else
\* is about to.
FirstCall(o) ==
    call[o].pc = "expire" =>
        /\ counter[call[o].key] # Unset
        /\ counter[call[o].key].ttl = Unset
        /\ \A p \in Caller : call[p].pc = "expire" /\ call[p].key = call[o].key => p = o

LimiterInductive ==
    /\ LimiterTypeOK
    /\ \A o \in Caller : call[o].pc # "idle" => call[o].key \in Subject
    /\ \A o \in Caller : FirstCall(o)
    /\ \A k \in Subject : Bounded(counter[k], admitted[k])

-----------------------------------------------------------------------------
(* Sums of what was admitted *)

Past == [Age -> 0 .. 2 * MaxRequests]

LEMMA AgeFacts ==
    /\ MaxRequests \in Nat /\ MaxRequests > 0 /\ Window \in Nat /\ Window > 0
    /\ Age \subseteq Nat /\ 0 \in Age
    /\ \A a \in Nat : a \in Age <=> a < Window
BY LimitAssumption DEF Age

LEMMA RecentIs ==
    ASSUME NEW past, NEW d
    PROVE  /\ \A a \in Age : \A i \in 1 .. past[a] : a < d => <<a, i>> \in Recent(past, d)
           /\ \A x \in Recent(past, d) :
                  \E a \in Age : a < d /\ \E i \in 1 .. past[a] : x = <<a, i>>
BY DEF Recent

LEMMA SumIsFinite ==
    ASSUME NEW past \in Past, NEW d
    PROVE  IsFiniteSet(Recent(past, d)) /\ Sum(past, d) \in Nat
<1>1. IsFiniteSet(Age) /\ IsFiniteSet(1 .. 2 * MaxRequests)
  BY AgeFacts, FS_Interval DEF Age
<1>2. IsFiniteSet(Age \X (1 .. 2 * MaxRequests))
  BY <1>1, FS_Product
<1>3. \A a \in Age : \A i \in 1 .. past[a] : i \in 1 .. 2 * MaxRequests
  BY AgeFacts DEF Past
<1>4. Recent(past, d) \subseteq Age \X (1 .. 2 * MaxRequests)
  BY <1>3, RecentIs
<1>5. IsFiniteSet(Recent(past, d))
  BY <1>2, <1>4, FS_Subset
<1> QED BY <1>5, FS_CardinalityType DEF Sum

\* A tick moves what was admitted by one age, and forgets the oldest.
LEMMA SumOlder ==
    ASSUME NEW past \in Past, NEW d \in 0 .. Window - 1
    PROVE  Sum(Older(past), d + 1) <= Sum(past, d)
<1> DEFINE S == Recent(Older(past), d + 1)
           T == Recent(past, d)
           f == [x \in S |-> <<x[1] - 1, x[2]>>]
<1>1. ASSUME NEW x \in S
      PROVE  \E a \in Age : \E i \in 1 .. past[a] : x = <<a + 1, i>> /\ a < d
  <2>1. PICK b \in Age : b < d + 1 /\ \E i \in 1 .. Older(past)[b] : x = <<b, i>>
    BY <1>1, RecentIs
  <2>2. PICK i \in 1 .. Older(past)[b] : x = <<b, i>>
    BY <2>1
  <2>3. b # 0
    BY <2>2 DEF Older
  <2>4. b - 1 \in Age /\ b - 1 < d /\ (b - 1) + 1 = b
    BY <2>1, <2>3, AgeFacts
  <2>5. i \in 1 .. past[b - 1]
    BY <2>2, <2>3 DEF Older
  <2> QED BY <2>2, <2>4, <2>5
<1>2. f \in [S -> T]
  <2>1. ASSUME NEW x \in S
        PROVE  <<x[1] - 1, x[2]>> \in T
    <3>1. PICK a \in Age : \E i \in 1 .. past[a] : x = <<a + 1, i>> /\ a < d
      BY <1>1
    <3>2. PICK i \in 1 .. past[a] : x = <<a + 1, i>> /\ a < d
      BY <3>1
    <3>3. x[1] - 1 = a /\ x[2] = i
      BY <3>2, AgeFacts
    <3> QED BY <3>2, <3>3, RecentIs
  <2> QED BY <2>1
<1>3. \A x, y \in S : f[x] = f[y] => x = y
  <2>1. ASSUME NEW x \in S, NEW y \in S, f[x] = f[y]
        PROVE  x = y
    <3>1. PICK a \in Age, i \in Nat : x = <<a + 1, i>>
      BY <1>1, AgeFacts DEF Past
    <3>2. PICK b \in Age, j \in Nat : y = <<b + 1, j>>
      BY <1>1, AgeFacts DEF Past
    <3>3. x[1] - 1 = y[1] - 1 /\ x[2] = y[2]
      BY <2>1
    <3> QED BY <3>1, <3>2, <3>3, AgeFacts
  <2> QED BY <2>1
<1>4. f \in Injection(S, T)
  BY <1>2, <1>3, Fun_IsInj
<1> QED BY <1>4, SumIsFinite, FS_Injection DEF Sum

\* The past one request later.
Grown(past) == [past EXCEPT ![0] = @ + 1]

LEMMA SumGrown ==
    ASSUME NEW past \in Past, NEW d \in 0 .. Window
    PROVE  /\ Sum(Grown(past), d) \in Nat
           /\ Sum(Grown(past), d) <= Sum(past, d) + 1
           /\ d = 0 => Sum(Grown(past), d) = 0
<1> DEFINE S == Recent(past, d)
           x == <<0, past[0] + 1>>
<1>1. Recent(Grown(past), d) \subseteq S \cup {x}
  <2>1. ASSUME NEW y \in Recent(Grown(past), d)
        PROVE  y \in S \cup {x}
    <3>1. PICK a \in Age : a < d /\ \E i \in 1 .. Grown(past)[a] : y = <<a, i>>
      BY RecentIs
    <3>2. PICK i \in 1 .. Grown(past)[a] : y = <<a, i>>
      BY <3>1
    <3>3. CASE i \in 1 .. past[a]
      BY <3>1, <3>2, <3>3, RecentIs
    <3>4. CASE i \notin 1 .. past[a]
      <4>1. past \in [Age -> Nat]
        BY AgeFacts DEF Past
      <4>2. a = 0 /\ i = past[0] + 1
        BY <3>2, <3>4, <4>1, AgeFacts DEF Grown
      <4> QED BY <3>2, <4>2
    <3> QED BY <3>3, <3>4
  <2> QED BY <2>1
<1>2. IsFiniteSet(S \cup {x}) /\ Cardinality(S \cup {x}) <= Sum(past, d) + 1
  <2>1. IsFiniteSet(S) /\ Cardinality(S) = Sum(past, d) /\ Sum(past, d) \in Nat
    BY SumIsFinite DEF Sum
  <2> HIDE DEF S, x
  <2>2. /\ IsFiniteSet(S \cup {x})
        /\ Cardinality(S \cup {x}) = IF x \in S THEN Cardinality(S) ELSE Cardinality(S) + 1
    BY <2>1, FS_AddElement
  <2> QED BY <2>1, <2>2
<1>3. Sum(Grown(past), d) <= Cardinality(S \cup {x})
  BY <1>1, <1>2, FS_Subset DEF Sum
<1>4. IsFiniteSet(Recent(Grown(past), d)) /\ Sum(Grown(past), d) \in Nat
  BY <1>1, <1>2, FS_Subset, FS_CardinalityType DEF Sum
<1>5. ASSUME d = 0
      PROVE  Recent(Grown(past), d) = {}
  BY <1>5, RecentIs, AgeFacts
<1>6. Cardinality(S \cup {x}) \in Nat /\ Sum(past, d) \in Nat
  BY <1>2, SumIsFinite, FS_CardinalityType
<1> HIDE DEF S, x
<1> QED BY <1>2, <1>3, <1>4, <1>5, <1>6, FS_EmptySet DEF Sum

LEMMA SumParts ==
    ASSUME NEW past \in Past
    PROVE  /\ \A d \in 0 .. Window : Sum(past, d) <= Sum(past, Window)
           /\ past[0] <= Sum(past, Window)
<1>1. ASSUME NEW d \in 0 .. Window
      PROVE  Sum(past, d) <= Sum(past, Window)
  <2>1. Recent(past, d) \subseteq Recent(past, Window)
    BY AgeFacts, RecentIs
  <2> QED BY <2>1, SumIsFinite, FS_Subset DEF Sum
<1>2. past[0] <= Sum(past, Window)
  <2> DEFINE f == [i \in 1 .. past[0] |-> <<0, i>>]
  <2>1. f \in [1 .. past[0] -> Recent(past, Window)]
    BY AgeFacts, RecentIs
  <2>2. \A i, j \in 1 .. past[0] : f[i] = f[j] => i = j
    OBVIOUS
  <2>3. f \in Injection(1 .. past[0], Recent(past, Window))
    BY <2>1, <2>2, Fun_IsInj
  <2>4. Cardinality(1 .. past[0]) <= Sum(past, Window)
    BY <2>3, SumIsFinite, FS_Injection DEF Sum
  <2>5. past[0] \in Nat
    BY AgeFacts DEF Past
  <2> QED BY <2>4, <2>5, FS_Interval
<1> QED BY <1>1, <1>2

-----------------------------------------------------------------------------
(* The steps *)

CounterRecord == [n : 1 .. Cap, ttl : 1 .. Window \cup {Unset}]

LEMMA CounterFacts ==
    ASSUME NEW c \in CounterRecord
    PROVE  /\ c # Unset /\ c.n \in Nat /\ c.n >= 1 /\ c.n <= Cap
           /\ c.ttl # Unset => c.ttl \in Nat /\ c.ttl >= 1 /\ c.ttl <= Window
           /\ Passed(c.n) \in Nat /\ Passed(c.n) >= 1 /\ Passed(c.n) <= MaxRequests
           /\ \A d \in 1 .. Window : d \in Nat /\ d # Unset
BY LimitAssumption, AgeFacts DEF CounterRecord, Cap, Passed

\* The call of o moves on.
Moves(o) ==
    /\ call' \in [Caller -> CallState]
    /\ \A p \in Caller \ {o} : call'[p] = call[p]

\* A step of a request that leaves the counters alone, and never gets to EXPIRE.
Passes(o) ==
    /\ Moves(o)
    /\ call'[o].pc # "idle" => call'[o].key \in Subject
    /\ call'[o].pc # "expire"
    /\ UNCHANGED <<counter, admitted>>
    /\ orphaned' \subseteq Subject

LEMMA PassesKeeps ==
    ASSUME LimiterInductive, NEW o \in Caller, Passes(o)
    PROVE  LimiterInductive'
<1>1. LimiterTypeOK'
  BY DEF LimiterInductive, LimiterTypeOK, Passes, Moves, CallState, Stage
<1>2. \A p \in Caller : call'[p].pc # "idle" => call'[p].key \in Subject
  BY DEF LimiterInductive, Passes, Moves
<1>3. \A p \in Caller : FirstCall(p)'
  BY DEF LimiterInductive, Passes, Moves, FirstCall
<1>4. \A k \in Subject : Bounded(counter[k], admitted[k])'
  BY DEF LimiterInductive, Passes, Bounded
<1> QED BY <1>1, <1>2, <1>3, <1>4 DEF LimiterInductive

LEMMA CallMoves ==
    ASSUME LimiterInductive, NEW o \in Caller, NEW q \in CallState,
           call' = [call EXCEPT ![o] = q]
    PROVE  Moves(o) /\ call'[o] = q
BY DEF LimiterInductive, LimiterTypeOK, Moves

LEMMA PassingSteps ==
    ASSUME LimiterInductive, NEW o \in Caller,
           Arrive(o) \/ Deny(o) \/ Respond(o) \/ Crash(o)
    PROVE  Passes(o)
<1>0. orphaned \subseteq Subject /\ NoCall \in CallState /\ NoCall.pc = "idle"
  BY AgeFacts DEF LimiterInductive, LimiterTypeOK, NoCall, CallAt, CallState, Stage
<1>1. CASE Arrive(o)
  <2>1. PICK k \in Subject : call' = [call EXCEPT ![o] = CallAt("incr", k, "none", 0)]
    BY <1>1 DEF Arrive
  <2> DEFINE q == CallAt("incr", k, "none", 0)
  <2>2. q \in CallState /\ q.pc = "incr" /\ q.key \in Subject
    BY AgeFacts DEF CallAt, CallState, Stage
  <2>3. call' = [call EXCEPT ![o] = q] /\ UNCHANGED <<counter, admitted, orphaned>>
    BY <1>1, <2>1 DEF Arrive
  <2> HIDE DEF q
  <2> QED BY <1>0, <2>2, <2>3, CallMoves DEF Passes
<1>2. CASE Deny(o)
  <2> DEFINE c == counter[call[o].key]
             r == IF c = Unset THEN 1 ELSE IF c.ttl = Unset THEN 1 ELSE c.ttl
             q == CallAt("reply", call[o].key, "429", r)
  <2>1. call[o].key \in Subject
    BY <1>2 DEF Deny, LimiterInductive
  <2>2. r \in 0 .. Window
    <3>1. c \in CounterRecord \cup {Unset}
      BY <2>1 DEF LimiterInductive, LimiterTypeOK, CounterRecord
    <3> HIDE DEF c
    <3>2. CASE c = Unset
      BY <3>2, AgeFacts
    <3>3. CASE c \in CounterRecord
      BY <3>3, AgeFacts, CounterFacts
    <3> QED BY <3>1, <3>2, <3>3
  <2>3. q \in CallState
    BY <2>1, <2>2 DEF CallAt, CallState, Stage
  <2>4. call' = [call EXCEPT ![o] = q] /\ UNCHANGED <<counter, admitted, orphaned>>
    BY <1>2 DEF Deny
  <2>5. q.pc = "reply" /\ q.key \in Subject
    BY <2>1 DEF CallAt
  <2> HIDE DEF q
  <2> QED BY <1>0, <2>3, <2>4, <2>5, CallMoves DEF Passes
<1>3. CASE Respond(o)
  BY <1>0, <1>3, CallMoves DEF Respond, Passes
<1>4. CASE Crash(o)
  <2>1. orphaned' \subseteq Subject
    BY <1>0, <1>4 DEF Crash, LimiterInductive
  <2> QED BY <1>0, <1>4, <2>1, CallMoves DEF Crash, Passes
<1> QED BY <1>1, <1>2, <1>3, <1>4

\* A step of a request that writes the counter of its key: the past of the key
\* stays or grows by one.
Writes(o, c) ==
    LET k == call[o].key
    IN  /\ Moves(o)
        /\ k \in Subject /\ call'[o].key = k
        /\ c \in CounterRecord
        /\ counter' = [counter EXCEPT ![k] = c]
        /\ UNCHANGED orphaned
        /\ \/ UNCHANGED admitted
           \/ admitted' = [admitted EXCEPT ![k] = Grown(admitted[k])]

LEMMA WritesKeeps ==
    ASSUME LimiterInductive, NEW o \in Caller, NEW c, Writes(o, c),
           FirstCall(o)',
           \A p \in Caller \ {o} :
               call[p].pc = "expire" /\ call[p].key = call[o].key => c.ttl = Unset /\ call'[o].pc # "expire",
           Bounded(c, admitted'[call[o].key]),
           admitted'[call[o].key] = Grown(admitted[call[o].key])
             => Sum(admitted[call[o].key], Window) < 2 * MaxRequests
    PROVE  LimiterInductive'
<1> DEFINE k == call[o].key
<1>0. /\ k \in Subject /\ counter' = [counter EXCEPT ![k] = c]
      /\ counter \in [Subject -> CounterRecord \cup {Unset}]
      /\ admitted \in [Subject -> Past]
      /\ c \in CounterRecord /\ c # Unset
  BY CounterFacts DEF Writes, LimiterInductive, LimiterTypeOK, CounterRecord, Past
<1>1. admitted' \in [Subject -> Past]
  <2>1. CASE UNCHANGED admitted
    BY <1>0, <2>1
  <2>2. CASE admitted' = [admitted EXCEPT ![k] = Grown(admitted[k])]
    <3>1. admitted'[k] = Grown(admitted[k]) /\ admitted[k] \in Past
      BY <1>0, <2>2
    <3>2. admitted[k][0] <= Sum(admitted[k], Window) /\ Sum(admitted[k], Window) \in Nat
      BY <3>1, SumParts, SumIsFinite
    <3>3. admitted[k][0] + 1 \in 0 .. 2 * MaxRequests
      BY <3>1, <3>2, AgeFacts DEF Past
    <3>4. Grown(admitted[k]) \in Past
      BY <3>1, <3>3, AgeFacts DEF Grown, Past
    <3> QED BY <1>0, <2>2, <3>4
  <2> QED BY <2>1, <2>2 DEF Writes
<1>2. \A j \in Subject \ {k} : admitted'[j] = admitted[j]
  BY <1>0 DEF Writes
<1>3. LimiterTypeOK'
  BY <1>0, <1>1 DEF Writes, Moves, LimiterInductive, LimiterTypeOK, CounterRecord, Past
<1>4. \A p \in Caller : call'[p].pc # "idle" => call'[p].key \in Subject
  BY <1>0 DEF Writes, Moves, LimiterInductive
<1>5. ASSUME NEW p \in Caller
      PROVE  FirstCall(p)'
  <2>1. CASE p = o
    BY <2>1
  <2>2. CASE p # o
    <3>1. call'[p] = call[p] /\ FirstCall(p)
      BY <2>2 DEF Writes, Moves, LimiterInductive
    <3>2. call[p].pc = "expire" => call[p].key \in Subject
      BY DEF LimiterInductive
    <3>3. call[p].pc = "expire" =>
            counter'[call[p].key] # Unset /\ counter'[call[p].key].ttl = Unset
      BY <1>0, <2>2, <3>1, <3>2 DEF FirstCall
    <3>4. ASSUME call[p].pc = "expire", NEW r \in Caller,
                 call'[r].pc = "expire", call'[r].key = call[p].key
          PROVE  r = p
      BY <2>2, <3>1, <3>4 DEF FirstCall, Writes, Moves
    <3> QED BY <3>1, <3>3, <3>4 DEF FirstCall
  <2> QED BY <2>1, <2>2
<1>6. \A j \in Subject : Bounded(counter'[j], admitted'[j])
  BY <1>0, <1>2 DEF LimiterInductive
<1> HIDE DEF k
<1>7. \A j \in Subject : Bounded(counter[j], admitted[j])'
  BY <1>6 DEF Bounded
<1> QED BY <1>3, <1>4, <1>5, <1>7 DEF LimiterInductive

LEMMA IncrKeeps ==
    ASSUME LimiterInductive, NEW o \in Caller, Incr(o)
    PROVE  LimiterInductive'
<1> DEFINE k == call[o].key
           c == Incremented(k)
           past == admitted[k]
<1>1. /\ k \in Subject /\ call[o].pc = "incr"
      /\ counter[k] \in CounterRecord \cup {Unset}
      /\ past \in Past
      /\ Bounded(counter[k], past)
      /\ counter' = [counter EXCEPT ![k] = c] /\ UNCHANGED orphaned
  BY DEF Incr, Count, LimiterInductive, LimiterTypeOK, CounterRecord, Past
<1>2. /\ c \in CounterRecord
      /\ counter[k] = Unset => c.n = 1 /\ c.ttl = Unset
      /\ counter[k] # Unset =>
           /\ c.ttl = counter[k].ttl /\ c.n > 1
           /\ c.n = Capped(counter[k].n + 1)
  <2>1. CASE counter[k] = Unset
    BY <2>1, AgeFacts DEF Incremented, CounterRecord, Cap
  <2>2. CASE counter[k] # Unset
    <3>1. counter[k] \in CounterRecord /\ counter[k].n \in Nat /\ counter[k].n >= 1
      BY <1>1, <2>2, CounterFacts
    <3>2. Capped(counter[k].n + 1) \in 1 .. Cap /\ Capped(counter[k].n + 1) > 1
      BY <3>1, AgeFacts DEF Capped, Cap
    <3>3. c = [n |-> Capped(counter[k].n + 1), ttl |-> counter[k].ttl]
      BY <2>2 DEF Incremented
    <3> QED BY <2>2, <3>1, <3>2, <3>3 DEF CounterRecord
  <2> QED BY <2>1, <2>2
<1>3. /\ c.n = 1 => Proceed(o, "expire")
      /\ c.n # 1 => \/ c.n <= MaxRequests /\ Admit(o)
                    \/ c.n > MaxRequests /\ Proceed(o, "ttl")
  BY <1>2, AgeFacts, CounterFacts DEF Incr
<1> HIDE DEF c
<1>4. ASSUME NEW pc \in Stage, Proceed(o, pc)
      PROVE  /\ Writes(o, c) /\ call'[o].pc = pc /\ admitted' = admitted
  <2> DEFINE q == CallAt(pc, k, "none", 0)
  <2>1. q \in CallState /\ q.pc = pc /\ q.key = k
    BY <1>1, AgeFacts DEF CallAt, CallState
  <2>2. call' = [call EXCEPT ![o] = q] /\ admitted' = admitted
    BY <1>4 DEF Proceed
  <2> HIDE DEF q
  <2> QED BY <1>1, <1>2, <2>1, <2>2, CallMoves DEF Writes
<1>5. ASSUME Admit(o)
      PROVE  Writes(o, c) /\ call'[o].pc = "reply" /\ admitted'[k] = Grown(past)
  <2> DEFINE q == CallAt("reply", k, "200", 0)
  <2>1. q \in CallState /\ q.pc = "reply" /\ q.key = k
    BY <1>1, AgeFacts DEF CallAt, CallState, Stage
  <2>2. call' = [call EXCEPT ![o] = q]
    BY <1>5 DEF Admit
  <2> HIDE DEF q
  <2>3. admitted' = [admitted EXCEPT ![k] = Grown(past)]
    BY <1>1, <1>5 DEF Admit, Grown, LimiterInductive, LimiterTypeOK
  <2>4. admitted'[k] = Grown(past)
    BY <1>1, <2>3 DEF LimiterInductive, LimiterTypeOK
  <2> QED BY <1>1, <1>2, <2>1, <2>2, <2>3, <2>4, CallMoves DEF Writes
<1>6. /\ Sum(past, Window) \in Nat
      /\ \A d \in 0 .. Window :
           /\ Sum(past, d) \in Nat /\ Sum(Grown(past), d) \in Nat
           /\ Sum(Grown(past), d) <= Sum(past, d) + 1
  BY <1>1, SumIsFinite, SumGrown
<1>7. CASE counter[k] = Unset
  <2>1. c.n = 1 /\ c.ttl = Unset /\ Writes(o, c) /\ call'[o].pc = "expire" /\ admitted' = admitted
    BY <1>2, <1>3, <1>4, <1>7 DEF Stage
  <2>2. \A p \in Caller \ {o} : ~(call[p].pc = "expire" /\ call[p].key = k)
    BY <1>7 DEF LimiterInductive, FirstCall
  <2>3. counter'[k] = c /\ c # Unset
    BY <1>1, <1>2, CounterFacts DEF LimiterInductive, LimiterTypeOK
  <2>4. FirstCall(o)'
    BY <2>1, <2>2, <2>3 DEF FirstCall, Writes, Moves
  <2>5. Bounded(c, past)
    BY <1>1, <1>6, <1>7, <2>1, <2>3, AgeFacts DEF Bounded, Passed
  <2>6. admitted'[k] = Grown(past) => Sum(past, Window) < 2 * MaxRequests
    BY <1>1, <1>6, <1>7, AgeFacts DEF Bounded
  <2> QED BY <2>1, <2>2, <2>4, <2>5, <2>6, WritesKeeps
<1>8. CASE counter[k] # Unset
  <2> DEFINE b == counter[k]
  <2>1. /\ b \in CounterRecord /\ c.ttl = b.ttl /\ c.n = Capped(b.n + 1)
        /\ c # Unset /\ c.n # 1
    BY <1>1, <1>2, <1>8, CounterFacts
  <2>2. b.n \in Nat /\ b.n >= 1 /\ b.n <= Cap
    BY <2>1, CounterFacts
  <2>3. b.ttl # Unset => Window - b.ttl \in 0 .. Window
    BY <2>1, CounterFacts, AgeFacts
  <2>4. c.n <= MaxRequests => Passed(c.n) = Passed(b.n) + 1
    BY <2>1, <2>2, AgeFacts DEF Passed, Capped, Cap
  <2>5. Passed(c.n) >= Passed(b.n) /\ Passed(c.n) \in Nat /\ Passed(b.n) \in Nat
        /\ Passed(c.n) <= MaxRequests
    BY <2>1, <2>2, AgeFacts DEF Passed, Capped, Cap
  <2>6. ASSUME NEW p \in Caller \ {o}, call[p].pc = "expire", call[p].key = k
        PROVE  c.ttl = Unset
    BY <2>1, <2>6 DEF LimiterInductive, FirstCall
  <2> HIDE DEF b
  <2>7. Bounded(b, past)
    BY <1>1 DEF b
  <2>8. CASE c.n <= MaxRequests /\ Admit(o)
    <3>1. Writes(o, c) /\ call'[o].pc = "reply" /\ admitted'[k] = Grown(past)
      BY <1>5, <2>8
    <3>2. FirstCall(o)'
      BY <3>1 DEF FirstCall
    <3>3. Sum(past, Window) + 1 < MaxRequests + Passed(c.n)
      BY <1>6, <1>8, <2>4, <2>5, <2>7, <2>8, AgeFacts DEF Bounded, b
    <3>4. Sum(past, Window) < 2 * MaxRequests
      BY <1>6, <2>5, <3>3, AgeFacts
    <3>5. Bounded(c, Grown(past))
      BY <1>6, <1>8, <2>1, <2>3, <2>4, <2>5, <2>7, <2>8, AgeFacts DEF Bounded, b
    <3> QED BY <2>6, <3>1, <3>2, <3>4, <3>5, WritesKeeps
  <2>9. CASE c.n > MaxRequests /\ Proceed(o, "ttl")
    <3>1. Writes(o, c) /\ call'[o].pc = "ttl" /\ admitted' = admitted
      BY <1>4, <2>9 DEF Stage
    <3>2. FirstCall(o)'
      BY <3>1 DEF FirstCall
    <3>3. Bounded(c, past)
      BY <1>6, <1>8, <2>1, <2>3, <2>5, <2>7, AgeFacts DEF Bounded, b
    <3>4. admitted'[k] # Grown(past)
      BY <1>1, <3>1, AgeFacts DEF Grown, Past
    <3> QED BY <2>6, <3>1, <3>2, <3>3, <3>4, WritesKeeps
  <2> QED BY <1>3, <2>1, <2>8, <2>9
<1> QED BY <1>7, <1>8

LEMMA ExpireKeeps ==
    ASSUME LimiterInductive, NEW o \in Caller, Expire(o)
    PROVE  LimiterInductive'
<1> DEFINE k == call[o].key
           b == counter[k]
           c == [n |-> b.n, ttl |-> Window]
           past == admitted[k]
           q == CallAt("reply", k, "200", 0)
<1>1. /\ k \in Subject /\ past \in Past /\ Bounded(b, past)
      /\ b \in CounterRecord /\ b.ttl = Unset
      /\ \A p \in Caller : call[p].pc = "expire" /\ call[p].key = k => p = o
  BY DEF Expire, LimiterInductive, FirstCall, LimiterTypeOK, CounterRecord, Past
<1>2. c \in CounterRecord /\ c.ttl # Unset /\ c # Unset /\ Passed(c.n) = Passed(b.n)
  BY <1>1, AgeFacts, CounterFacts DEF CounterRecord
<1>3. q \in CallState /\ q.pc = "reply" /\ q.key = k
  BY <1>1, AgeFacts DEF CallAt, CallState, Stage
<1>4. /\ call' = [call EXCEPT ![o] = q]
      /\ counter' = [counter EXCEPT ![k] = c] /\ UNCHANGED orphaned
      /\ admitted' = [admitted EXCEPT ![k] = Grown(past)]
      /\ admitted'[k] = Grown(past)
  BY <1>1, CounterFacts DEF Expire, Admit, Grown, LimiterInductive, LimiterTypeOK
<1>5. c.ttl = Window
  OBVIOUS
<1> HIDE DEF q, c
<1>6. Writes(o, c) /\ call'[o].pc = "reply"
  BY <1>1, <1>2, <1>3, <1>4, CallMoves DEF Writes
<1>7. /\ Sum(past, Window) \in Nat /\ Sum(Grown(past), Window) \in Nat
      /\ Sum(Grown(past), Window) <= Sum(past, Window) + 1
      /\ Sum(Grown(past), 0) = 0
  BY <1>1, AgeFacts, SumIsFinite, SumGrown
<1>8. Passed(b.n) \in Nat /\ Passed(b.n) >= 1 /\ Passed(b.n) <= MaxRequests /\ b # Unset
  BY <1>1, CounterFacts
<1>9. Sum(past, Window) + 1 < MaxRequests + Passed(b.n)
  BY <1>1, <1>8 DEF Bounded
<1> HIDE DEF b
<1>10. Window - c.ttl = 0
  BY <1>5, AgeFacts
<1>11. Bounded(c, Grown(past))
  BY <1>2, <1>7, <1>8, <1>9, <1>10, AgeFacts DEF Bounded
<1>12. Sum(past, Window) < 2 * MaxRequests
  BY <1>7, <1>8, <1>9, AgeFacts
<1>13. FirstCall(o)'
  BY <1>6 DEF FirstCall
<1> QED BY <1>1, <1>4, <1>6, <1>11, <1>12, <1>13, WritesKeeps

LEMMA TickKeeps ==
    ASSUME LimiterInductive, Tick
    PROVE  LimiterInductive'
<1> USE DEF CounterRecord
<1>1. /\ counter \in [Subject -> CounterRecord \cup {Unset}]
      /\ admitted \in [Subject -> Past]
      /\ UNCHANGED <<call, orphaned>>
  BY DEF Tick, LimiterInductive, LimiterTypeOK, Past
<1>2. ASSUME NEW k \in Subject
      PROVE  /\ counter'[k] = Aged(counter[k]) /\ admitted'[k] = Older(admitted[k])
             /\ Aged(counter[k]) \in CounterRecord \cup {Unset}
             /\ Older(admitted[k]) \in Past
  <2>1. counter'[k] = Aged(counter[k]) /\ admitted'[k] = Older(admitted[k])
    BY DEF Tick
  <2>2. Aged(counter[k]) \in CounterRecord \cup {Unset}
    BY <1>1, AgeFacts DEF Aged, Cap
  <2>3. \A a \in Age : a # 0 => a - 1 \in Age
    BY AgeFacts
  <2>4. Older(admitted[k]) \in Past
    BY <1>1, <2>3, AgeFacts DEF Older, Past
  <2> QED BY <2>1, <2>2, <2>4
<1>3. /\ counter' \in [Subject -> CounterRecord \cup {Unset}]
      /\ admitted' \in [Subject -> Past]
  BY <1>2 DEF Tick
<1>4. LimiterTypeOK'
  BY <1>1, <1>3 DEF LimiterInductive, LimiterTypeOK, Past
<1>5. \A o \in Caller : call'[o].pc # "idle" => call'[o].key \in Subject
  BY <1>1 DEF LimiterInductive
<1>6. ASSUME NEW o \in Caller
      PROVE  FirstCall(o)'
  <2>1. ASSUME call[o].pc = "expire"
        PROVE  counter'[call[o].key] = counter[call[o].key]
    <3>1. call[o].key \in Subject
      BY <2>1 DEF LimiterInductive
    <3>2. counter[call[o].key] # Unset /\ counter[call[o].key].ttl = Unset
      BY <2>1 DEF LimiterInductive, FirstCall
    <3> QED BY <1>2, <3>1, <3>2 DEF Aged
  <2> QED BY <1>1, <2>1 DEF LimiterInductive, FirstCall
<1>7. ASSUME NEW k \in Subject
      PROVE  Bounded(counter[k], admitted[k])'
  <2> DEFINE b == counter[k]
             past == admitted[k]
  <2>1. b \in CounterRecord \cup {Unset} /\ past \in Past /\ Bounded(b, past)
    BY <1>1 DEF LimiterInductive
  <2>2. Sum(past, Window) \in Nat /\ Sum(Older(past), Window) \in Nat
    BY <1>2, <2>1, SumIsFinite
  <2>3. \A d \in 0 .. Window - 1 :
          /\ Sum(Older(past), d + 1) <= Sum(past, d)
          /\ Sum(past, d) \in Nat /\ Sum(Older(past), d + 1) \in Nat
    BY <1>2, <2>1, SumOlder, SumIsFinite
  <2>4. Sum(Older(past), Window) <= Sum(past, Window - 1)
    BY <2>3, AgeFacts
  <2>5. Sum(past, Window - 1) <= Sum(past, Window) /\ Sum(past, Window - 1) \in Nat
    BY <2>1, <2>3, AgeFacts, SumParts
  <2> HIDE DEF b, past
  <2>6. Bounded(Aged(b), Older(past))
    <3>1. CASE b = Unset
      BY <2>1, <2>2, <2>4, <2>5, <3>1, AgeFacts DEF Bounded, Aged
    <3>2. CASE b # Unset /\ b.ttl = Unset
      BY <2>1, <2>2, <2>4, <2>5, <3>2, AgeFacts, CounterFacts DEF Bounded, Aged
    <3>3. CASE b # Unset /\ b.ttl # Unset /\ b.ttl = 1
      <4>1. Sum(past, Window - 1) < Passed(b.n) /\ Passed(b.n) \in Nat /\ Passed(b.n) <= MaxRequests
        BY <2>1, <3>3, CounterFacts DEF Bounded
      <4>2. Aged(b) = Unset
        BY <3>3 DEF Aged
      <4> QED BY <2>2, <2>4, <2>5, <4>1, <4>2, AgeFacts DEF Bounded
    <3>4. CASE b # Unset /\ b.ttl # Unset /\ b.ttl # 1
      <4> DEFINE c == Aged(b)
      <4>1. b.ttl \in Nat /\ b.ttl > 1 /\ b.ttl <= Window /\ Passed(b.n) \in Nat
        BY <2>1, <3>4, CounterFacts
      <4>2. c = [n |-> b.n, ttl |-> b.ttl - 1]
        BY <3>4 DEF Aged
      <4>3. c # Unset /\ c.ttl # Unset /\ c.n = b.n /\ c.ttl = b.ttl - 1
        <5>1. b.ttl - 1 \in 1 .. Window /\ b.n \in 1 .. Cap
          BY <2>1, <3>4, <4>1, AgeFacts
        <5>2. [n |-> b.n, ttl |-> b.ttl - 1] \in CounterRecord
          BY <5>1
        <5> HIDE DEF c
        <5>3. c # Unset /\ c.ttl # Unset
          BY <4>2, <5>1, <5>2, CounterFacts
        <5> QED BY <4>2, <5>3
      <4>4. Window - c.ttl = (Window - b.ttl) + 1 /\ Window - b.ttl \in 0 .. Window - 1
        BY <4>1, <4>3, AgeFacts
      <4> HIDE DEF c
      <4>5. Sum(Older(past), Window - c.ttl) <= Sum(past, Window - b.ttl)
            /\ Sum(Older(past), Window - c.ttl) \in Nat /\ Sum(past, Window - b.ttl) \in Nat
        BY <2>3, <4>4
      <4>6. Sum(past, Window - b.ttl) < Passed(b.n) /\ Sum(past, Window) < MaxRequests + Passed(b.n)
        BY <2>1, <3>4 DEF Bounded
      <4>7. Bounded(c, Older(past))
        BY <2>2, <2>4, <2>5, <4>1, <4>3, <4>5, <4>6, AgeFacts DEF Bounded
      <4> QED BY <4>7 DEF c
    <3> QED BY <3>1, <3>2, <3>3, <3>4
  <2>7. Bounded(counter'[k], admitted'[k])
    BY <1>2, <2>6 DEF b, past
  <2> QED BY <2>7 DEF Bounded
<1> QED BY <1>4, <1>5, <1>6, <1>7 DEF LimiterInductive

LEMMA LimiterStarts == LimiterInit => LimiterInductive
<1> SUFFICES ASSUME LimiterInit PROVE LimiterInductive
  OBVIOUS
<1>1. LimiterTypeOK /\ \A o \in Caller : call[o].pc = "idle"
  BY AgeFacts DEF LimiterInit, LimiterTypeOK, NoCall, CallAt, CallState, Stage
<1>2. ASSUME NEW k \in Subject
      PROVE  Bounded(counter[k], admitted[k])
  <2>1. counter[k] = Unset /\ \A a \in Age : admitted[k][a] = 0
    BY DEF LimiterInit
  <2>2. Recent(admitted[k], Window) = {}
    BY <2>1, RecentIs
  <2>3. Sum(admitted[k], Window) = 0
    BY <2>2, FS_EmptySet DEF Sum
  <2> QED BY <2>1, <2>3, AgeFacts DEF Bounded
<1> QED BY <1>1, <1>2 DEF LimiterInductive, FirstCall

LEMMA LimiterAlwaysInductive == LimiterSpec => []LimiterInductive
<1>1. LimiterInductive /\ [LimiterNext]_limiterVars => LimiterInductive'
  <2> SUFFICES ASSUME LimiterInductive, [LimiterNext]_limiterVars PROVE LimiterInductive'
    OBVIOUS
  <2>1. CASE UNCHANGED limiterVars
    BY <2>1 DEF limiterVars, LimiterInductive, LimiterTypeOK, FirstCall, Bounded
  <2>2. ASSUME NEW o \in Caller, Arrive(o) \/ Handle(o) \/ Crash(o)
        PROVE  LimiterInductive'
    BY <2>2, PassingSteps, PassesKeeps, IncrKeeps, ExpireKeeps DEF Handle
  <2>3. CASE Tick
    BY <2>3, TickKeeps
  <2> QED BY <2>1, <2>2, <2>3 DEF LimiterNext
<1> QED BY <1>1, LimiterStarts, PTL DEF LimiterSpec

\* Counters, calls and what was admitted keep their types; no more is ever
\* admitted in one tick than in two windows.
THEOREM LimiterTypeCorrect == LimiterSpec => []LimiterTypeOK
<1>1. LimiterInductive => LimiterTypeOK
  BY DEF LimiterInductive
<1> QED BY <1>1, LimiterAlwaysInductive, PTL

\* For every limit and window: within a window of ticks fewer than twice the limit
\* get through, with any number of requests in flight, whatever the delay between
\* INCR and EXPIRE and whichever requests die in between (increment_rate_limit).
THEOREM FewerThanTwice == LimiterSpec => []LessThanTwice
<1>1. LimiterInductive => LessThanTwice
  <2> SUFFICES ASSUME LimiterInductive, NEW k \in Subject
               PROVE  Total(admitted[k]) < 2 * MaxRequests
    BY DEF LessThanTwice
  <2>1. /\ counter[k] \in CounterRecord \cup {Unset} /\ Bounded(counter[k], admitted[k])
        /\ admitted[k] \in Past
    BY DEF LimiterInductive, LimiterTypeOK, CounterRecord, Past
  <2>2. Sum(admitted[k], Window) \in Nat
    BY <2>1, SumIsFinite
  <2>3. Sum(admitted[k], Window) < 2 * MaxRequests
    <3>1. CASE counter[k] = Unset
      BY <2>1, <2>2, <3>1, AgeFacts DEF Bounded
    <3>2. CASE counter[k] # Unset
      <4>1. Passed(counter[k].n) \in Nat /\ Passed(counter[k].n) <= MaxRequests
        BY <2>1, <3>2, CounterFacts
      <4>2. Sum(admitted[k], Window) < MaxRequests + Passed(counter[k].n)
        BY <2>1, <2>2, <3>2, <4>1, AgeFacts DEF Bounded
      <4> QED BY <2>2, <4>1, <4>2, AgeFacts
    <3> QED BY <3>1, <3>2
  <2> QED BY <2>3 DEF Sum, Total
<1> QED BY <1>1, LimiterAlwaysInductive, PTL
=============================================================================

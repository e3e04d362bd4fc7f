---------------------------- MODULE EntitySession ----------------------------
(***************************************************************************)
(* Sessions of devices, applications and users with a key of their own:    *)
(* app/shared/session/service.py (SessionService) over the two Valkey keys  *)
(* of app/shared/session/repository.py: the record of an entity,            *)
(* entity_session:{entity_id}, and the index session_id_index:{session_id}. *)
(*                                                                         *)
(* One action is one Valkey command (the MULTI of a deletion is one) with   *)
(* the straight-line code up to the next await.  A record is abstracted to  *)
(* the session it describes and to the session whose creation set the TTL   *)
(* of the key: SET ... KEEPTTL writes the one without the other.            *)
(***************************************************************************)
EXTENDS Naturals, FiniteSets

CONSTANTS
    Entity,
    SessionId,   \* the token_urlsafe values; each is generated once
    Slot,        \* slots for operations in flight
    EntityOf,    \* EntityOf[o]: the entity slot o works for
    KindsOf,     \* KindsOf[o]: the operations called in slot o
    None

Kind == {"check", "create", "process", "invalidate"}

ASSUME ConstantsAssumption ==
    /\ EntityOf \in [Slot -> Entity]
    /\ KindsOf \in [Slot -> SUBSET Kind]
    /\ None \notin SessionId
    /\ None \notin Entity
    /\ None \notin [sid : SessionId, ttl : SessionId \cup {None}]

VARIABLES
    rec,     \* rec[e]: the record of e; ttl is None when the key has no TTL
    idx,     \* idx[s]: the entity the index of s names
    op,      \* the operation of each slot
    known,   \* the session ids that were returned to a caller
    owner,   \* history: the entity each session id was generated for
    gone,    \* history: the sessions that expired or were deleted
    deleted, \* history: those whose record a deletion removed
    overtaken, \* history: those of them that a request in flight still had in hand
    touchers, \* history: the entities that have processed a request
    crowded  \* history: the entities that have had two operations at once

history == <<owner, gone, deleted, overtaken>>

load == <<touchers, crowded>>

vars == <<rec, idx, op, known, history, load>>

Pc == {"idle", "exists", "setnx", "index", "getidx", "getrec", "touch", "read",
       "delete", "reply"}

\* sid is the session the operation is about; read is the session of the
\* record it has in hand; "reply" is the answer to a creation on its way.
Operation == [pc : Pc, kind : Kind, sid : SessionId \cup {None},
              read : SessionId \cup {None}]

State(pc, kind, sid, read) == [pc |-> pc, kind |-> kind, sid |-> sid, read |-> read]

Idle == State("idle", "check", None, None)

TypeOK ==
    /\ rec \in [Entity -> [sid : SessionId, ttl : SessionId \cup {None}] \cup {None}]
    /\ idx \in [SessionId -> Entity \cup {None}]
    /\ op \in [Slot -> Operation]
    /\ known \subseteq SessionId
    /\ owner \in [SessionId -> Entity \cup {None}]
    /\ gone \subseteq SessionId
    /\ deleted \subseteq gone
    /\ overtaken \subseteq deleted
    /\ touchers \subseteq Entity
    /\ crowded \subseteq Entity

Init ==
    /\ rec = [e \in Entity |-> None]
    /\ idx = [s \in SessionId |-> None]
    /\ op = [o \in Slot |-> Idle]
    /\ known = {}
    /\ owner = [s \in SessionId |-> None]
    /\ gone = {}
    /\ deleted = {}
    /\ overtaken = {}
    /\ touchers = {}
    /\ crowded = {}

Fresh == {s \in SessionId : owner[s] = None}

Goto(o, pc, sid, read) == op' = [op EXCEPT ![o] = State(pc, op[o].kind, sid, read)]

\* Every answer but that of a creation: nothing depends on it.
Answer(o) == op' = [op EXCEPT ![o] = Idle]

StoredSid(e) == IF rec[e] = None THEN {} ELSE {rec[e].sid}

\* The sessions that end when the record of e goes away.
Ended(e) ==
    IF rec[e] = None THEN {} ELSE {rec[e].sid, rec[e].ttl} \ {None}

-----------------------------------------------------------------------------
(* Calls *)

\* check_active_session and create_entity_session both start with EXISTS;
\* creation validates its arguments first, and is left out when it refuses them.
Check(o) ==
    /\ "check" \in KindsOf[o]
    /\ op' = [op EXCEPT ![o] = State("exists", "check", None, None)]

Create(o) ==
    /\ "create" \in KindsOf[o]
    /\ op' = [op EXCEPT ![o] = State("exists", "create", None, None)]

\* process_encrypted_request with an id its entity was given.
Process(o) ==
    /\ "process" \in KindsOf[o]
    /\ \E s \in known :
         /\ owner[s] = EntityOf[o]
         /\ op' = [op EXCEPT ![o] = State("getidx", "process", s, None)]

Invalidate(o) ==
    /\ "invalidate" \in KindsOf[o]
    /\ op' = [op EXCEPT ![o] = State("read", "invalidate", None, None)]

Call(o) ==
    /\ op[o].pc = "idle"
    /\ Check(o) \/ Create(o) \/ Process(o) \/ Invalidate(o)
    /\ touchers' = IF op'[o].kind = "process" THEN touchers \cup {EntityOf[o]} ELSE touchers
    /\ crowded' = IF \E q \in Slot \ {o} : EntityOf[q] = EntityOf[o] /\ op[q].pc # "idle"
                  THEN crowded \cup {EntityOf[o]} ELSE crowded
    /\ UNCHANGED <<rec, idx, known, history>>

\* The caller of a creation gets the answer, which tells it the session id.
Return(o) ==
    /\ op[o].pc = "reply"
    /\ known' = known \cup {op[o].sid}
    /\ op' = [op EXCEPT ![o] = Idle]
    /\ UNCHANGED <<rec, idx, history, load>>

-----------------------------------------------------------------------------
(* entity_session_exists and store_entity_session *)

Exists(o) ==
    LET e == EntityOf[o]
    IN  /\ op[o].pc = "exists"
        /\ \/ /\ op[o].kind = "check"
              /\ Answer(o)
              /\ UNCHANGED owner
           \/ /\ op[o].kind = "create"
              /\ rec[e] # None
              /\ Answer(o)
              /\ UNCHANGED owner
           \/ /\ op[o].kind = "create"
              /\ rec[e] = None
              /\ \E s \in Fresh :
                   /\ Goto(o, "setnx", s, None)
                   /\ owner' = [owner EXCEPT ![s] = e]
        /\ UNCHANGED <<rec, idx, known, gone, deleted, overtaken, load>>

\* A plain SET after the existence check.
SetRecord_NoNX(o) ==
    LET e == EntityOf[o]
    IN  /\ op[o].pc = "setnx"
        /\ rec' = [rec EXCEPT ![e] = [sid |-> op[o].sid, ttl |-> op[o].sid]]
        /\ Goto(o, "index", op[o].sid, None)
        /\ UNCHANGED <<idx, known, history, load>>

\* SET ... EX ttl NX.
SetRecord(o) ==
    LET e == EntityOf[o]
    IN  /\ op[o].pc = "setnx"
        /\ \/ /\ rec[e] # None
              /\ Answer(o)
              /\ UNCHANGED rec
           \/ /\ rec[e] = None
              /\ rec' = [rec EXCEPT ![e] = [sid |-> op[o].sid, ttl |-> op[o].sid]]
              /\ Goto(o, "index", op[o].sid, None)
        /\ UNCHANGED <<idx, known, history, load>>

\* The index written with the session id for a value.
SetIndex_WrongValue(o) ==
    /\ op[o].pc = "index"
    /\ idx' = [idx EXCEPT ![op[o].sid] = op[o].sid]
    /\ Goto(o, "reply", op[o].sid, None)
    /\ UNCHANGED <<rec, known, history, load>>

\* SETEX of the index, whether or not the record is still there.
SetIndex(o) ==
    /\ op[o].pc = "index"
    /\ idx' = [idx EXCEPT ![op[o].sid] = EntityOf[o]]
    /\ Goto(o, "reply", op[o].sid, None)
    /\ UNCHANGED <<rec, known, history, load>>

-----------------------------------------------------------------------------
(* process_encrypted_request *)

GetIndex(o) ==
    /\ op[o].pc = "getidx"
    /\ \/ idx[op[o].sid] = None /\ Answer(o)
       \/ idx[op[o].sid] # None /\ Goto(o, "getrec", op[o].sid, None)
    /\ UNCHANGED <<rec, idx, known, history, load>>

\* The record the index led to.  verify_hmac uses the key in the record, and the
\* caller that of the session it names: they are the same for a session of its own,
\* and may be for a later one, since the client chooses key_session.
GetRecord(o) ==
    LET r == rec[EntityOf[o]]
    IN  /\ op[o].pc = "getrec"
        /\ \/ r = None /\ Answer(o)
           \/ r # None /\ Answer(o)
           \/ r # None /\ Goto(o, "touch", op[o].sid, r.sid)
        /\ UNCHANGED <<rec, idx, known, history, load>>

\* A touch that forgets keepttl: SET discards the TTL of the key.
Touch_NoKeepTtl(o) ==
    LET e == EntityOf[o]
    IN  /\ op[o].pc = "touch"
        /\ rec' = [rec EXCEPT ![e] = [sid |-> op[o].read, ttl |-> None]]
        /\ Answer(o)
        /\ UNCHANGED <<idx, known, history, load>>

\* touch_entity_session: SET ... KEEPTTL writes the record read before,
\* whatever is under the key by now; a missing key is created without a TTL.
Touch(o) ==
    LET e == EntityOf[o]
    IN  /\ op[o].pc = "touch"
        /\ rec' = [rec EXCEPT ![e] = [sid |-> op[o].read,
                                      ttl |-> IF rec[e] = None THEN None ELSE rec[e].ttl]]
        /\ Answer(o)
        /\ UNCHANGED <<idx, known, history, load>>

-----------------------------------------------------------------------------
(* delete_entity_session *)

ReadRecord(o) ==
    /\ op[o].pc = "read"
    /\ Goto(o, "delete", None,
            IF rec[EntityOf[o]] = None THEN None ELSE rec[EntityOf[o]].sid)
    /\ UNCHANGED <<rec, idx, known, history, load>>

\* The sessions of e that end by a deletion, and which of them a request that has
\* verified its tag is about to touch.
Removes(e) ==
    /\ gone' = gone \cup Ended(e)
    /\ deleted' = deleted \cup StoredSid(e)
    /\ overtaken' = overtaken \cup
           {s \in StoredSid(e) : \E p \in Slot : op[p].pc = "touch" /\ op[p].read = s}

\* A deletion that forgets the record.
Delete_IndexOnly(o) ==
    LET e == EntityOf[o]
    IN  /\ op[o].pc = "delete"
        /\ idx' = [s \in SessionId |-> IF s = op[o].read THEN None ELSE idx[s]]
        /\ Removes(e)
        /\ Answer(o)
        /\ UNCHANGED <<rec, known, owner, load>>

\* The MULTI deletes the record that is there now and the index of the session
\* that was read.
Delete(o) ==
    LET e == EntityOf[o]
    IN  /\ op[o].pc = "delete"
        /\ rec' = [rec EXCEPT ![e] = None]
        /\ idx' = [s \in SessionId |-> IF s = op[o].read THEN None ELSE idx[s]]
        /\ Removes(e)
        /\ Answer(o)
        /\ UNCHANGED <<known, owner, load>>

-----------------------------------------------------------------------------
\* The worker dies, a command raises or the answer is lost.
Abort(o) ==
    /\ op[o].pc # "idle"
    /\ op' = [op EXCEPT ![o] = Idle]
    /\ UNCHANGED <<rec, idx, known, history, load>>

ExpireRecord(e) ==
    /\ rec[e] # None
    /\ rec[e].ttl # None
    /\ rec' = [rec EXCEPT ![e] = None]
    /\ gone' = gone \cup Ended(e)
    /\ UNCHANGED <<idx, op, known, owner, deleted, overtaken, load>>

\* The index of s was written after the record of s with the same TTL, so a key
\* that still has the TTL of s goes first.
ExpireIndex(s) ==
    /\ idx[s] # None
    /\ \A e \in Entity : rec[e] # None => rec[e].ttl # s
    /\ idx' = [idx EXCEPT ![s] = None]
    /\ UNCHANGED <<rec, op, known, history, load>>

Next ==
    \/ \E o \in Slot :
         \/ Call(o) \/ Return(o) \/ Exists(o) \/ SetRecord(o) \/ SetIndex(o)
         \/ GetIndex(o) \/ GetRecord(o) \/ Touch(o) \/ ReadRecord(o) \/ Delete(o)
         \/ Abort(o)
    \/ \E e \in Entity : ExpireRecord(e)
    \/ \E s \in SessionId : ExpireIndex(s)

Spec == Init /\ [][Next]_vars

-----------------------------------------------------------------------------
(* Properties *)

\* The touches of a session that has not ended leave its deadline alone,
\* however many requests are in flight (touch_entity_session, "Update session
\* last_activity without modifying TTL").
DeadlineKept ==
    \A e \in Entity :
        rec[e] # None /\ rec[e].sid \notin gone => rec[e].ttl = rec[e].sid

\* The calls for e cannot have touched a record that was not theirs: no request
\* was processed, or the calls came one at a time.
Calm(e) == e \notin touchers \cap crowded

\* A session whose creation was answered and that has not ended is the record
\* of its entity and is found by its id, whatever creations and invalidations
\* race (store_entity_session writes two keys one after the other,
\* delete_entity_session reads before it deletes).
Reachable ==
    \A s \in known \ gone :
        Calm(owner[s]) => /\ rec[owner[s]] # None
                          /\ rec[owner[s]].sid = s
                          /\ idx[s] = owner[s]

\* A session that was invalidated comes back only by a request that had verified
\* its tag with the record before the deletion and writes it after: no creation, no
\* later request, no second deletion and no expiry brings back the record that a
\* deletion removed (invalidate_entity_session, touch_entity_session).
NotRevived ==
    \A e \in Entity : StoredSid(e) \cap deleted \subseteq overtaken
=============================================================================

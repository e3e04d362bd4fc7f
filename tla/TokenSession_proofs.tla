------------------------ MODULE TokenSession_proofs ------------------------
(***************************************************************************)
(* Theorems about TokenSession for every set of entities, tokens and        *)
(* requests in flight, every horizon, and every TTL that is longer than the *)
(* window of a puzzle on both sides.                                        *)
(***************************************************************************)
EXTENDS TokenSession, TLAPS

SessionKey == [token : Token \cup {None}, until : 0 .. Horizon + Ttl]
RefreshKey == [owner : Entity \cup {None}, until : 0 .. Horizon + Ttl]

Base ==
    /\ now \in Time
    /\ session \in [Entity -> SessionKey]
    /\ refresh \in [Token -> RefreshKey]
    /\ op \in [Slot -> Operation]
    /\ used \subseteq Token
    /\ opened \in [Entity -> SUBSET Time]
    /\ reopened \subseteq Entity
    /\ overlapped \subseteq disturbed
    /\ disturbed \subseteq Entity
    /\ \A o \in Slot : op[o].pc # "idle" => op[o].entity \in Entity
    /\ \A e \in Entity : session[e].until <= now + Ttl

\* The requests of an entity that has not had two at once come one at a time.
OneEach ==
    \A o, p \in Slot :
        /\ op[o].pc # "idle" /\ op[p].pc # "idle"
        /\ op[o].entity = op[p].entity /\ op[o].entity \notin overlapped
        => o = p

Opening == {"read", "delete", "delete_refresh", "store"}

\* A request that opens a session, and is alone, found none.
Knows(o) == op[o].pc \in Opening => ~Live(session[op[o].entity])

KnowsAlone == \A o \in Slot : op[o].pc # "idle" /\ op[o].entity \notin overlapped => Knows(o)

\* A puzzle that opened a session is too old, or the session outlives it; the
\* one a request goes by is later than all of them and fits the window.
Spent(e) == \A a \in opened[e] : a + Window < now \/ a + Window < session[e].until

Later(o) ==
    /\ op[o].at <= now + Window
    /\ \A a \in opened[op[o].entity] : a < op[o].at /\ a + Window < now

Puzzles ==
    /\ \A e \in Entity \ overlapped : Spent(e)
    /\ \A o \in Slot : op[o].pc \in Opening /\ op[o].entity \notin overlapped => Later(o)
    /\ PuzzleOnce

\* A token belongs to one entity, in whatever place it is found.
Claims(t, e) ==
    \/ session[e].token = t
    \/ refresh[t].owner = e
    \/ \E o \in Slot : op[o].pc # "idle" /\ op[o].token = t /\ op[o].entity = e

Belongs ==
    \A t \in Token, e \in Entity : Claims(t, e) =>
        /\ t \in used
        /\ \A f \in Entity : Claims(t, f) => e = f

\* The two keys of e exist together and end together.
Paired(e) ==
    \A t \in Token :
        \/ Live(refresh[t]) /\ refresh[t].owner = e
        \/ Live(session[e]) /\ session[e].token = t
        => /\ refresh[t].owner = e
           /\ session[e].token = t
           /\ refresh[t].until = session[e].until

\* An undisturbed request has the keys of its entity as it expects them, and they
\* are paired but between the two SETEX of a new session.
Expects(o) ==
    LET q == op[o]
        key == session[q.entity]
    IN  /\ q.pc = "delete" => q.token = None
        /\ q.pc # "delete_refresh"
        /\ q.pc = "store_refresh" =>
             /\ key.token = q.token /\ key.until = now + Ttl
             /\ \A t \in Token : refresh[t].owner = q.entity => ~Live(refresh[t])
        /\ q.pc # "store_refresh" => Paired(q.entity)

Undisturbed ==
    /\ \A e \in Entity \ disturbed : InFlight(e) = {} => Paired(e)
    /\ \A o \in Slot : op[o].pc # "idle" /\ op[o].entity \notin disturbed => Expects(o)

Inductive == Base /\ OneEach /\ KnowsAlone /\ Puzzles /\ Belongs /\ Undisturbed

-----------------------------------------------------------------------------
(* What each action does, said once for all invariants *)

\* A step of slot o leaves the other operations alone.
Stepped(o) ==
    /\ op' \in [Slot -> Operation]
    /\ \A p \in Slot \ {o} : op'[p] = op[p]

\* The operation of o goes on for the same entity and puzzle.
Goes(o, pc, token) ==
    /\ Stepped(o)
    /\ op[o].pc # "idle"
    /\ op'[o].pc = pc /\ op'[o].entity = op[o].entity /\ op'[o].at = op[o].at
    /\ op'[o].token = token

Leaves(o) == Stepped(o) /\ op[o].pc # "idle" /\ op'[o] = Idle

\* Only the session of the entity of o changes, and only the key of its token.
SessionBecomes(o, token, until) ==
    /\ session' \in [Entity -> SessionKey]
    /\ session'[op[o].entity].token = token /\ session'[op[o].entity].until = until
    /\ \A f \in Entity \ {op[o].entity} : session'[f] = session[f]

RefreshBecomes(o, owner, until) ==
    /\ refresh' \in [Token -> RefreshKey]
    /\ \A t \in Token :
         IF t = op[o].token THEN refresh'[t].owner = owner /\ refresh'[t].until = until
         ELSE refresh'[t] = refresh[t]

\* Authenticate and Manage.
Enters(o) ==
    LET e == op'[o].entity
    IN  /\ Stepped(o)
        /\ op[o].pc = "idle"
        /\ op'[o].pc \in {"check", "manager"}
        /\ e \in Entity
        /\ op'[o].token = None
        /\ \/ InFlight(e) = {} /\ UNCHANGED <<overlapped, disturbed>>
           \/ overlapped' = overlapped \cup {e} /\ disturbed' = disturbed \cup {e}
        /\ UNCHANGED <<now, keys, used, opened, reopened>>

\* Check and Verify that end the request, and Abort; Check that goes on, and ReadOld.
Enquires(o) ==
    LET q == op[o]
        key == session[q.entity]
    IN  /\ UNCHANGED <<now, keys, used, opened, reopened, overlapped>>
        /\ \/ /\ Leaves(o)
              /\ \/ q.pc \in {"check", "manager"} /\ UNCHANGED disturbed
                 \/ disturbed' = disturbed \cup {q.entity}
           \/ /\ q.pc = "check" /\ Goes(o, "read", q.token)
              /\ ~Live(key) /\ Timely(q.at) /\ UNCHANGED disturbed
           \/ /\ q.pc = "read"
              /\ Goes(o, "delete", IF Live(key) THEN key.token ELSE None)
              /\ UNCHANGED disturbed

Stores(o) ==
    LET q == op[o]
    IN  /\ q.pc = "store"
        /\ \E t \in Token \ used :
             /\ used' = used \cup {t}
             /\ SessionBecomes(o, t, now + Ttl)
             /\ Goes(o, "store_refresh", t)
        /\ opened' \in [Entity -> SUBSET Time]
        /\ \A f \in Entity \ {q.entity} : opened'[f] = opened[f]
        /\ q.entity \notin overlapped => opened'[q.entity] = opened[q.entity] \cup {q.at}
        /\ \/ UNCHANGED reopened
           \/ q.at \in opened[q.entity] /\ reopened' = reopened \cup {q.entity}
        /\ UNCHANGED <<now, refresh, overlapped, disturbed>>

WritesSession(o) ==
    LET q == op[o]
    IN  \/ /\ q.pc = "delete" /\ SessionBecomes(o, None, 0)
           /\ Goes(o, IF q.token = None THEN "store" ELSE "delete_refresh", q.token)
           /\ UNCHANGED <<now, refresh, history>>
        \/ Stores(o)

WritesRefresh(o) ==
    LET q == op[o]
    IN  /\ \/ /\ q.pc = "delete_refresh" /\ RefreshBecomes(o, None, 0)
              /\ Goes(o, "store", q.token)
           \/ q.pc = "store_refresh" /\ RefreshBecomes(o, q.entity, now + Ttl) /\ Leaves(o)
        /\ UNCHANGED <<now, session, history>>

Outcome(o) == Enters(o) \/ Enquires(o) \/ WritesSession(o) \/ WritesRefresh(o)

LEMMA BaseType == Base => TypeOK
BY DEF Base, TypeOK, SessionKey, RefreshKey

LEMMA OperationFacts ==
    ASSUME Base, NEW o \in Slot
    PROVE  /\ op[o] \in Operation
           /\ op[o].pc # "idle" => op[o].entity \in Entity
           /\ now \in Nat /\ Ttl \in Nat /\ Window \in Nat /\ Horizon \in Nat /\ now <= Horizon
BY ConstantsAssumption DEF Base, Time

LEMMA Replaced ==
    ASSUME Base, NEW o \in Slot, NEW q \in Operation, op' = [op EXCEPT ![o] = q]
    PROVE  Stepped(o) /\ op'[o] = q
BY DEF Base, Stepped

LEMMA IdleTyped == Idle \in Operation
BY ConstantsAssumption DEF Idle, Operation, Pc, Time

LEMMA Ended ==
    ASSUME Base, NEW o \in Slot, op[o].pc # "idle", Done(o)
    PROVE  Leaves(o)
BY IdleTyped, Replaced DEF Done, Leaves

\* An update of some fields of an operation.
LEMMA Continued ==
    ASSUME Base, NEW o \in Slot, op[o].pc # "idle",
           NEW pc \in Pc, NEW token \in Token \cup {None},
           op' = [op EXCEPT ![o] = [op[o] EXCEPT !.pc = pc, !.token = token]]
    PROVE  Goes(o, pc, token)
<1> DEFINE q == [op[o] EXCEPT !.pc = pc, !.token = token]
<1>1. op[o] \in Operation
  BY OperationFacts
<1>2. /\ q \in Operation
      /\ q.pc = pc /\ q.entity = op[o].entity /\ q.at = op[o].at
      /\ q.token = token
  BY <1>1 DEF Operation
<1>3. Stepped(o) /\ op'[o] = q
  BY <1>2, Replaced
<1>4. QED
  BY <1>2, <1>3 DEF Goes

LEMMA Went ==
    ASSUME Base, NEW o \in Slot, op[o].pc # "idle", NEW pc \in Pc, Go(o, pc)
    PROVE  Goes(o, pc, op[o].token)
<1>1. op[o] \in Operation /\ op \in [Slot -> Operation]
  BY OperationFacts DEF Base
<1>2. op' = [op EXCEPT ![o] = [op[o] EXCEPT !.pc = pc]]
  BY <1>1 DEF Go
<1>3. [op[o] EXCEPT !.pc = pc] \in Operation
  BY <1>1 DEF Operation
<1>4. Stepped(o) /\ op'[o] = [op[o] EXCEPT !.pc = pc]
  BY <1>2, <1>3, Replaced
<1>5. QED
  BY <1>1, <1>4 DEF Goes, Operation

LEMMA SessionWritten ==
    ASSUME Base, NEW e \in Entity, NEW o \in Slot, e = op[o].entity,
           NEW token \in Token \cup {None}, NEW until \in 0 .. Horizon + Ttl,
           session' = [session EXCEPT ![e] = [token |-> token, until |-> until]]
    PROVE  SessionBecomes(o, token, until)
<1>1. [token |-> token, until |-> until] \in SessionKey
  BY DEF SessionKey
<1>2. session \in [Entity -> SessionKey]
  BY DEF Base
<1>3. QED
  BY <1>1, <1>2 DEF SessionBecomes

LEMMA RefreshWritten ==
    ASSUME Base, NEW o \in Slot,
           NEW owner \in Entity \cup {None}, NEW until \in 0 .. Horizon + Ttl,
           refresh' = [refresh EXCEPT ![op[o].token] = [owner |-> owner, until |-> until]]
    PROVE  RefreshBecomes(o, owner, until)
<1>1. [owner |-> owner, until |-> until] \in RefreshKey
  BY DEF RefreshKey
<1>2. refresh \in [Token -> RefreshKey]
  BY DEF Base
<1>3. QED
  BY <1>1, <1>2 DEF RefreshBecomes

LEMMA EntersStep ==
    ASSUME Base, NEW o \in Slot, Authenticate(o) \/ Manage(o)
    PROVE  Enters(o)
<1>0. Idle \in Operation /\ session \in [Entity -> SessionKey]
  BY IdleTyped DEF Base
<1>1. ASSUME NEW state \in Operation, NEW e \in Entity, Begin(o, state),
             state.entity = e, state.pc \in {"check", "manager"}, state.token = None,
             UNCHANGED <<now, keys, used, opened, reopened>>
      PROVE  Enters(o)
  <2>1. Stepped(o) /\ op'[o] = state /\ op[o].pc = "idle"
    BY <1>1, Replaced DEF Begin
  <2>2. \/ InFlight(e) = {} /\ overlapped' = overlapped \cup {} /\ disturbed' = disturbed \cup {}
        \/ overlapped' = overlapped \cup {e} /\ disturbed' = disturbed \cup {e}
    BY <1>1 DEF Begin
  <2>3. QED
    BY <1>1, <2>1, <2>2 DEF Enters
<1>2. CASE Authenticate(o)
  <2>1. PICK e \in Entity, at \in Time :
          Begin(o, [Idle EXCEPT !.pc = "check", !.entity = e, !.at = at])
    BY <1>2 DEF Authenticate
  <2> DEFINE state == [Idle EXCEPT !.pc = "check", !.entity = e, !.at = at]
  <2>2. state \in Operation /\ state.entity = e /\ state.pc = "check" /\ state.token = None
    BY <1>0 DEF Idle, Operation, Pc
  <2>3. QED
    BY <1>1, <1>2, <2>1, <2>2 DEF Authenticate
<1>3. CASE Manage(o)
  <2>1. PICK e \in Entity : Begin(o, [Idle EXCEPT !.pc = "manager", !.entity = e])
    BY <1>3 DEF Manage
  <2> DEFINE state == [Idle EXCEPT !.pc = "manager", !.entity = e]
  <2>2. state \in Operation /\ state.entity = e /\ state.pc = "manager" /\ state.token = None
    BY <1>0 DEF Idle, Operation, Pc
  <2>3. QED
    BY <1>1, <1>3, <2>1, <2>2 DEF Manage
<1>4. QED
  BY <1>2, <1>3

LEMMA EnquiresStep ==
    ASSUME Base, NEW o \in Slot,
           Check(o) \/ Verify(o) \/ ReadOld(o) \/ Abort(o)
    PROVE  Enquires(o)
<1> DEFINE q == op[o]
           key == session[q.entity]
<1>0. /\ q \in Operation /\ q.pc # "idle" /\ q.entity \in Entity /\ key \in SessionKey
      /\ now \in Nat /\ Ttl \in Nat /\ key.until <= now + Ttl
  BY OperationFacts DEF Check, Verify, ReadOld, Abort, Base
<1>1. CASE Check(o)
  <2>1. ASSUME Done(o) PROVE Leaves(o)
    BY <1>0, <2>1, Ended
  <2>2. ASSUME Go(o, "read") PROVE Goes(o, "read", q.token)
    BY <1>0, <2>2, Went DEF Pc
  <2>3. QED
    BY <1>1, <2>1, <2>2 DEF Check, Enquires, history
<1>2. CASE Verify(o)
  BY <1>0, <1>2, Ended DEF Verify, Enquires, history
<1>3. CASE Abort(o)
  BY <1>0, <1>3, Ended DEF Abort, Enquires
<1>4. CASE ReadOld(o)
  <2> DEFINE token == IF Live(key) THEN key.token ELSE None
  <2>1. token \in Token \cup {None} /\ "delete" \in Pc
    BY <1>0 DEF SessionKey, Pc
  <2> HIDE DEF token
  <2>2. Goes(o, "delete", token)
    BY <1>0, <1>4, <2>1, Continued DEF ReadOld, token
  <2>3. QED
    BY <1>4, <2>2 DEF ReadOld, Enquires, history, token
<1>5. QED
  BY <1>1, <1>2, <1>3, <1>4

LEMMA StoresStep ==
    ASSUME Base, NEW o \in Slot, StoreSession(o)
    PROVE  Stores(o)
<1> DEFINE q == op[o]
           e == q.entity
<1>0. /\ q \in Operation /\ q.pc = "store" /\ e \in Entity /\ q.at \in Time
      /\ now + Ttl \in 0 .. Horizon + Ttl /\ "store_refresh" \in Pc
  BY OperationFacts DEF StoreSession, Operation, Pc
<1>1. PICK t \in Token \ used :
        /\ used' = used \cup {t}
        /\ session' = [session EXCEPT ![e] = [token |-> t, until |-> now + Ttl]]
        /\ op' = [op EXCEPT ![o] = [q EXCEPT !.pc = "store_refresh", !.token = t]]
  BY DEF StoreSession
<1>2. SessionBecomes(o, t, now + Ttl)
  BY <1>0, <1>1, SessionWritten
<1>4. Goes(o, "store_refresh", t)
  BY <1>0, <1>1, Continued
<1>5. opened \in [Entity -> SUBSET Time]
  BY DEF Base
<1>6. /\ opened' \in [Entity -> SUBSET Time]
      /\ \A f \in Entity \ {e} : opened'[f] = opened[f]
      /\ e \notin overlapped => opened'[e] = opened[e] \cup {q.at}
  <2>1. CASE e \in overlapped
    <3>1. opened' = [opened EXCEPT ![e] = {}]
      BY <2>1 DEF StoreSession
    <3>2. QED
      BY <1>0, <1>5, <2>1, <3>1
  <2>2. CASE e \notin overlapped
    <3>1. opened' = [opened EXCEPT ![e] = opened[e] \cup {q.at}]
      BY <2>2 DEF StoreSession
    <3>2. QED
      BY <1>0, <1>5, <3>1
  <2>3. QED
    BY <2>1, <2>2
<1>7. \/ UNCHANGED reopened
      \/ q.at \in opened[e] /\ reopened' = reopened \cup {e}
  BY DEF StoreSession
<1>8. QED
  BY <1>0, <1>1, <1>2, <1>4, <1>6, <1>7 DEF Stores, StoreSession

LEMMA WritesStep ==
    ASSUME Base, NEW o \in Slot
    PROVE  /\ DeleteSession(o) => WritesSession(o)
           /\ DeleteRefresh(o) \/ StoreRefresh(o) => WritesRefresh(o)
<1> DEFINE q == op[o]
<1>0. /\ q \in Operation
      /\ q.pc # "idle" => q.entity \in Entity
      /\ q.token \in Token \cup {None}
      /\ 0 \in 0 .. Horizon + Ttl /\ now + Ttl \in 0 .. Horizon + Ttl
      /\ {"store", "delete_refresh"} \subseteq Pc
      /\ None \in Token \cup {None} /\ None \in Entity \cup {None}
  <2>1. /\ q \in Operation /\ (q.pc # "idle" => q.entity \in Entity)
        /\ q.token \in Token \cup {None}
        /\ now \in Nat /\ Ttl \in Nat /\ Horizon \in Nat /\ now <= Horizon
    BY OperationFacts DEF Operation
  <2>2. QED
    BY <2>1 DEF Pc
<1>1. CASE DeleteSession(o)
  <2>1. SessionBecomes(o, None, 0)
    BY <1>0, <1>1, SessionWritten DEF DeleteSession, Absent
  <2> DEFINE pc == IF q.token = None THEN "store" ELSE "delete_refresh"
  <2>2. pc \in Pc /\ q.pc # "idle" /\ Go(o, pc)
    BY <1>0, <1>1 DEF DeleteSession
  <2> HIDE DEF pc
  <2>3. Goes(o, pc, q.token)
    BY <2>2, Went
  <2>4. WritesSession(o)
    BY <1>1, <2>1, <2>3 DEF DeleteSession, WritesSession, pc
  <2>5. QED
    BY <1>1, <2>4 DEF DeleteSession, DeleteRefresh, StoreRefresh
<1>3. CASE DeleteRefresh(o)
  <2>1. RefreshBecomes(o, None, 0)
    BY <1>0, <1>3, RefreshWritten DEF DeleteRefresh, NoOwner
  <2>2. Goes(o, "store", q.token)
    BY <1>0, <1>3, Went DEF DeleteRefresh
  <2>3. WritesRefresh(o)
    BY <1>3, <2>1, <2>2 DEF DeleteRefresh, WritesRefresh
  <2>4. QED
    BY <1>3, <2>3 DEF DeleteRefresh, DeleteSession
<1>4. CASE StoreRefresh(o)
  <2>1. RefreshBecomes(o, q.entity, now + Ttl)
    BY <1>0, <1>4, RefreshWritten DEF StoreRefresh
  <2>2. Leaves(o)
    BY <1>4, Ended DEF StoreRefresh
  <2>3. WritesRefresh(o)
    BY <1>4, <2>1, <2>2 DEF StoreRefresh, WritesRefresh
  <2>4. QED
    BY <1>4, <2>3 DEF StoreRefresh, DeleteSession
<1>6. QED
  BY <1>1, <1>3, <1>4

\* Every step is time passing, or the outcome of one slot.
LEMMA Outcomes ==
    ASSUME Base, Next
    PROVE  Tick \/ \E o \in Slot : Outcome(o)
BY EntersStep, EnquiresStep, StoresStep, WritesStep DEF Next, Outcome, WritesSession

-----------------------------------------------------------------------------
(* The invariants, one by one *)

LEMMA InitInductive == Init => Inductive
<1> SUFFICES ASSUME Init PROVE Inductive
  OBVIOUS
<1> USE ConstantsAssumption DEF Init
<1>1. Base
  <2>1. Absent \in SessionKey /\ NoOwner \in RefreshKey /\ now \in Time
    BY DEF Absent, SessionKey, NoOwner, RefreshKey, Time
  <2>2. \A o \in Slot : op[o] = Idle /\ Idle.pc = "idle"
    BY DEF Idle
  <2>3. \A e \in Entity : session[e].until <= now + Ttl
    <3>1. Absent.until = 0 /\ Ttl \in Nat
      BY DEF Absent
    <3>2. 0 <= now + Ttl
      BY <3>1
    <3>3. QED
      BY <3>1, <3>2
  <2>4. QED
    BY <2>1, <2>2, <2>3, IdleTyped DEF Base
<1>2. \A o \in Slot : op[o].pc = "idle"
  BY DEF Idle
<1>3. OneEach /\ KnowsAlone
  BY <1>2 DEF OneEach, KnowsAlone
<1>4. Puzzles
  BY <1>2 DEF Puzzles, Spent, Opening, PuzzleOnce
<1>5. \A t \in Token, e \in Entity : ~Claims(t, e)
  BY <1>2 DEF Claims, Absent, NoOwner
<1>6. Belongs
  BY <1>5 DEF Belongs
<1>7. \A e \in Entity : Paired(e)
  BY DEF Paired, Live, Absent, NoOwner
<1>8. Undisturbed
  BY <1>2, <1>7 DEF Undisturbed
<1>9. QED
  BY <1>1, <1>3, <1>4, <1>6, <1>8 DEF Inductive

LEMMA TickBase ==
    ASSUME Base, Tick
    PROVE  Base'
<1>1. now' \in Time /\ now' = now + 1 /\ now \in Nat /\ Ttl \in Nat
  BY ConstantsAssumption DEF Base, Tick, Time
<1>2. \A e \in Entity : session[e] \in SessionKey /\ session[e].until <= now + Ttl
  BY DEF Base
<1>3. \A e \in Entity : session'[e].until <= now' + Ttl
  <2>1. \A e \in Entity : session[e].until \in 0 .. Horizon + Ttl
    BY <1>2 DEF SessionKey
  <2>2. QED
    BY <1>1, <1>2, <2>1 DEF Tick, keys
<1>4. UNCHANGED <<session, refresh, op, used, opened, reopened, overlapped>>
      /\ disturbed \subseteq disturbed' /\ disturbed' \subseteq Entity
  BY DEF Base, Tick, keys
<1>5. QED
  BY <1>1, <1>3, <1>4 DEF Base

LEMMA OutcomeBase ==
    ASSUME Base, NEW o \in Slot, Outcome(o)
    PROVE  Base'
<1> DEFINE q == op[o]
           e == q.entity
<1>0. /\ q \in Operation
      /\ q.pc # "idle" => e \in Entity
      /\ now \in Nat /\ Ttl \in Nat
  BY OperationFacts
<1>1. now' = now
  BY DEF Outcome, Enters, Enquires, WritesSession, Stores, WritesRefresh
<1>2. Stepped(o)
  BY DEF Outcome, Enters, Enquires, WritesSession, Stores, WritesRefresh, Goes, Leaves
<1>3. op'[o].pc # "idle" => op'[o].entity \in Entity
  BY <1>0 DEF Outcome, Enters, Enquires, WritesSession, Stores, WritesRefresh, Goes, Leaves,
              Idle
<1>4. \A p \in Slot : op'[p].pc # "idle" => op'[p].entity \in Entity
  BY <1>2, <1>3 DEF Stepped, Base
<1>5. /\ session' \in [Entity -> SessionKey]
      /\ \A f \in Entity : session'[f].until <= now + Ttl
  <2>1. CASE UNCHANGED session
    BY <2>1 DEF Base
  <2>2. CASE \E token, until : until <= now + Ttl /\ SessionBecomes(o, token, until)
    BY <2>2 DEF Base, SessionBecomes
  <2>3. 0 <= now + Ttl /\ now + Ttl <= now + Ttl
    BY <1>0
  <2>4. WritesSession(o) => \E token, until : until <= now + Ttl /\ SessionBecomes(o, token, until)
    BY <2>3 DEF WritesSession, Stores
  <2>5. QED
    BY <2>1, <2>2, <2>4 DEF Outcome, Enters, Enquires, WritesRefresh, keys
<1>6. refresh' \in [Token -> RefreshKey]
  BY DEF Base, Outcome, Enters, Enquires, WritesSession, Stores, WritesRefresh,
         RefreshBecomes, keys
<1>7. used' \subseteq Token /\ opened' \in [Entity -> SUBSET Time] /\ reopened' \subseteq Entity
  BY <1>0 DEF Base, Outcome, Enters, Enquires, WritesSession, Stores, WritesRefresh, history
<1>8. overlapped' \subseteq disturbed' /\ disturbed' \subseteq Entity
  BY <1>0 DEF Base, Outcome, Enters, Enquires, WritesSession, Stores, WritesRefresh, history,
              Leaves
<1>9. QED
  BY <1>1, <1>2, <1>4, <1>5, <1>6, <1>7, <1>8 DEF Base, Stepped

\* The records of overlaps only grow, and an operation stays with its entity.
LEMMA OutcomeFacts ==
    ASSUME Base, NEW o \in Slot, Outcome(o)
    PROVE  /\ Stepped(o) /\ now' = now
           /\ overlapped \subseteq overlapped' /\ disturbed \subseteq disturbed'
           /\ \/ Enters(o)
              \/ /\ op[o].pc # "idle" /\ overlapped' = overlapped
                 /\ op'[o].pc # "idle" => op'[o].entity = op[o].entity
                 /\ \A f \in Entity \ {op[o].entity} :
                      session'[f] = session[f] /\ opened'[f] = opened[f]
                 /\ disturbed' = disturbed \/ disturbed' = disturbed \cup {op[o].entity}
BY DEF Outcome, Enters, Enquires, WritesSession, Stores, WritesRefresh, SessionBecomes, Goes,
       Leaves, Idle, keys, history

LEMMA OneEachStep ==
    ASSUME Base, OneEach, NEW o \in Slot, Outcome(o)
    PROVE  OneEach'
<1>1. SUFFICES ASSUME NEW p \in Slot, NEW r \in Slot,
                      op'[p].pc # "idle", op'[r].pc # "idle",
                      op'[p].entity = op'[r].entity, op'[p].entity \notin overlapped'
               PROVE  p = r
  BY DEF OneEach
<1>2. CASE Enters(o)
  <2>1. ASSUME NEW s \in Slot \ {o}, op'[s].pc # "idle", op'[s].entity = op'[o].entity
        PROVE  s \in InFlight(op'[o].entity)
    BY <1>2, <2>1 DEF Enters, Stepped, InFlight
  <2>2. InFlight(op'[o].entity) # {} => op'[o].entity \in overlapped'
    BY <1>2 DEF Enters
  <2>3. CASE p = o \/ r = o
    BY <1>1, <2>1, <2>2, <2>3
  <2>4. CASE p # o /\ r # o
    BY <1>1, <1>2, <2>4, OutcomeFacts DEF OneEach, Stepped
  <2>5. QED
    BY <2>3, <2>4
<1>3. CASE ~Enters(o)
  <2>1. \A s \in Slot : op'[s].pc # "idle" => op[s].pc # "idle" /\ op'[s].entity = op[s].entity
    BY <1>3, OutcomeFacts DEF Stepped
  <2>2. overlapped' = overlapped
    BY <1>3, OutcomeFacts
  <2>3. QED
    BY <1>1, <2>1, <2>2 DEF OneEach
<1>4. QED
  BY <1>2, <1>3

\* An operation in flight for an entity whose requests have not overlapped sees
\* no step of another slot touch that entity.
LEMMA Alone ==
    ASSUME Base, OneEach, NEW o \in Slot, Outcome(o), NEW p \in Slot \ {o},
           op'[p].pc # "idle", op'[p].entity \notin overlapped'
    PROVE  /\ op'[p] = op[p] /\ op[p].entity \in Entity /\ op[p].entity \notin overlapped
           /\ session'[op[p].entity] = session[op[p].entity]
           /\ opened'[op[p].entity] = opened[op[p].entity]
           /\ ~Enters(o) => op[p].entity # op[o].entity
           /\ Enters(o) => op[p].entity # op'[o].entity
<1>1. op'[p] = op[p] /\ op[p].entity \in Entity /\ op[p].entity \notin overlapped
  BY OutcomeFacts DEF Stepped, Base
<1>2. CASE Enters(o)
  <2>1. op[p].entity = op'[o].entity => p \in InFlight(op'[o].entity)
    BY <1>1 DEF InFlight
  <2>2. op[p].entity = op'[o].entity => op'[p].entity \in overlapped'
    BY <1>1, <1>2, <2>1 DEF Enters
  <2>3. QED
    BY <1>1, <1>2, <2>2 DEF Enters, keys
<1>3. CASE ~Enters(o)
  <2>1. op[p].entity # op[o].entity
    BY <1>1, <1>3, OutcomeFacts DEF OneEach
  <2>2. QED
    BY <1>1, <1>3, <2>1, OutcomeFacts
<1>4. QED
  BY <1>2, <1>3

LEMMA KnowsStep ==
    ASSUME Base, OneEach, KnowsAlone, NEW o \in Slot, Outcome(o)
    PROVE  KnowsAlone'
<1>1. SUFFICES ASSUME NEW p \in Slot, op'[p].pc # "idle", op'[p].entity \notin overlapped'
               PROVE  Knows(p)'
  BY DEF KnowsAlone
<1>2. CASE p # o
  <2>1. /\ op'[p] = op[p] /\ op[p].entity \notin overlapped
        /\ session'[op[p].entity] = session[op[p].entity] /\ now' = now
    BY <1>1, <1>2, Alone, OutcomeFacts
  <2>2. Knows(p)
    BY <1>1, <2>1 DEF KnowsAlone
  <2>3. QED
    BY <2>1, <2>2 DEF Knows, Live
<1>3. CASE p = o
  <2> DEFINE q == op[o]
             key == session[q.entity]
  <2>1. CASE Enters(o)
    BY <1>3, <2>1 DEF Enters, Knows, Live, Opening, keys
  <2>2. CASE ~Enters(o)
    <3>1. Knows(o) /\ q \in Operation /\ op'[o].entity = q.entity /\ q.entity \in Entity
      BY <1>1, <1>3, <2>2, OutcomeFacts, OperationFacts DEF KnowsAlone
    <3>2. now \in Nat /\ key.until \in Nat
      BY <3>1, OperationFacts DEF Base, SessionKey
    <3>3. CASE Enquires(o)
      <4>1. session'[q.entity] = key /\ now' = now
        BY <3>3 DEF Enquires, keys
      <4>2. CASE Leaves(o)
        BY <1>1, <1>3, <4>2 DEF Leaves, Idle
      <4>3. CASE q.pc = "check" /\ Goes(o, "read", q.token) /\ ~Live(key)
        BY <1>3, <3>1, <4>1, <4>3 DEF Goes, Knows, Live, Opening
      <4>4. CASE q.pc = "read" /\ Goes(o, "delete", IF Live(key) THEN key.token ELSE None)
        BY <1>3, <3>1, <4>1, <4>4 DEF Goes, Knows, Live, Opening
      <4>5. QED
        BY <3>3, <4>2, <4>3, <4>4 DEF Enquires
    <3>4. CASE WritesSession(o)
      <4>1. CASE q.pc = "delete" /\ SessionBecomes(o, None, 0) /\ now' = now
                 /\ Goes(o, IF q.token = None THEN "store" ELSE "delete_refresh", q.token)
        BY <1>3, <3>2, <4>1 DEF Goes, SessionBecomes, Knows, Live, Opening
      <4>2. CASE Stores(o)
        BY <1>3, <4>2 DEF Stores, Goes, Knows, Opening
      <4>3. QED
        BY <3>4, <4>1, <4>2 DEF WritesSession
    <3>5. CASE WritesRefresh(o)
      BY <1>1, <1>3, <3>1, <3>5 DEF WritesRefresh, Goes, Leaves, Idle, Knows, Live, Opening
    <3>6. QED
      BY <2>2, <3>3, <3>4, <3>5 DEF Outcome
  <2>3. QED
    BY <2>1, <2>2
<1>4. QED
  BY <1>2, <1>3

LEMMA PuzzlesStep ==
    ASSUME Base, OneEach, KnowsAlone, Puzzles, NEW o \in Slot, Outcome(o)
    PROVE  Puzzles'
<1> DEFINE q == op[o]
           e == q.entity
<1>0. /\ now \in Nat /\ Ttl \in Nat /\ Window \in Nat /\ 2 * Window < Ttl
      /\ q \in Operation /\ q.at \in Nat
      /\ \A f \in Entity : session[f].until \in Nat /\ opened[f] \subseteq Nat
      /\ \A f \in Entity : session'[f].until \in Nat
      /\ now' = now /\ overlapped \subseteq overlapped'
  BY OperationFacts, OutcomeBase, OutcomeFacts, ConstantsAssumption
     DEF Base, SessionKey, Operation, Time
<1>1. ASSUME NEW f \in Entity, f \notin overlapped'
      PROVE  Spent(f)'
  <2>1. Spent(f) /\ f \notin overlapped
    BY <1>0, <1>1 DEF Puzzles
  <2>2. CASE session'[f] = session[f] /\ opened'[f] = opened[f]
    BY <1>0, <2>1, <2>2 DEF Spent
  <2>3. CASE ~Enters(o) /\ f = e /\ ~(session'[f] = session[f] /\ opened'[f] = opened[f])
    <3>1. q.pc # "idle" /\ Knows(o) /\ WritesSession(o)
      BY <2>1, <2>3, OutcomeFacts
         DEF KnowsAlone, Outcome, Enquires, WritesRefresh, keys, history
    <3>2. q.pc \in Opening => Later(o)
      BY <2>1, <2>3 DEF Puzzles
    <3>3. CASE q.pc = "delete" /\ UNCHANGED opened
      BY <1>0, <2>3, <3>2, <3>3 DEF Spent, Later, Opening
    <3>4. CASE Stores(o)
      <4>1. /\ opened'[f] = opened[f] \cup {q.at} /\ session'[f].until = now + Ttl
            /\ Later(o)
        BY <2>1, <2>3, <3>2, <3>4 DEF Stores, SessionBecomes, Opening
      <4>2. q.at + Window < now + Ttl
        BY <1>0, <4>1 DEF Later
      <4>3. QED
        BY <1>0, <2>3, <4>1, <4>2 DEF Spent, Later
    <3>5. QED
      BY <3>1, <3>3, <3>4 DEF WritesSession, history
  <2>4. QED
    BY <2>2, <2>3, OutcomeFacts DEF Enters, keys
<1>2. ASSUME NEW p \in Slot, op'[p].pc \in Opening, op'[p].entity \notin overlapped'
      PROVE  Later(p)'
  <2>1. CASE p # o
    <3>1. /\ op'[p] = op[p] /\ op[p].entity \notin overlapped
          /\ opened'[op[p].entity] = opened[op[p].entity]
      BY <1>2, <2>1, Alone DEF Opening
    <3>2. Later(p)
      BY <1>2, <3>1 DEF Puzzles
    <3>3. QED
      BY <1>0, <3>1, <3>2 DEF Later
  <2>2. CASE p = o
    <3>1. /\ ~Enters(o) /\ q.pc # "idle" /\ op'[o].entity = e /\ e \in Entity
          /\ e \notin overlapped
      BY <1>2, <2>2, OutcomeFacts DEF Enters, Opening, Base
    <3>2. CASE q.pc = "check"
      <4>1. ~Live(session[e]) /\ Timely(q.at) /\ UNCHANGED opened /\ op'[o].at = q.at
        BY <1>2, <2>2, <3>1, <3>2
           DEF Outcome, Enquires, WritesSession, Stores, WritesRefresh, Leaves, Goes, Idle,
               Opening
      <4>2. Spent(e)
        BY <3>1 DEF Puzzles
      <4>3. \A a \in opened[e] : a < q.at /\ a + Window < now
        BY <1>0, <3>1, <4>1, <4>2 DEF Spent, Live, Timely
      <4>4. QED
        BY <1>0, <2>2, <3>1, <4>1, <4>3 DEF Later, Timely
    <3>3. CASE q.pc # "check"
      <4>1. q.pc \in Opening /\ UNCHANGED opened /\ op'[o].at = q.at
        BY <1>2, <2>2, <3>1, <3>3
           DEF Outcome, Enquires, WritesSession, Stores, WritesRefresh, Leaves, Goes, Idle,
               Opening, history
      <4>2. Later(o)
        BY <3>1, <4>1 DEF Puzzles
      <4>3. QED
        BY <1>0, <2>2, <3>1, <4>1, <4>2 DEF Later
    <3>4. QED
      BY <3>2, <3>3
  <2>3. QED
    BY <2>1, <2>2
<1>3. PuzzleOnce'
  <2>1. reopened \subseteq overlapped
    BY DEF Puzzles, PuzzleOnce
  <2>2. CASE UNCHANGED reopened
    BY <1>0, <2>1, <2>2 DEF PuzzleOnce
  <2>3. CASE q.pc = "store" /\ q.at \in opened[e] /\ reopened' = reopened \cup {e}
    <3>1. e \notin overlapped => Later(o)
      BY <2>3 DEF Puzzles, Opening
    <3>2. e \in overlapped
      BY <1>0, <2>3, <3>1 DEF Later
    <3>3. QED
      BY <1>0, <2>1, <2>3, <3>2 DEF PuzzleOnce
  <2>4. QED
    BY <2>2, <2>3 DEF Outcome, Enters, Enquires, WritesSession, Stores, WritesRefresh, history
<1>4. QED
  BY <1>1, <1>2, <1>3 DEF Puzzles

-----------------------------------------------------------------------------
(* Tokens and their entities *)

\* A token found somewhere after a step was found there before, or is new.
LEMMA ClaimsKept ==
    ASSUME Base, Belongs, NEW o \in Slot, Outcome(o), ~Stores(o),
           NEW t \in Token, NEW f \in Entity, Claims(t, f)'
    PROVE  Claims(t, f)
<1> DEFINE q == op[o]
<1>0. Stepped(o) /\ t # None
  BY OutcomeFacts, ConstantsAssumption
<1>1. CASE \E p \in Slot \ {o} : op'[p].pc # "idle" /\ op'[p].token = t /\ op'[p].entity = f
  BY <1>0, <1>1 DEF Stepped, Claims
<1>2. CASE op'[o].pc # "idle" /\ op'[o].token = t /\ op'[o].entity = f
  <2>1. CASE Enters(o)
    BY <1>0, <1>2, <2>1 DEF Enters, Claims
  <2>2. CASE ~Enters(o)
    <3>1. q.pc # "idle" /\ f = q.entity /\ (t = q.token \/ t = session[f].token)
      BY <1>0, <1>2, <2>2
         DEF Outcome, Enquires, WritesSession, WritesRefresh, Leaves, Goes, Idle
    <3>2. QED
      BY <3>1 DEF Claims
  <2>3. QED
    BY <2>1, <2>2
<1>3. CASE session'[f].token = t
  <2>1. session'[f] = session[f] \/ (q.pc # "idle" /\ f = q.entity /\ t = q.token)
    BY <1>0, <1>3
       DEF Outcome, Enters, Enquires, WritesSession, WritesRefresh, SessionBecomes, keys
  <2>2. QED
    BY <1>3, <2>1 DEF Claims
<1>4. CASE refresh'[t].owner = f
  <2>1. refresh'[t] = refresh[t] \/ (q.pc # "idle" /\ f = q.entity /\ t = q.token)
    <3>1. CASE WritesRefresh(o)
      BY <1>4, <3>1, ConstantsAssumption DEF WritesRefresh, RefreshBecomes
    <3>2. CASE ~WritesRefresh(o)
      BY <3>2 DEF Outcome, Enters, Enquires, WritesSession, keys
    <3>3. QED
      BY <3>1, <3>2
  <2>2. QED
    BY <1>4, <2>1 DEF Claims
<1>5. QED
  BY <1>1, <1>2, <1>3, <1>4 DEF Claims

LEMMA BelongsStep ==
    ASSUME Base, Belongs, NEW o \in Slot, Outcome(o)
    PROVE  Belongs'
<1>1. CASE ~Stores(o)
  <2>1. used' = used
    BY <1>1 DEF Outcome, Enters, Enquires, WritesSession, WritesRefresh, history
  <2>2. \A t \in Token, f \in Entity : Claims(t, f)' => Claims(t, f)
    BY <1>1, ClaimsKept
  <2>3. QED
    BY <2>1, <2>2 DEF Belongs
<1>2. CASE Stores(o)
  <2> DEFINE e == op[o].entity
  <2>1. PICK n \in Token \ used :
          /\ used' = used \cup {n} /\ SessionBecomes(o, n, now + Ttl)
          /\ Goes(o, "store_refresh", n) /\ refresh' = refresh
    BY <1>2 DEF Stores
  <2>2. ASSUME NEW t \in Token, NEW f \in Entity, Claims(t, f)'
        PROVE  Claims(t, f) \/ (t = n /\ f = e)
    <3>1. CASE \E p \in Slot \ {o} : op'[p].pc # "idle" /\ op'[p].token = t /\ op'[p].entity = f
      BY <2>1, <3>1 DEF Goes, Stepped, Claims
    <3>2. CASE op'[o].token = t /\ op'[o].entity = f
      BY <2>1, <3>2 DEF Goes
    <3>3. CASE session'[f].token = t
      BY <2>1, <3>3 DEF SessionBecomes, Claims
    <3>4. CASE refresh'[t].owner = f
      BY <2>1, <3>4 DEF Claims
    <3>5. QED
      BY <2>2, <3>1, <3>2, <3>3, <3>4 DEF Claims
  <2>3. \A f \in Entity : ~Claims(n, f)
    BY <2>1 DEF Belongs
  <2>4. QED
    BY <2>1, <2>2, <2>3 DEF Belongs
<1>3. QED
  BY <1>1, <1>2

-----------------------------------------------------------------------------
(* Undisturbed entities *)

\* The tokens of f keep their keys, and f gets none.
KeysKept(f) ==
    /\ session'[f] = session[f]
    /\ \A t \in Token : \/ refresh'[t] = refresh[t]
                        \/ ~Claims(t, f) /\ refresh'[t].owner # f

LEMMA OthersKept ==
    ASSUME Base, Belongs, NEW o \in Slot, Outcome(o), NEW f \in Entity,
           Enters(o) \/ f # op[o].entity
    PROVE  KeysKept(f)
<1> DEFINE q == op[o]
<1>1. session'[f] = session[f]
  BY OutcomeFacts DEF Enters, keys
<1>2. CASE WritesRefresh(o)
  <2>1. q.pc # "idle" /\ q.entity \in Entity /\ f # q.entity
    BY <1>2, OperationFacts DEF WritesRefresh, Enters
  <2>2. ASSUME NEW t \in Token, t = q.token
        PROVE  ~Claims(t, f) /\ refresh'[t].owner # f
    <3>1. Claims(t, q.entity)
      BY <2>1, <2>2 DEF Claims
    <3>2. ~Claims(t, f)
      BY <2>1, <3>1 DEF Belongs
    <3>3. refresh'[t].owner \in {None, q.entity}
      BY <1>2, <2>2 DEF WritesRefresh, RefreshBecomes
    <3>4. QED
      BY <2>1, <3>2, <3>3, ConstantsAssumption
  <2>3. \A t \in Token : t # q.token => refresh'[t] = refresh[t]
    BY <1>2 DEF WritesRefresh, RefreshBecomes
  <2>4. QED
    BY <1>1, <2>2, <2>3 DEF KeysKept
<1>3. CASE ~WritesRefresh(o)
  <2>1. refresh' = refresh
    BY <1>3 DEF Outcome, Enters, Enquires, WritesSession, Stores, keys
  <2>2. QED
    BY <1>1, <2>1 DEF KeysKept
<1>4. QED
  BY <1>2, <1>3

LEMMA PairedKept ==
    ASSUME NEW f \in Entity, KeysKept(f), now' = now, Paired(f)
    PROVE  Paired(f)'
<1>1. SUFFICES ASSUME NEW t \in Token,
                      \/ Live(refresh[t])' /\ refresh'[t].owner = f
                      \/ Live(session[f])' /\ session'[f].token = t
               PROVE  /\ refresh'[t].owner = f /\ session'[f].token = t
                      /\ refresh'[t].until = session'[f].until
  BY DEF Paired
<1>2. session'[f] = session[f]
  BY DEF KeysKept
<1>3. refresh'[t] = refresh[t]
  BY <1>1, <1>2 DEF KeysKept, Claims
<1>4. QED
  BY <1>1, <1>2, <1>3 DEF Paired, Live

LEMMA ExpectsKept ==
    ASSUME NEW p \in Slot, op'[p] = op[p], NEW f \in Entity, op[p].entity = f,
           KeysKept(f), now' = now, Expects(p)
    PROVE  Expects(p)'
<1>1. session'[f] = session[f]
  BY DEF KeysKept
<1>2. op[p].pc # "store_refresh" => Paired(f)'
  BY PairedKept DEF Expects
<1>3. \A t \in Token : refresh'[t].owner = f => refresh'[t] = refresh[t]
  BY DEF KeysKept
<1>4. op[p].pc = "store_refresh" => \A t \in Token : refresh'[t].owner = f => ~Live(refresh[t])'
  BY <1>3 DEF Expects, Live
<1>5. QED
  BY <1>1, <1>2, <1>4 DEF Expects, Live, Paired

\* The request of o goes on, and its entity has had no disturbance.
LEMMA ExpectsOwn ==
    ASSUME Base, OneEach, KnowsAlone, Undisturbed, NEW o \in Slot, Outcome(o),
           ~Enters(o), op'[o].pc # "idle",
           NEW e \in Entity, e = op[o].entity, e \notin disturbed'
    PROVE  Expects(o)'
<1> DEFINE q == op[o]
           key == session[e]
<1>1. /\ q.pc # "idle" /\ e \in Entity /\ e \notin overlapped /\ e \notin disturbed
      /\ op'[o].entity = e /\ now' = now
  BY OutcomeFacts, OperationFacts DEF Base
<1>2. Expects(o) /\ Knows(o)
  BY <1>1 DEF Undisturbed, KnowsAlone
<1>3. /\ now \in Nat /\ Ttl \in Nat /\ key.until \in Nat
      /\ \A t \in Token : refresh[t].until \in Nat
  BY <1>1, OperationFacts DEF Base, SessionKey, RefreshKey
<1>4. CASE Enquires(o)
  <2>1. session' = session /\ refresh' = refresh /\ ~Leaves(o)
    BY <1>4 DEF Enquires, keys, Leaves, Idle
  <2>2. q.pc \in {"check", "read"} /\ Paired(e)
    BY <1>2, <1>4, <2>1 DEF Enquires, Expects
  <2>3. Paired(e)'
    BY <1>1, <2>1, <2>2 DEF Paired, Live
  <2>5. CASE q.pc = "check"
    BY <1>1, <1>4, <2>1, <2>3, <2>5 DEF Enquires, Goes, Expects, Paired, Live
  <2>6. CASE q.pc = "read"
    <3>1. ~Live(key)
      BY <1>2, <2>6 DEF Knows, Opening
    <3>2. op'[o].pc = "delete" /\ op'[o].token = None
      BY <1>4, <2>1, <2>6, <3>1 DEF Enquires, Goes
    <3>3. QED
      BY <1>1, <2>3, <3>2 DEF Expects, Paired, Live
  <2>7. QED
    BY <2>2, <2>5, <2>6
<1>5. CASE WritesSession(o)
  <2>1. refresh' = refresh /\ Paired(e)
    BY <1>2, <1>5 DEF WritesSession, Stores, Expects
  <2>2. CASE q.pc = "delete" /\ SessionBecomes(o, None, 0)
             /\ Goes(o, IF q.token = None THEN "store" ELSE "delete_refresh", q.token)
    <3>1. ~Live(key) /\ op'[o].pc = "store"
      BY <1>2, <2>2 DEF Knows, Expects, Opening, Goes
    <3>2. \A t \in Token : ~(Live(refresh[t]) /\ refresh[t].owner = e)
      BY <2>1, <3>1 DEF Paired, Live
    <3>3. ~(session'[e].until > now)
      BY <1>3, <2>2 DEF SessionBecomes
    <3>4. Paired(e)'
      BY <1>1, <2>1, <3>2, <3>3 DEF Paired, Live
    <3>5. QED
      BY <1>1, <3>1, <3>4 DEF Expects, Paired, Live
  <2>3. CASE Stores(o)
    <3>1. PICK t \in Token :
            SessionBecomes(o, t, now + Ttl) /\ Goes(o, "store_refresh", t)
      BY <2>3 DEF Stores
    <3>2. ~Live(key)
      BY <1>2, <2>3 DEF Stores, Knows, Opening
    <3>3. \A s \in Token : refresh[s].owner = e => ~Live(refresh[s])
      BY <2>1, <3>2 DEF Paired, Live
    <3>4. /\ op'[o].pc = "store_refresh" /\ op'[o].token = t
          /\ session'[e].token = t /\ session'[e].until = now + Ttl
      BY <3>1 DEF SessionBecomes, Goes
    <3>5. Ttl' = Ttl /\ \A s \in Token : refresh'[s].owner = e => ~Live(refresh[s])'
      BY <1>1, <2>1, <3>3 DEF Live
    <3>6. QED
      BY <1>1, <3>4, <3>5 DEF Expects
  <2>4. QED
    BY <1>5, <2>2, <2>3 DEF WritesSession
<1>6. CASE WritesRefresh(o)
  BY <1>2, <1>6 DEF WritesRefresh, Expects, Leaves, Idle
<1>7. QED
  BY <1>4, <1>5, <1>6 DEF Outcome

\* The request of o ends, and its entity has had no disturbance.
LEMMA PairedOwn ==
    ASSUME Base, OneEach, KnowsAlone, Undisturbed, NEW o \in Slot, Outcome(o),
           Leaves(o), NEW e \in Entity, e = op[o].entity, e \notin disturbed'
    PROVE  Paired(e)'
<1> DEFINE q == op[o]
           key == session[e]
<1>1. /\ q.pc # "idle" /\ op'[o].pc = "idle" /\ e \in Entity /\ e \notin disturbed
      /\ now' = now
  BY OutcomeFacts, OperationFacts DEF Leaves, Idle
<1>2. Expects(o)
  BY <1>1 DEF Undisturbed
<1>3. CASE Enquires(o)
  <2>1. q.pc \in {"check", "manager"} /\ session' = session /\ refresh' = refresh
    BY <1>1, <1>3 DEF Enquires, Goes, keys
  <2>2. Paired(e)
    BY <1>2, <2>1 DEF Expects
  <2>3. QED
    BY <1>1, <2>1, <2>2 DEF Paired, Live
<1>4. CASE q.pc = "store_refresh" /\ WritesRefresh(o)
  <2>1. session' = session /\ RefreshBecomes(o, e, now + Ttl)
    BY <1>4 DEF WritesRefresh
  <2>2. /\ key.token = q.token /\ key.until = now + Ttl
        /\ \A t \in Token : refresh[t].owner = e => ~Live(refresh[t])
    BY <1>2, <1>4 DEF Expects
  <2>3. QED
    BY <1>1, <2>1, <2>2 DEF Paired, Live, RefreshBecomes
<1>6. CASE q.pc = "delete_refresh"
  BY <1>2, <1>6 DEF Expects
<1>7. ~Enters(o) /\ ~WritesSession(o)
  BY <1>1 DEF Enters, WritesSession, Stores, Goes
<1>8. QED
  BY <1>3, <1>4, <1>6, <1>7 DEF Outcome, WritesRefresh

LEMMA UndisturbedStep ==
    ASSUME Base, OneEach, KnowsAlone, Belongs, Undisturbed, NEW o \in Slot, Outcome(o)
    PROVE  Undisturbed'
<1> DEFINE q == op[o]
<1>0. /\ Stepped(o) /\ now' = now /\ disturbed \subseteq disturbed'
      /\ overlapped' \subseteq disturbed'
  BY OutcomeFacts, OutcomeBase DEF Base
<1>1. ASSUME NEW f \in Entity \ disturbed', InFlight(f)' = {}
      PROVE  Paired(f)'
  <2>1. CASE Enters(o) \/ f # q.entity
    <3>1. ASSUME NEW s \in InFlight(f)
          PROVE  FALSE
      <4>1. s \in Slot /\ op[s].pc # "idle" /\ op[s].entity = f /\ s # o
        BY <2>1, <3>1 DEF InFlight, Enters
      <4>2. op'[s] = op[s]
        BY <1>0, <4>1 DEF Stepped
      <4>3. s \in InFlight(f)'
        BY <4>1, <4>2 DEF InFlight
      <4>4. QED
        BY <1>1, <4>3
    <3>2. Paired(f)
      BY <1>0, <1>1, <3>1 DEF Undisturbed
    <3>3. QED
      BY <1>0, <2>1, <3>2, OthersKept, PairedKept
  <2>2. CASE ~Enters(o) /\ f = q.entity
    <3>1. op'[o].pc # "idle" => o \in InFlight(f)'
      BY <2>2, OutcomeFacts DEF InFlight
    <3>2. Leaves(o)
      BY <1>1, <2>2, <3>1 DEF Outcome, Enquires, WritesSession, Stores, WritesRefresh, Goes
    <3>3. QED
      BY <1>1, <2>2, <3>2, PairedOwn
  <2>3. QED
    BY <2>1, <2>2
<1>2. ASSUME NEW p \in Slot, op'[p].pc # "idle", op'[p].entity \notin disturbed'
      PROVE  Expects(p)'
  <2>1. CASE p # o
    <3>1. /\ op'[p] = op[p] /\ op[p].entity \in Entity
          /\ Enters(o) \/ op[p].entity # q.entity
      BY <1>0, <1>2, <2>1, Alone
    <3>2. Expects(p)
      BY <1>0, <1>2, <3>1 DEF Undisturbed
    <3>3. QED
      BY <1>0, <3>1, <3>2, OthersKept, ExpectsKept
  <2>2. CASE p = o /\ Enters(o)
    <3>0. PICK e \in Entity : op'[o].entity = e
      BY <2>2 DEF Enters
    <3>1. InFlight(e) = {} /\ session' = session /\ refresh' = refresh
      BY <1>2, <2>2, <3>0 DEF Enters, keys
    <3>2. Paired(e)
      BY <1>0, <1>2, <2>2, <3>0, <3>1 DEF Undisturbed
    <3>3. Paired(e)'
      BY <1>0, <3>1, <3>2 DEF Paired, Live
    <3>4. QED
      BY <1>0, <2>2, <3>0, <3>1, <3>3 DEF Enters, Expects, Live, Paired
  <2>3. CASE p = o /\ ~Enters(o)
    <3>1. op'[o].entity = q.entity /\ q.entity \in Entity
      BY <1>2, <2>3, OutcomeFacts DEF Base
    <3>2. QED
      BY <1>2, <2>3, <3>1, ExpectsOwn
  <2>4. QED
    BY <2>1, <2>2, <2>3
<1>3. QED
  BY <1>1, <1>2 DEF Undisturbed

\* Time passes: keys end, and what is in flight then counts as disturbed.
LEMMA TickInductive ==
    ASSUME Inductive, Tick
    PROVE  Inductive'
<1> USE DEF Inductive
<1>0. /\ now' = now + 1 /\ now \in Nat /\ Ttl \in Nat /\ Window \in Nat
      /\ UNCHANGED <<session, refresh, op, used, opened, reopened, overlapped>>
      /\ disturbed' = disturbed \cup {e \in Entity : InFlight(e) # {}}
  BY ConstantsAssumption DEF Tick, keys, Base, Time
<1>1. /\ \A e \in Entity : session[e].until \in Nat /\ opened[e] \subseteq Nat
      /\ \A t \in Token : refresh[t].until \in Nat
      /\ \A o \in Slot : op[o].at \in Nat
      /\ \A o \in Slot : op[o].pc # "idle" => op[o].entity \in Entity
  BY ConstantsAssumption DEF Base, SessionKey, RefreshKey, Operation, Time
<1>2. Base' /\ OneEach'
  BY <1>0, TickBase DEF OneEach
<1>3. KnowsAlone'
  BY <1>0, <1>1 DEF KnowsAlone, Knows, Live, Opening
<1>4. Puzzles'
  <2>1. \A e \in Entity : Spent(e) => Spent(e)'
    BY <1>0, <1>1 DEF Spent
  <2>2. \A o \in Slot : op[o].pc \in Opening /\ Later(o) => Later(o)'
    <3>1. SUFFICES ASSUME NEW o \in Slot, op[o].pc \in Opening, Later(o)
                   PROVE  Later(o)'
      OBVIOUS
    <3>2. op[o].entity \in Entity /\ op[o].at \in Nat /\ opened[op[o].entity] \subseteq Nat
      BY <1>1, <3>1 DEF Opening
    <3>3. QED
      BY <1>0, <3>1, <3>2 DEF Later
  <2>3. QED
    BY <1>0, <2>1, <2>2 DEF Puzzles, PuzzleOnce
<1>5. Belongs'
  BY <1>0 DEF Belongs, Claims
<1>6. Undisturbed'
  <2>1. ASSUME NEW e \in Entity, Paired(e)
        PROVE  Paired(e)'
    BY <1>0, <1>1, <2>1 DEF Paired, Live
  <2>2. \A e \in Entity : InFlight(e)' = InFlight(e)
    BY <1>0 DEF InFlight
  <2>3. \A o \in Slot : op[o].pc # "idle" => o \in InFlight(op[o].entity)
    BY DEF InFlight
  <2>4. \A o \in Slot : op'[o].pc # "idle" => op'[o].entity \in disturbed'
    BY <1>0, <1>1, <2>3
  <2>5. QED
    BY <1>0, <2>1, <2>2, <2>4 DEF Undisturbed
<1>7. QED
  BY <1>2, <1>3, <1>4, <1>5, <1>6

LEMMA NextInductive ==
    ASSUME Inductive, [Next]_vars
    PROVE  Inductive'
<1>1. CASE Tick
  BY <1>1, TickInductive
<1>2. ASSUME NEW o \in Slot, Outcome(o)
      PROVE  Inductive'
  BY <1>2, OutcomeBase, OneEachStep, KnowsStep, PuzzlesStep, BelongsStep, UndisturbedStep
     DEF Inductive
<1>3. CASE UNCHANGED vars
  <2> USE <1>3 DEF vars, keys, history
  <2>1. Base' /\ OneEach' /\ KnowsAlone'
    BY DEF Inductive, Base, OneEach, KnowsAlone, Knows, Live
  <2>2. Puzzles' /\ Belongs'
    BY DEF Inductive, Puzzles, Spent, Later, PuzzleOnce, Belongs, Claims
  <2>3. Undisturbed'
    BY DEF Inductive, Undisturbed, Expects, Paired, Live, InFlight
  <2>4. QED
    BY <2>1, <2>2, <2>3 DEF Inductive
<1>4. QED
  BY <1>1, <1>2, <1>3, Outcomes DEF Inductive

\* Every reachable state has the inductive invariant.
THEOREM AlwaysInductive == Spec => []Inductive
<1>1. QED
  BY InitInductive, NextInductive, PTL DEF Spec

-----------------------------------------------------------------------------
(* Theorems *)

\* Every variable has its type (the keys of app/shared/session/repository.py and
\* the requests on their way through create_session_with_tokens).
THEOREM TypeCorrect == Spec => []TypeOK
<1>1. Inductive => TypeOK
  BY BaseType DEF Inductive
<1>2. QED
  BY <1>1, AlwaysInductive, PTL

\* A puzzle opens one session at most (CryptoManager.authenticate, steps 3 and
\* 7): while its session lives it is refused for the session, afterwards for its
\* age, since a session lives longer than the window of a puzzle on both sides.
THEOREM PuzzlesOpenOnce == Spec => []PuzzleOnce
<1>1. Inductive => PuzzleOnce
  BY DEF Inductive, Puzzles
<1>2. QED
  BY <1>1, AlwaysInductive, PTL

\* Between its undisturbed requests an entity has no token, or a session and the
\* refresh token that leads to it, which end together (store_session,
\* delete_session).
THEOREM KeysArePaired == Spec => []PairedAtRest
<1>1. ASSUME NEW e \in Entity, Paired(e), NEW t \in Token
      PROVE  Live(refresh[t]) /\ refresh[t].owner = e
               <=> Live(session[e]) /\ session[e].token = t
  BY <1>1 DEF Paired, Live
<1>2. Inductive => PairedAtRest
  BY <1>1 DEF Inductive, Undisturbed, PairedAtRest
<1>3. QED
  BY <1>2, AlwaysInductive, PTL

\* No step of an entity whose requests have not overlapped ends or replaces its
\* live session (step 3 of CryptoManager.authenticate).
THEOREM LiveSessionsStay == Spec => NotReplaced
<1> DEFINE Kept == \A e \in Entity \ overlapped' :
                     Live(session[e]) => session'[e].token = session[e].token
<1>1. ASSUME Inductive, NEW o \in Slot, Outcome(o), NEW e \in Entity \ overlapped',
             Live(session[e])
      PROVE  session'[e].token = session[e].token
  <2>0. e \notin overlapped
    BY <1>1, OutcomeFacts DEF Inductive
  <2>1. CASE session'[e] = session[e]
    BY <2>1
  <2>2. CASE WritesSession(o) /\ e = op[o].entity
    <3>1. op[o].pc # "idle" /\ Knows(o)
      BY <1>1, <2>0, <2>2 DEF WritesSession, Stores, Inductive, KnowsAlone
    <3>2. QED
      BY <1>1, <2>2, <3>1 DEF WritesSession, Stores, Knows, Opening
  <2>3. QED
    BY <1>1, <2>1, <2>2, OutcomeFacts
       DEF Inductive, Outcome, Enters, Enquires, WritesRefresh, keys
<1>2. Inductive /\ [Next]_vars => [Kept]_vars
  <2>1. Tick => Kept
    BY DEF Tick, keys
  <2>2. QED
    BY <1>1, <2>1, Outcomes DEF Inductive
<1>3. QED
  BY <1>2, AlwaysInductive, PTL DEF Spec, NotReplaced
=============================================================================

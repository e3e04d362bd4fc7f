---------------------------- MODULE TokenSession ----------------------------
(***************************************************************************)
(* Authentication of devices and applications, and their token sessions:    *)
(* CryptoManager.authenticate (middleware/auth/devices and applications),   *)
(* AuthManager, create_session_with_tokens (app/shared/session/service.py)  *)
(* and the two families of keys of app/shared/session/repository.py:        *)
(*     user_session:{id} -> session data, with its refresh token            *)
(*     refresh_token:{token} -> id                                          *)
(*                                                                         *)
(* An action is one command to Valkey with the code up to the next one.     *)
(* Time advances in ticks, also while requests are in flight.               *)
(***************************************************************************)
EXTENDS Naturals

CONSTANTS
    Entity,     \* devices and applications
    Token,      \* refresh tokens, one per session created
    Slot,       \* slots for requests in flight
    Ttl,        \* SESSION_TTL_SECONDS in ticks
    Window,     \* TIMESTAMP_WINDOW in ticks
    Horizon,    \* the last tick looked at
    None

ASSUME ConstantsAssumption ==
    /\ Ttl \in Nat
    /\ Window \in Nat
    /\ Horizon \in Nat
    /\ 2 * Window < Ttl
    /\ None \notin Token
    /\ None \notin Entity

VARIABLES
    now,
    session,    \* user_session of e: [token, until]
    refresh,    \* refresh_token:t: [owner, until]
    op,         \* the request of each slot
    used,       \* history: the tokens generated so far
    opened,     \* history: when the puzzles were made that opened a session of e,
                \* as long as the requests of e have not overlapped
    reopened,   \* history: entities with a session by a puzzle that had opened one
    overlapped, \* history: entities that had two requests in flight
    disturbed   \* history: and those with a request that failed, or that took time

keys == <<session, refresh>>
history == <<used, opened, reopened, overlapped, disturbed>>
vars == <<now, keys, op, history>>

Time == 0 .. Horizon

Pc == {"idle", "check", "manager", "read", "delete", "delete_refresh", "store",
       "store_refresh"}

\* at is the time the puzzle of the request was made; token is the one read, or
\* the one generated.
Operation == [pc : Pc, entity : Entity \cup {None}, at : Time, token : Token \cup {None}]

Idle == [pc |-> "idle", entity |-> None, at |-> 0, token |-> None]

Absent == [token |-> None, until |-> 0]
NoOwner == [owner |-> None, until |-> 0]

TypeOK ==
    /\ now \in Time
    /\ session \in [Entity -> [token : Token \cup {None}, until : 0 .. Horizon + Ttl]]
    /\ refresh \in [Token -> [owner : Entity \cup {None}, until : 0 .. Horizon + Ttl]]
    /\ op \in [Slot -> Operation]
    /\ used \subseteq Token
    /\ opened \in [Entity -> SUBSET Time]
    /\ reopened \subseteq Entity
    /\ overlapped \subseteq disturbed
    /\ disturbed \subseteq Entity

Init ==
    /\ now = 0
    /\ session = [e \in Entity |-> Absent]
    /\ refresh = [t \in Token |-> NoOwner]
    /\ op = [o \in Slot |-> Idle]
    /\ used = {}
    /\ opened = [e \in Entity |-> {}]
    /\ reopened = {}
    /\ overlapped = {}
    /\ disturbed = {}

\* A key exists until its TTL has passed.
Live(key) == key.until > now

InFlight(e) == {o \in Slot : op[o].pc # "idle" /\ op[o].entity = e}

Go(o, pc) == op' = [op EXCEPT ![o].pc = pc]

Done(o) == op' = [op EXCEPT ![o] = Idle]

Begin(o, state) ==
    LET others == IF InFlight(state.entity) = {} THEN {} ELSE {state.entity}
    IN  /\ op[o].pc = "idle"
        /\ op' = [op EXCEPT ![o] = state]
        /\ overlapped' = overlapped \cup others
        /\ disturbed' = disturbed \cup others

-----------------------------------------------------------------------------
(* CryptoManager.authenticate and AuthManager.authenticate.  Administrators     *)
(* create, switch off and delete entities at any time, so a request may or may  *)
(* not find its row active; if it does not it ends without a change.            *)

\* Steps 1 and 2.
Authenticate(o) ==
    /\ \E e \in Entity, at \in Time :
         Begin(o, [Idle EXCEPT !.pc = "check", !.entity = e, !.at = at])
    /\ UNCHANGED <<now, keys, used, opened, reopened>>

\* A puzzle is never too old.
Timely_Ever(at) == at <= now + Window

\* The clock of the client may be ahead or behind.
Timely(at) == at <= now + Window /\ now <= at + Window

\* Without the check for an active session.
Check_Again(o) ==
    LET q == op[o]
    IN  /\ q.pc = "check"
        /\ \/ Timely(q.at) /\ Go(o, "read")
           \/ Done(o)
        /\ UNCHANGED <<now, keys, history>>

\* Steps 3 to 9: GET of the session, and the puzzle, which may fail to open with
\* the key of the entity, be too short, or have another P2.
Check(o) ==
    LET q == op[o]
    IN  /\ q.pc = "check"
        /\ \/ ~Live(session[q.entity]) /\ Timely(q.at) /\ Go(o, "read")
           \/ Done(o)
        /\ UNCHANGED <<now, keys, history>>

Manage(o) ==
    /\ \E e \in Entity : Begin(o, [Idle EXCEPT !.pc = "manager", !.entity = e])
    /\ UNCHANGED <<now, keys, used, opened, reopened>>

\* The session, the method of the request, and then an exception at the best,
\* since create_entity_session has none of the parameters ip and user_agent.
Verify(o) ==
    /\ op[o].pc = "manager"
    /\ Done(o)
    /\ UNCHANGED <<now, keys, history>>

-----------------------------------------------------------------------------
(* create_session_with_tokens: delete_session and store_session *)

ReadOld(o) ==
    LET q == op[o]
        old == session[q.entity]
    IN  /\ q.pc = "read"
        /\ op' = [op EXCEPT ![o] =
                    [q EXCEPT !.pc = "delete", !.token = IF Live(old) THEN old.token ELSE None]]
        /\ UNCHANGED <<now, keys, history>>

DeleteSession(o) ==
    LET q == op[o]
    IN  /\ q.pc = "delete"
        /\ session' = [session EXCEPT ![q.entity] = Absent]
        /\ Go(o, IF q.token = None THEN "store" ELSE "delete_refresh")
        /\ UNCHANGED <<now, refresh, history>>

DeleteRefresh(o) ==
    LET q == op[o]
    IN  /\ q.pc = "delete_refresh"
        /\ refresh' = [refresh EXCEPT ![q.token] = NoOwner]
        /\ Go(o, "store")
        /\ UNCHANGED <<now, session, history>>

\* A session without its refresh token.
StoreSession_Alone(o) ==
    LET q == op[o]
        e == q.entity
    IN  /\ q.pc = "store"
        /\ \E t \in Token \ used :
             /\ used' = used \cup {t}
             /\ session' = [session EXCEPT ![e] = [token |-> t, until |-> now + Ttl]]
        /\ Done(o)
        /\ UNCHANGED <<now, refresh, opened, reopened, overlapped, disturbed>>

StoreSession(o) ==
    LET q == op[o]
        e == q.entity
    IN  /\ q.pc = "store"
        /\ \E t \in Token \ used :
             /\ used' = used \cup {t}
             /\ session' = [session EXCEPT ![e] = [token |-> t, until |-> now + Ttl]]
             /\ op' = [op EXCEPT ![o] = [q EXCEPT !.pc = "store_refresh", !.token = t]]
        /\ opened' = [opened EXCEPT ![e] = IF e \in overlapped THEN {} ELSE @ \cup {q.at}]
        /\ reopened' = IF q.at \in opened[e] THEN reopened \cup {e} ELSE reopened
        /\ UNCHANGED <<now, refresh, overlapped, disturbed>>

\* The key and the value of refresh_token:{token} -> id the other way round.
StoreRefresh_Swapped(o) ==
    LET q == op[o]
    IN  /\ q.pc = "store_refresh"
        /\ refresh' = [refresh EXCEPT ![q.token] = [owner |-> q.token, until |-> now + Ttl]]
        /\ Done(o)
        /\ UNCHANGED <<now, session, history>>

\* The answer carries both tokens.
StoreRefresh(o) ==
    LET q == op[o]
    IN  /\ q.pc = "store_refresh"
        /\ refresh' = [refresh EXCEPT ![q.token] = [owner |-> q.entity, until |-> now + Ttl]]
        /\ Done(o)
        /\ UNCHANGED <<now, session, history>>

-----------------------------------------------------------------------------

\* A request ends between two commands: the worker dies, or Valkey does not
\* answer.
Abort(o) ==
    /\ op[o].pc # "idle"
    /\ disturbed' = disturbed \cup {op[o].entity}
    /\ Done(o)
    /\ UNCHANGED <<now, keys, used, opened, reopened, overlapped>>

Tick ==
    /\ now < Horizon
    /\ now' = now + 1
    /\ disturbed' = disturbed \cup {e \in Entity : InFlight(e) # {}}
    /\ UNCHANGED <<keys, op, used, opened, reopened, overlapped>>

Next ==
    \/ \E o \in Slot :
         \/ Authenticate(o) \/ Check(o) \/ Manage(o) \/ Verify(o)
         \/ ReadOld(o) \/ DeleteSession(o) \/ DeleteRefresh(o)
         \/ StoreSession(o) \/ StoreRefresh(o)
         \/ Abort(o)
    \/ Tick

Spec == Init /\ [][Next]_vars

-----------------------------------------------------------------------------
(* Properties *)

\* Between its requests an entity has either no token or one session with the
\* one refresh token that leads to it, and both end together
\* (repository.py, store_session, delete_session).
PairedAtRest ==
    \A e \in Entity \ disturbed : InFlight(e) = {} =>
        \A t \in Token :
            Live(refresh[t]) /\ refresh[t].owner = e
                <=> Live(session[e]) /\ session[e].token = t

\* A puzzle opens one session at most, however often it is delivered: while the
\* session lives it is refused, and afterwards it is too old, since the session
\* lives longer than the window of a puzzle on both sides
\* (CryptoManager.authenticate, steps 3 and 7).
PuzzleOnce == reopened \subseteq overlapped

\* As long as the requests of an entity do not overlap, none of them ends or
\* replaces its live session (step 3 of authenticate comes before
\* delete_session).
NotReplaced ==
    [][\A e \in Entity \ overlapped' :
         Live(session[e]) => session'[e].token = session[e].token]_vars
=============================================================================

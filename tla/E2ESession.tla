----------------------------- MODULE E2ESession -----------------------------
(***************************************************************************)
(* E2E sessions of human accounts: app/shared/e2e/session.py and           *)
(* middleware.py, the /auth endpoints of app/domain/auth, and the client   *)
(* of http/e2e.py.                                                         *)
(*                                                                         *)
(* Every Valkey command is awaited, so other requests run between any two  *)
(* of them: one action is one command and the straight-line code up to the *)
(* next await.  A session record is abstracted to the login it comes from  *)
(* (the session key and the account snapshot are fixed at the login and    *)
(* copied by renewals), and a login is named by the session id it issued.  *)
(***************************************************************************)
EXTENDS Naturals, FiniteSets

CONSTANTS
    SessionId,   \* the uuid4 values; each is generated once
    Client,      \* holders of a session file
    Request,     \* slots for requests in flight
    ClientOf,    \* ClientOf[r]: the client whose requests use slot r
    LogoutBody,  \* LogoutBody[c]: what c sends with a logout, nothing or a clear body
    None

ASSUME ConstantsAssumption ==
    /\ ClientOf \in [Request -> Client]
    /\ LogoutBody \in [Client -> {"empty", "plain"}]
    /\ None \notin SessionId
    /\ None \notin Client
    /\ None \notin [login : SessionId, client : Client]
    /\ None \notin [sid : SessionId, login : SessionId]

VARIABLES
    store,   \* Valkey: store[s] is the login of the record under e2e_session:{s}
    req,     \* the handler state of each request slot
    cred,    \* cred[c]: the session id and key in the session file of client c
    origin,  \* history: the login and the client each id was issued for
    stored   \* history: the ids that have been written to the store

history == <<origin, stored>>

vars == <<store, req, cred, origin, stored>>

Kind == {"login", "call", "renew", "logout"}
Pc == {"idle", "resolve", "lookup", "get", "del", "set", "reply"}
Status == {"none", "200", "400", "401", "429", "500", "503"}

RequestState ==
    [pc : Pc, kind : Kind, sid : SessionId \cup {None},
     login : SessionId \cup {None}, new : SessionId \cup {None}, status : Status]

Arrival(pc, kind, sid) == [pc |-> pc, kind |-> kind, sid |-> sid, login |-> None,
                           new |-> None, status |-> "none"]

Idle == Arrival("idle", "call", None)

TypeOK ==
    /\ store \in [SessionId -> SessionId \cup {None}]
    /\ req \in [Request -> RequestState]
    /\ cred \in [Client -> [sid : SessionId, login : SessionId] \cup {None}]
    /\ origin \in [SessionId -> [login : SessionId, client : Client] \cup {None}]
    /\ stored \subseteq SessionId

Fresh == {s \in SessionId : origin[s] = None}

Init ==
    /\ store = [s \in SessionId |-> None]
    /\ req = [r \in Request |-> Idle]
    /\ cred = [c \in Client |-> None]
    /\ origin = [s \in SessionId |-> None]
    /\ stored = {}

\* The handler of slot r moves on to pc.
Goto(r, pc, login, new) ==
    req' = [req EXCEPT ![r] = [pc |-> pc, kind |-> req[r].kind, sid |-> req[r].sid,
                               login |-> login, new |-> new, status |-> "none"]]

\* A handler answers; an exception of the login becomes a 401.
Reply(r, status, login) ==
    req' = [req EXCEPT ![r] = [pc |-> "reply", kind |-> req[r].kind, sid |-> req[r].sid,
                               login |-> login, new |-> req[r].new, status |-> status]]

-----------------------------------------------------------------------------
(* The client *)

\* cmd_login: the answer to GET /auth/challenge carries no server state, so
\* the handshake starts with POST /auth/login.
SendLogin(r) ==
    /\ req[r].pc = "idle"
    /\ req' = [req EXCEPT ![r] = Arrival("resolve", "login", None)]
    /\ UNCHANGED <<store, cred, history>>

\* cmd_request, cmd_logout and the requests of cmd_run: the id in the session
\* file goes out as X-Session-ID.
Send(r, kind) ==
    /\ req[r].pc = "idle"
    /\ cred[ClientOf[r]] # None
    /\ req' = [req EXCEPT ![r] = Arrival("lookup", kind, cred[ClientOf[r]].sid)]
    /\ UNCHANGED <<store, cred, history>>

\* A client that keeps the id and forgets the key.
ReceiveLogin_NoKey(r) ==
    /\ req[r].kind = "login"
    /\ req[r].status = "200"
    /\ cred' = [cred EXCEPT ![ClientOf[r]] = req[r].new]

\* The answer to a login carries the id and the means to derive the key.
ReceiveLogin(r) ==
    /\ req[r].kind = "login"
    /\ req[r].status = "200"
    /\ cred' = [cred EXCEPT ![ClientOf[r]] = [sid |-> req[r].new, login |-> req[r].login]]

\* The answer to a renewal carries the next id only; the key in the file stays.
ReceiveRenewal(r) ==
    LET c == ClientOf[r]
    IN  /\ req[r].kind = "renew"
        /\ req[r].status = "200"
        /\ cred[c] # None
        /\ cred[c].sid = req[r].sid
        /\ cred' = [cred EXCEPT ![c] = [sid |-> req[r].new, login |-> cred[c].login]]

\* The client clears its file after a logout, whatever the status.
ReceiveLogout(r) ==
    /\ req[r].kind = "logout"
    /\ cred' = [cred EXCEPT ![ClientOf[r]] = None]

\* Calls, failures, and renewals of an id the client has since replaced.
ReceiveOther(r) ==
    /\ \/ req[r].kind = "call"
       \/ req[r].kind \in {"login", "renew"} /\ req[r].status # "200"
       \/ /\ req[r].kind = "renew"
          /\ cred[ClientOf[r]] # None => cred[ClientOf[r]].sid # req[r].sid
    /\ UNCHANGED cred

Receive(r) ==
    /\ req[r].pc = "reply"
    /\ ReceiveLogin(r) \/ ReceiveRenewal(r) \/ ReceiveLogout(r) \/ ReceiveOther(r)
    /\ req' = [req EXCEPT ![r] = Idle]
    /\ UNCHANGED <<store, history>>

-----------------------------------------------------------------------------
(* The server *)

\* LoginService.login: unknown or inactive accounts and payloads that do not
\* decrypt are refused; otherwise the session key is derived and the uuid made.
LoginResolve(r) ==
    /\ req[r].pc = "resolve"
    /\ \/ Reply(r, "401", None) /\ UNCHANGED origin
       \/ \E s \in Fresh :
            /\ Goto(r, "set", s, s)
            /\ origin' = [origin EXCEPT ![s] = [login |-> s, client |-> ClientOf[r]]]
    /\ UNCHANGED <<store, cred, stored>>

\* The body the middleware has to decrypt: only a logout may be sent in the clear.
Undecryptable(r) == req[r].kind = "logout" /\ LogoutBody[ClientOf[r]] = "plain"

\* E2EMiddleware.dispatch up to call_next.
Lookup(r) ==
    /\ req[r].pc = "lookup"
    /\ LET q == req[r]
           l == store[q.sid]
       IN  \/ l = None /\ Reply(r, "401", None)
           \/ l # None /\ Undecryptable(r) /\ Reply(r, "400", l)
           \/ /\ l # None
              /\ ~Undecryptable(r)
              /\ \/ q.kind = "call" /\ Reply(r, "200", l)
                 \/ q.kind = "renew" /\ Goto(r, "get", l, None)
                 \/ q.kind = "logout" /\ Goto(r, "del", l, None)
    /\ UNCHANGED <<store, cred, history>>

\* Valkey raises during the lookup.
LookupFails(r) ==
    /\ req[r].pc = "lookup"
    /\ Reply(r, "503", None)
    /\ UNCHANGED <<store, cred, history>>

\* A renewal that trusts the record the middleware read.
RenewGet_TrustsLookup(r) ==
    /\ req[r].pc = "get"
    /\ Goto(r, "del", req[r].login, None)
    /\ UNCHANGED <<store, cred, history>>

\* renew_session reads the record a second time.
RenewGet(r) ==
    /\ req[r].pc = "get"
    /\ LET l == store[req[r].sid]
       IN  \/ l = None /\ Reply(r, "401", None)
           \/ l # None /\ Goto(r, "del", l, None)
    /\ UNCHANGED <<store, cred, history>>

\* The router counts the request before its handler runs and may turn it away.
RateLimited(r) ==
    /\ \/ req[r].pc \in {"resolve", "get"}
       \/ req[r].pc = "del" /\ req[r].kind = "logout"
    /\ Reply(r, "429", req[r].login)
    /\ UNCHANGED <<store, cred, history>>

\* A Valkey command of the handler, or of the count before it, raises.  One that
\* raises after Valkey carried it out looks to the client like a lost answer.
CommandFails(r) ==
    /\ req[r].pc \in {"resolve", "get", "del", "set"}
    /\ Reply(r, "500", req[r].login)
    /\ UNCHANGED <<store, cred, history>>

\* A logout without its await: the DEL is never sent.
LogoutDelete_NotAwaited(r) ==
    /\ req[r].pc = "del"
    /\ req[r].kind = "logout"
    /\ Reply(r, "200", req[r].login)
    /\ UNCHANGED <<store, cred, history>>

\* DEL of a logout, which ends the request.
LogoutDelete(r) ==
    /\ req[r].pc = "del"
    /\ req[r].kind = "logout"
    /\ store' = [store EXCEPT ![req[r].sid] = None]
    /\ Reply(r, "200", req[r].login)
    /\ UNCHANGED <<cred, history>>

\* A renewal that forgets to delete the id it replaces.
RenewDelete_KeepsOld(r) ==
    /\ req[r].pc = "del"
    /\ req[r].kind = "renew"
    /\ \E s \in Fresh :
         /\ Goto(r, "set", req[r].login, s)
         /\ origin' = [origin EXCEPT ![s] = [login |-> req[r].login,
                                             client |-> ClientOf[r]]]
    /\ UNCHANGED <<store, cred, stored>>

\* A renewal that rewrites the record under the old id.
RenewDelete_SameId(r) ==
    /\ req[r].pc = "del"
    /\ req[r].kind = "renew"
    /\ store' = [store EXCEPT ![req[r].sid] = None]
    /\ Goto(r, "set", req[r].login, req[r].sid)
    /\ UNCHANGED <<cred, history>>

\* A renewal that derives a new session key without telling the client.
RenewDelete_NewKey(r) ==
    /\ req[r].pc = "del"
    /\ req[r].kind = "renew"
    /\ store' = [store EXCEPT ![req[r].sid] = None]
    /\ \E s \in Fresh :
         /\ Goto(r, "set", s, s)
         /\ origin' = [origin EXCEPT ![s] = [login |-> s, client |-> ClientOf[r]]]
    /\ UNCHANGED <<cred, stored>>

\* DEL of a renewal, and the uuid of the next record.  The record written
\* later is the one RenewGet read, whatever happened to the id since.
RenewDelete(r) ==
    /\ req[r].pc = "del"
    /\ req[r].kind = "renew"
    /\ store' = [store EXCEPT ![req[r].sid] = None]
    /\ \E s \in Fresh :
         /\ Goto(r, "set", req[r].login, s)
         /\ origin' = [origin EXCEPT ![s] = [login |-> req[r].login,
                                             client |-> ClientOf[r]]]
    /\ UNCHANGED <<cred, stored>>

\* SETEX of create_session or renew_session.
SetRecord(r) ==
    /\ req[r].pc = "set"
    /\ store' = [store EXCEPT ![req[r].new] = req[r].login]
    /\ stored' = stored \cup {req[r].new}
    /\ Reply(r, "200", req[r].login)
    /\ UNCHANGED <<cred, origin>>

\* The worker dies or the answer is lost.
Abort(r) ==
    /\ req[r].pc # "idle"
    /\ req' = [req EXCEPT ![r] = Idle]
    /\ UNCHANGED <<store, cred, history>>

\* SETEX gave every record a TTL.
Expire(s) ==
    /\ store[s] # None
    /\ store' = [store EXCEPT ![s] = None]
    /\ UNCHANGED <<req, cred, history>>

-----------------------------------------------------------------------------
ClientStep(r) ==
    \/ SendLogin(r)
    \/ \E kind \in {"call", "renew", "logout"} : Send(r, kind)
    \/ Receive(r)

ServerStep(r) ==
    \/ LoginResolve(r)
    \/ Lookup(r)
    \/ LookupFails(r)
    \/ RateLimited(r)
    \/ CommandFails(r)
    \/ RenewGet(r)
    \/ LogoutDelete(r)
    \/ RenewDelete(r)
    \/ SetRecord(r)

Next ==
    \/ \E r \in Request : ClientStep(r) \/ ServerStep(r) \/ Abort(r)
    \/ \E s \in SessionId : Expire(s)

Spec == Init /\ [][Next]_vars

-----------------------------------------------------------------------------
(* Properties *)

\* Every client waits for the answer to one request before it sends the next.
Waiting == \A r, q \in Request : ClientOf[r] = ClientOf[q] => r = q

LiveOf(l) == {s \in SessionId : store[s] = l}

\* A login never has two valid session ids: a renewal takes the old id away
\* before the new one exists (session.py renew_session).  It needs clients
\* that wait for each answer; see the run e2e_concurrent for the other case.
OneLivePerLogin ==
    \A s, t \in SessionId : store[s] # None /\ store[s] = store[t] => s = t

\* The client decrypts with the key it derived at login, across renewals:
\* whenever the id in its file is valid, the record under it holds that key
\* (e2e.py _save_session against session.py renew_session).
ClientHoldsKey ==
    \A c \in Client :
        LET k == cred[c]
        IN  k # None /\ store[k.sid] # None => store[k.sid] = k.login

LogoutAnswered(r) == req[r].kind = "logout" /\ req[r].pc = "reply"

\* "El session-id queda invalidado de inmediato" (docs/manual-usuario.md:186): an
\* id is invalid from the moment a logout of it is answered 200, or 401, and stays
\* so while renewals and logouts of the same id are in flight (auth/controller.py
\* logout).  The answers 400, 429, 500 and 503 leave it valid.  Nothing is said of
\* the login: a renewal that read the record before goes on to write it under a
\* new id (session.py:98-105).
LogoutsEnd ==
    \A r \in Request :
        LogoutAnswered(r) /\ req[r].status \in {"200", "401"} => store[req[r].sid] = None

\* An id that was deleted or has expired is never valid again, although renewals
\* write records they read earlier (session.py renew_session, lines 98-105).
RetiredForGood ==
    [][\A s \in stored : store[s] = None => store'[s] = None]_vars

\* Renewals in progress keep their login alive between DEL and SETEX.
InCustody(l) ==
    {req[r].sid : r \in {q \in Request : /\ req[q].kind = "renew"
                                         /\ req[q].pc \in {"del", "set"}
                                         /\ req[q].login = l}}

\* The login has stored a session.
Opened(l) == \E s \in stored : origin[s].login = l

Valid(l) == LiveOf(l) \cup InCustody(l)

Phase(l) == IF ~Opened(l) THEN "new" ELSE IF Valid(l) # {} THEN "open" ELSE "closed"

Lineage == INSTANCE SessionLineage WITH
    Login <- SessionId,
    Id <- SessionId,
    phase <- [l \in SessionId |-> Phase(l)],
    live <- [l \in SessionId |-> Valid(l)]

\* With clients that wait for each answer the store implements the lineage: one
\* valid id per login, replaced as if atomically, and never one after the end.
ImplementsLineage == Lineage!Spec
=============================================================================

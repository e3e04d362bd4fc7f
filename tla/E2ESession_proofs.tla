-------------------------- MODULE E2ESession_proofs --------------------------
(***************************************************************************)
(* Theorems about E2ESession for every set of ids, clients and slots.      *)
(***************************************************************************)
EXTENDS E2ESession, TLAPS

\* Which fields of a handler are set at each point of its code.
Shape(q) ==
    /\ q.kind = "login" => q.sid = None
    /\ q.login # None => q.sid # None \/ q.new # None
    /\ q.pc \in {"resolve", "lookup", "get", "del"} => q.new = None
    /\ q.pc = "resolve" => q.kind = "login"
    /\ q.pc = "lookup" => q.kind # "login" /\ q.sid # None
    /\ q.pc = "get" => q.kind = "renew" /\ q.sid # None
    /\ q.pc = "del" => q.kind \in {"renew", "logout"} /\ q.sid # None /\ q.login # None
    /\ q.pc = "set" => q.kind \in {"login", "renew"} /\ q.login # None /\ q.new # None
    /\ q.pc = "set" /\ q.kind = "renew" => q.sid # None
    /\ q.pc = "reply" /\ q.kind # "login" => q.sid # None
    /\ q.pc = "reply" /\ q.kind \in {"login", "renew"} /\ q.status = "200" =>
           q.login # None /\ q.new # None

ShapedState == {q \in RequestState : Shape(q)}

HandlersOK == req \in [Request -> ShapedState]

StoresOK ==
    /\ store \in [SessionId -> SessionId \cup {None}]
    /\ cred \in [Client -> [sid : SessionId, login : SessionId] \cup {None}]
    /\ origin \in [SessionId -> [login : SessionId, client : Client] \cup {None}]
    /\ stored \subseteq SessionId

Base == HandlersOK /\ StoresOK

LEMMA BaseType == Base => TypeOK
BY DEF Base, HandlersOK, StoresOK, TypeOK, ShapedState

\* A step that replaces one handler by a well-shaped one keeps HandlersOK.
LEMMA HandlerUpdate ==
    ASSUME HandlersOK, NEW r \in Request, NEW q \in ShapedState,
           req' = [req EXCEPT ![r] = q]
    PROVE  HandlersOK'
BY DEF HandlersOK

LEMMA IdleShaped == Idle \in ShapedState
BY DEF Idle, Arrival, ShapedState, Shape, RequestState, Pc, Kind, Status

\* Goto and Reply yield a well-shaped handler when the one they write is.
LEMMA GotoShaped ==
    ASSUME HandlersOK, NEW r \in Request, NEW pc \in {"get", "del", "set"},
           NEW login \in SessionId \cup {None}, NEW new \in SessionId \cup {None},
           Goto(r, pc, login, new), pc # "set" => new = None,
           pc = "get" => req[r].kind = "renew" /\ req[r].sid # None,
           pc = "del" => req[r].kind \in {"renew", "logout"} /\ req[r].sid # None /\ login # None,
           pc = "set" => req[r].kind \in {"login", "renew"} /\ login # None /\ new # None,
           pc = "set" /\ req[r].kind = "renew" => req[r].sid # None
    PROVE  HandlersOK'
<1> DEFINE q == [pc |-> pc, kind |-> req[r].kind, sid |-> req[r].sid,
                 login |-> login, new |-> new, status |-> "none"]
<1>1. q \in ShapedState
  BY DEF HandlersOK, ShapedState, Shape, RequestState, Pc, Status
<1>2. QED
  BY <1>1, HandlerUpdate DEF Goto

LEMMA ReplyShaped ==
    ASSUME HandlersOK, NEW r \in Request, NEW status \in Status,
           NEW login \in SessionId \cup {None}, Reply(r, status, login),
           req[r].kind # "login" => req[r].sid # None,
           login # None => req[r].sid # None \/ req[r].new # None,
           req[r].kind \in {"login", "renew"} /\ status = "200" =>
               login # None /\ req[r].new # None
    PROVE  HandlersOK'
<1> DEFINE q == [pc |-> "reply", kind |-> req[r].kind, sid |-> req[r].sid,
                 login |-> login, new |-> req[r].new, status |-> status]
<1>1. q \in ShapedState
  BY DEF HandlersOK, ShapedState, Shape, RequestState, Pc
<1>2. QED
  BY <1>1, HandlerUpdate DEF Reply

\* What HandlersOK says of one handler.
LEMMA HandlerFacts ==
    ASSUME HandlersOK, NEW r \in Request
    PROVE  req[r] \in RequestState /\ Shape(req[r])
BY DEF HandlersOK, ShapedState

\* Every step keeps the type of the state and the shape of the handlers.
LEMMA BaseStep == Base /\ [Next]_vars => Base'
<1> SUFFICES ASSUME Base, [Next]_vars PROVE Base'
  OBVIOUS
<1>0. HandlersOK /\ StoresOK
  BY DEF Base
<1> USE ConstantsAssumption DEF StoresOK, history
<1>1. ASSUME NEW r \in Request, ClientStep(r) PROVE Base'
  <2>0. req[r] \in RequestState /\ Shape(req[r])
    BY <1>0, HandlerFacts
  <2>1. CASE SendLogin(r)
    <3>1. Arrival("resolve", "login", None) \in ShapedState
      BY DEF Arrival, ShapedState, Shape, RequestState, Pc, Kind, Status
    <3>2. QED
      BY <1>0, <2>1, <3>1, HandlerUpdate DEF SendLogin, Base
  <2>2. ASSUME NEW kind \in {"call", "renew", "logout"}, Send(r, kind) PROVE Base'
    <3>1. cred[ClientOf[r]].sid \in SessionId
      BY <1>0, <2>2 DEF Send
    <3>2. Arrival("lookup", kind, cred[ClientOf[r]].sid) \in ShapedState
      BY <3>1 DEF Arrival, ShapedState, Shape, RequestState, Pc, Kind, Status
    <3>3. QED
      BY <1>0, <2>2, <3>2, HandlerUpdate DEF Send, Base
  <2>3. CASE Receive(r)
    <3>1. HandlersOK'
      BY <1>0, <2>3, IdleShaped, HandlerUpdate DEF Receive
    <3>2. StoresOK'
      <4>1. CASE ReceiveLogin(r)
        BY <1>0, <2>0, <2>3, <4>1 DEF Receive, ReceiveLogin, RequestState, Shape
      <4>2. CASE ReceiveRenewal(r)
        BY <1>0, <2>0, <2>3, <4>2 DEF Receive, ReceiveRenewal, RequestState, Shape
      <4>3. CASE ReceiveLogout(r)
        BY <1>0, <2>3, <4>3 DEF Receive, ReceiveLogout
      <4>4. CASE ReceiveOther(r)
        BY <1>0, <2>3, <4>4 DEF Receive, ReceiveOther
      <4>5. QED
        BY <2>3, <4>1, <4>2, <4>3, <4>4 DEF Receive
    <3>3. QED
      BY <3>1, <3>2 DEF Base
  <2>4. QED
    BY <1>1, <2>1, <2>2, <2>3 DEF ClientStep
<1>2. ASSUME NEW r \in Request, ServerStep(r) PROVE Base'
  <2>0. req[r] \in RequestState /\ Shape(req[r])
    BY <1>0, HandlerFacts
  <2> USE DEF Fresh
  <2>1. CASE LoginResolve(r)
    <3>1. CASE Reply(r, "401", None) /\ UNCHANGED origin
      <4>1. HandlersOK'
        BY <1>0, <2>0, <2>1, <3>1, ReplyShaped DEF LoginResolve, Shape, Status
      <4>2. QED
        BY <1>0, <2>1, <3>1, <4>1 DEF LoginResolve, Base
    <3>2. CASE \E s \in Fresh :
                 /\ Goto(r, "set", s, s)
                 /\ origin' = [origin EXCEPT ![s] = [login |-> s, client |-> ClientOf[r]]]
      <4>1. HandlersOK'
        BY <1>0, <2>0, <2>1, <3>2, GotoShaped DEF LoginResolve, Shape, Pc
      <4>2. StoresOK'
        BY <1>0, <2>1, <3>2 DEF LoginResolve
      <4>3. QED
        BY <4>1, <4>2 DEF Base
    <3>3. QED
      BY <2>1, <3>1, <3>2 DEF LoginResolve
  <2>2. CASE Lookup(r)
    <3>1. store[req[r].sid] \in SessionId \cup {None} /\ req[r].kind # "login" /\ req[r].sid # None
      BY <1>0, <2>0, <2>2 DEF Lookup, RequestState, Shape
    <3>2. HandlersOK'
      <4> DEFINE l == store[req[r].sid]
      <4>1. CASE \/ Reply(r, "401", None) \/ Reply(r, "400", l)
                 \/ req[r].kind = "call" /\ Reply(r, "200", l)
        BY <1>0, <3>1, <4>1, ReplyShaped DEF Status
      <4>2. CASE req[r].kind = "renew" /\ Goto(r, "get", l, None)
        BY <1>0, <3>1, <4>2, GotoShaped DEF Pc
      <4>3. CASE l # None /\ req[r].kind = "logout" /\ Goto(r, "del", l, None)
        BY <1>0, <3>1, <4>3, GotoShaped DEF Pc
      <4>4. QED
        BY <2>2, <4>1, <4>2, <4>3 DEF Lookup
    <3>3. QED
      BY <1>0, <2>2, <3>2 DEF Lookup, Base
  <2>3. CASE LookupFails(r)
    <3>1. HandlersOK'
      BY <1>0, <2>0, <2>3, ReplyShaped DEF LookupFails, Shape, Status
    <3>2. QED
      BY <1>0, <2>3, <3>1 DEF LookupFails, Base
  <2>4. CASE RenewGet(r)
    <3>1. /\ store[req[r].sid] \in SessionId \cup {None}
          /\ req[r].kind = "renew" /\ req[r].sid # None
      BY <1>0, <2>0, <2>4 DEF RenewGet, RequestState, Shape
    <3>2. HandlersOK'
      <4>1. CASE Reply(r, "401", None)
        BY <1>0, <3>1, <4>1, ReplyShaped DEF Status
      <4>2. CASE store[req[r].sid] # None /\ Goto(r, "del", store[req[r].sid], None)
        BY <1>0, <3>1, <4>2, GotoShaped DEF Pc
      <4>3. QED
        BY <2>4, <4>1, <4>2 DEF RenewGet
    <3>3. QED
      BY <1>0, <2>4, <3>2 DEF RenewGet, Base
  <2>5. CASE LogoutDelete(r)
    <3>1. HandlersOK'
      BY <1>0, <2>0, <2>5, ReplyShaped DEF LogoutDelete, Shape, RequestState, Status
    <3>2. QED
      BY <1>0, <2>5, <3>1 DEF LogoutDelete, Base
  <2>6. CASE RenewDelete(r)
    <3>1. HandlersOK'
      BY <1>0, <2>0, <2>6, GotoShaped DEF RenewDelete, Shape, RequestState, Pc
    <3>2. StoresOK'
      BY <1>0, <2>0, <2>6 DEF RenewDelete, Shape, RequestState
    <3>3. QED
      BY <3>1, <3>2 DEF Base
  <2>7. CASE SetRecord(r)
    <3>1. HandlersOK'
      BY <1>0, <2>0, <2>7, ReplyShaped DEF SetRecord, Shape, RequestState, Status
    <3>2. StoresOK'
      BY <1>0, <2>0, <2>7 DEF SetRecord, Shape, RequestState
    <3>3. QED
      BY <3>1, <3>2 DEF Base
  <2>8. CASE RateLimited(r) \/ CommandFails(r)
    <3>1. HandlersOK'
      BY <1>0, <2>0, <2>8, ReplyShaped DEF RateLimited, CommandFails, Shape, RequestState, Status
    <3>2. QED
      BY <1>0, <2>8, <3>1 DEF RateLimited, CommandFails, Base
  <2>9. QED
    BY <1>2, <2>1, <2>2, <2>3, <2>4, <2>5, <2>6, <2>7, <2>8 DEF ServerStep
<1>3. ASSUME NEW r \in Request, Abort(r) PROVE Base'
  <2>1. HandlersOK'
    BY <1>0, <1>3, IdleShaped, HandlerUpdate DEF Abort
  <2>2. QED
    BY <1>0, <1>3, <2>1 DEF Abort, Base
<1>4. ASSUME NEW s \in SessionId, Expire(s) PROVE Base'
  <2>1. HandlersOK'
    BY <1>0, <1>4 DEF Expire, HandlersOK
  <2>2. QED
    BY <1>0, <1>4, <2>1 DEF Expire, Base
<1>5. CASE UNCHANGED vars
  BY <1>0, <1>5 DEF vars, Base, HandlersOK
<1>6. QED
  BY <1>1, <1>2, <1>3, <1>4, <1>5 DEF Next

LEMMA BaseCorrect == Spec => []Base
<1>1. Init => Base
  <2> SUFFICES ASSUME Init PROVE Base
    OBVIOUS
  <2>1. HandlersOK
    BY IdleShaped DEF Init, HandlersOK
  <2>2. StoresOK
    BY DEF Init, StoresOK
  <2>3. QED
    BY <2>1, <2>2 DEF Base
<1>2. QED
  BY <1>1, BaseStep, PTL DEF Spec

\* The store, the handlers, the session files and the history keep their types.
THEOREM TypeCorrect == Spec => []TypeOK
BY BaseCorrect, BaseType, PTL

-----------------------------------------------------------------------------
(* Ids and logins: every id a part of the state names was issued, and all  *)
(* parts agree on the login it was issued for.                             *)

Issued(s) == origin[s] # None

StoreNames ==
    /\ \A s \in stored : Issued(s)
    /\ \A s \in SessionId : store[s] # None =>
           s \in stored /\ store[s] = origin[s].login

HandlerNames(q) ==
    /\ q.sid # None => Issued(q.sid) /\ (q.login # None => q.login = origin[q.sid].login)
    /\ q.new # None => Issued(q.new) /\ q.login = origin[q.new].login
    /\ q.pc = "set" => q.new \notin stored

RequestNames == \A r \in Request : HandlerNames(req[r])

NewIdsDiffer ==
    \A r, q \in Request :
        req[r].pc = "set" /\ req[q].pc = "set" /\ req[r].new = req[q].new => r = q

CredNames ==
    \A c \in Client : cred[c] # None =>
        Issued(cred[c].sid) /\ cred[c].login = origin[cred[c].sid].login

Names == StoreNames /\ RequestNames /\ NewIdsDiffer /\ CredNames

\* Records are only deleted.
Shrinks == \A s \in SessionId : store'[s] \in {store[s], None}

\* A step that gives no new id keeps the names of the store and the handlers.
LEMMA KeepNames ==
    ASSUME Base, Names, NEW r \in Request, NEW q, req' = [req EXCEPT ![r] = q],
           HandlerNames(q), q.pc # "set", Shrinks, UNCHANGED <<origin, stored>>
    PROVE  StoreNames' /\ RequestNames' /\ NewIdsDiffer'
<1>1. StoreNames'
  BY DEF Names, StoreNames, Issued, Shrinks
<1>2. \A t \in Request : req'[t] = IF t = r THEN q ELSE req[t]
  BY DEF Base, HandlersOK
<1>3. RequestNames'
  BY <1>2 DEF Names, RequestNames, HandlerNames, Issued
<1>4. NewIdsDiffer'
  BY <1>2 DEF Names, NewIdsDiffer
<1>5. QED
  BY <1>1, <1>3, <1>4

LEMMA KeepNamesReply ==
    ASSUME Base, Names, NEW r \in Request, NEW status, NEW login, Reply(r, status, login),
           req[r].new = None \/ login = req[r].login,
           req[r].sid # None /\ login # None => login = origin[req[r].sid].login,
           Shrinks, UNCHANGED <<cred, origin, stored>>
    PROVE  Names'
<1> DEFINE q == [pc |-> "reply", kind |-> req[r].kind, sid |-> req[r].sid,
                 login |-> login, new |-> req[r].new, status |-> status]
<1>1. HandlerNames(req[r])
  BY DEF Names, RequestNames
<1>2. HandlerNames(q) /\ q.pc # "set"
  BY <1>1 DEF HandlerNames
<1>3. StoreNames' /\ RequestNames' /\ NewIdsDiffer'
  BY <1>2, KeepNames DEF Reply
<1>4. QED
  BY <1>3 DEF Names, CredNames, Issued

LEMMA KeepNamesGoto ==
    ASSUME Base, Names, NEW r \in Request, NEW pc \in {"get", "del"}, NEW login,
           Goto(r, pc, login, None),
           req[r].sid # None => login = origin[req[r].sid].login,
           UNCHANGED <<store, cred, origin, stored>>
    PROVE  Names'
<1> DEFINE q == [pc |-> pc, kind |-> req[r].kind, sid |-> req[r].sid,
                 login |-> login, new |-> None, status |-> "none"]
<1>1. HandlerNames(req[r])
  BY DEF Names, RequestNames
<1>2. HandlerNames(q) /\ q.pc # "set"
  BY <1>1 DEF HandlerNames
<1>3. Shrinks
  BY DEF Shrinks
<1>4. StoreNames' /\ RequestNames' /\ NewIdsDiffer'
  BY <1>2, <1>3, KeepNames DEF Goto
<1>5. QED
  BY <1>4 DEF Names, CredNames, Issued

\* A step that draws a fresh id for request r.
LEMMA DrawNames ==
    ASSUME Base, Names, NEW r \in Request, NEW s \in Fresh, NEW login \in SessionId,
           Goto(r, "set", login, s),
           origin' = [origin EXCEPT ![s] = [login |-> login, client |-> ClientOf[r]]],
           req[r].sid # None => login = origin[req[r].sid].login,
           Shrinks, UNCHANGED <<cred, stored>>
    PROVE  Names'
<1> DEFINE q == [pc |-> "set", kind |-> req[r].kind, sid |-> req[r].sid,
                 login |-> login, new |-> s, status |-> "none"]
<1> USE ConstantsAssumption
<1>0. HandlersOK /\ StoresOK /\ StoreNames /\ RequestNames /\ NewIdsDiffer /\ CredNames
  BY DEF Base, Names
<1>1. /\ s \in SessionId /\ origin[s] = None /\ s \notin stored
      /\ \A t \in SessionId : t # s => origin'[t] = origin[t]
      /\ origin'[s] = [login |-> login, client |-> ClientOf[r]] /\ origin'[s] # None
  BY <1>0 DEF Fresh, StoresOK, StoreNames, Issued
<1>2. \A t \in Request : req'[t] = IF t = r THEN q ELSE req[t]
  BY <1>0 DEF HandlersOK, Goto
<1>3. \A t \in Request : HandlerNames(req[t]) /\ req[t] \in RequestState /\ Shape(req[t])
  BY <1>0, HandlerFacts DEF RequestNames
<1>4. StoreNames'
  BY <1>0, <1>1 DEF StoreNames, Issued, Shrinks, StoresOK
<1>5. RequestNames'
  <2> SUFFICES ASSUME NEW t \in Request PROVE HandlerNames(req[t])'
    BY DEF RequestNames
  <2>1. CASE t = r
    BY <1>1, <1>2, <1>3, <2>1 DEF HandlerNames, Issued, RequestState
  <2>2. CASE t # r
    BY <1>1, <1>2, <1>3, <2>2 DEF HandlerNames, Issued, RequestState
  <2>3. QED
    BY <2>1, <2>2
<1>6. NewIdsDiffer'
  <2>1. \A t \in Request : req[t].pc = "set" => req[t].new # s
    BY <1>1, <1>3 DEF HandlerNames, Issued, Shape
  <2>2. QED
    BY <1>0, <1>2, <2>1 DEF NewIdsDiffer
<1>7. CredNames'
  BY <1>0, <1>1 DEF CredNames, Issued, StoresOK
<1>8. QED
  BY <1>4, <1>5, <1>6, <1>7 DEF Names

LEMMA NamesStep == Base /\ Names /\ [Next]_vars => Names'
<1> SUFFICES ASSUME Base, Names, [Next]_vars PROVE Names'
  OBVIOUS
<1>0. HandlersOK /\ StoresOK /\ StoreNames /\ RequestNames /\ NewIdsDiffer /\ CredNames
  BY DEF Base, Names
<1> USE ConstantsAssumption DEF history
<1>1. ASSUME NEW r \in Request, ClientStep(r) PROVE Names'
  <2>0. req[r] \in RequestState /\ Shape(req[r]) /\ HandlerNames(req[r])
    BY <1>0, HandlerFacts DEF RequestNames
  <2>a. UNCHANGED <<store, origin, stored>> /\ Shrinks
    BY <1>1 DEF ClientStep, SendLogin, Send, Receive, Shrinks
  <2>1. CASE SendLogin(r)
    <3>1. HandlerNames(Arrival("resolve", "login", None))
      BY DEF HandlerNames, Arrival
    <3>2. StoreNames' /\ RequestNames' /\ NewIdsDiffer'
      BY <2>1, <2>a, <3>1, KeepNames DEF SendLogin, Arrival
    <3>3. QED
      BY <1>0, <2>1, <2>a, <3>2 DEF SendLogin, Names, CredNames, Issued
  <2>2. ASSUME NEW kind \in {"call", "renew", "logout"}, Send(r, kind) PROVE Names'
    <3>1. HandlerNames(Arrival("lookup", kind, cred[ClientOf[r]].sid))
      BY <1>0, <2>2 DEF Send, HandlerNames, Arrival, CredNames
    <3>2. StoreNames' /\ RequestNames' /\ NewIdsDiffer'
      BY <2>2, <2>a, <3>1, KeepNames DEF Send, Arrival
    <3>3. QED
      BY <1>0, <2>2, <2>a, <3>2 DEF Send, Names, CredNames, Issued
  <2>3. CASE Receive(r)
    <3>1. HandlerNames(Idle) /\ Idle.pc # "set"
      BY DEF HandlerNames, Idle, Arrival
    <3>2. StoreNames' /\ RequestNames' /\ NewIdsDiffer'
      BY <2>3, <2>a, <3>1, KeepNames DEF Receive
    <3>3. CredNames'
      <4> USE DEF CredNames, Issued
      <4>1. CASE ReceiveLogin(r)
        BY <1>0, <2>0, <2>3, <2>a, <4>1 DEF Receive, ReceiveLogin, Shape, HandlerNames, StoresOK
      <4>2. CASE ReceiveRenewal(r)
        BY <1>0, <2>0, <2>3, <2>a, <4>2 DEF Receive, ReceiveRenewal, Shape, HandlerNames, StoresOK
      <4>3. CASE ReceiveLogout(r)
        BY <1>0, <2>3, <2>a, <4>3 DEF Receive, ReceiveLogout, StoresOK
      <4>4. CASE ReceiveOther(r)
        BY <1>0, <2>3, <2>a, <4>4 DEF Receive, ReceiveOther
      <4>5. QED
        BY <2>3, <4>1, <4>2, <4>3, <4>4 DEF Receive
    <3>4. QED
      BY <3>2, <3>3 DEF Names
  <2>4. QED
    BY <1>1, <2>1, <2>2, <2>3 DEF ClientStep
<1>2. ASSUME NEW r \in Request, ServerStep(r) PROVE Names'
  <2>0. req[r] \in RequestState /\ Shape(req[r]) /\ HandlerNames(req[r])
    BY <1>0, HandlerFacts DEF RequestNames
  <2>1. CASE LoginResolve(r)
    <3>0. Shrinks /\ req[r].new = None
      BY <2>0, <2>1 DEF LoginResolve, Shape, Shrinks
    <3>1. CASE Reply(r, "401", None) /\ UNCHANGED origin
      BY <2>1, <3>0, <3>1, KeepNamesReply DEF LoginResolve
    <3>2. ASSUME NEW s \in Fresh, Goto(r, "set", s, s),
                 origin' = [origin EXCEPT ![s] = [login |-> s, client |-> ClientOf[r]]]
          PROVE  Names'
      <4>1. req[r].sid = None
        BY <2>0, <2>1 DEF LoginResolve, Shape
      <4>2. s \in SessionId
        BY DEF Fresh
      <4>3. QED
        BY <2>1, <3>0, <3>2, <4>1, <4>2, DrawNames DEF LoginResolve
    <3>3. QED
      BY <2>1, <3>1, <3>2 DEF LoginResolve
  <2>2. CASE Lookup(r)
    <3>1. store[req[r].sid] # None => store[req[r].sid] = origin[req[r].sid].login
      BY <1>0, <2>0, <2>2 DEF Lookup, Shape, RequestState, StoreNames
    <3>2. Shrinks /\ req[r].new = None
      BY <2>0, <2>2 DEF Lookup, Shape, Shrinks
    <3>3. CASE \E status \in Status, login \in SessionId \cup {None} :
                 /\ Reply(r, status, login)
                 /\ login = None \/ login = store[req[r].sid]
      BY <2>2, <3>1, <3>2, <3>3, KeepNamesReply DEF Lookup
    <3>4. CASE \E pc \in {"get", "del"} :
                 store[req[r].sid] # None /\ Goto(r, pc, store[req[r].sid], None)
      BY <2>2, <3>1, <3>4, KeepNamesGoto DEF Lookup
    <3>5. store[req[r].sid] \in SessionId \cup {None}
      BY <1>0, <2>0, <2>2 DEF Lookup, Shape, RequestState, StoresOK
    <3>6. QED
      BY <2>2, <3>3, <3>4, <3>5 DEF Lookup, Status
  <2>3. CASE LookupFails(r)
    <3>1. Shrinks /\ req[r].new = None
      BY <2>0, <2>3 DEF LookupFails, Shape, Shrinks
    <3>2. QED
      BY <2>3, <3>1, KeepNamesReply DEF LookupFails
  <2>4. CASE RenewGet(r)
    <3>1. store[req[r].sid] # None => store[req[r].sid] = origin[req[r].sid].login
      BY <1>0, <2>0, <2>4 DEF RenewGet, Shape, RequestState, StoreNames
    <3>2. Shrinks /\ req[r].new = None
      BY <2>0, <2>4 DEF RenewGet, Shape, Shrinks
    <3>3. CASE Reply(r, "401", None)
      BY <2>4, <3>2, <3>3, KeepNamesReply DEF RenewGet
    <3>4. CASE store[req[r].sid] # None /\ Goto(r, "del", store[req[r].sid], None)
      BY <2>4, <3>1, <3>4, KeepNamesGoto DEF RenewGet
    <3>5. QED
      BY <2>4, <3>3, <3>4 DEF RenewGet
  <2>5. CASE LogoutDelete(r)
    <3>1. Shrinks
      BY <1>0, <2>5 DEF LogoutDelete, Shrinks, StoresOK
    <3>2. req[r].sid # None /\ req[r].login # None => req[r].login = origin[req[r].sid].login
      BY <2>0 DEF HandlerNames
    <3>3. QED
      BY <2>5, <3>1, <3>2, KeepNamesReply DEF LogoutDelete
  <2>6. CASE RenewDelete(r)
    <3>1. Shrinks
      BY <1>0, <2>6 DEF RenewDelete, Shrinks, StoresOK
    <3>2. req[r].login \in SessionId /\ req[r].login = origin[req[r].sid].login
      BY <2>0, <2>6 DEF RenewDelete, Shape, RequestState, HandlerNames
    <3>3. QED
      BY <2>6, <3>1, <3>2, DrawNames DEF RenewDelete
  <2>7. CASE SetRecord(r)
    <3> DEFINE q == [pc |-> "reply", kind |-> req[r].kind, sid |-> req[r].sid,
                     login |-> req[r].login, new |-> req[r].new, status |-> "200"]
    <3>1. /\ req[r].new \in SessionId /\ req[r].login \in SessionId /\ HandlerNames(q)
          /\ Issued(req[r].new) /\ req[r].login = origin[req[r].new].login
          /\ req[r].pc = "set"
      BY <2>0, <2>7 DEF SetRecord, Shape, RequestState, HandlerNames
    <3>2. \A t \in Request : req'[t] = IF t = r THEN q ELSE req[t]
      BY <1>0, <2>7 DEF SetRecord, Reply, HandlersOK
    <3>3. StoreNames'
      BY <1>0, <2>7, <3>1 DEF SetRecord, StoreNames, Issued, StoresOK
    <3>4. RequestNames'
      <4> SUFFICES ASSUME NEW t \in Request PROVE HandlerNames(req[t])'
        BY DEF RequestNames
      <4>1. CASE t = r
        BY <2>7, <3>1, <3>2, <4>1 DEF SetRecord, HandlerNames, Issued
      <4>2. CASE t # r
        <5>1. req[t].pc = "set" => req[t].new # req[r].new
          BY <1>0, <3>1, <4>2 DEF NewIdsDiffer
        <5>2. QED
          BY <1>0, <2>7, <3>2, <4>2, <5>1 DEF SetRecord, RequestNames, HandlerNames, Issued
      <4>3. QED
        BY <4>1, <4>2
    <3>5. NewIdsDiffer'
      BY <1>0, <3>2 DEF NewIdsDiffer
    <3>6. CredNames'
      BY <1>0, <2>7 DEF SetRecord, CredNames, Issued
    <3>7. QED
      BY <3>3, <3>4, <3>5, <3>6 DEF Names
  <2>8. CASE RateLimited(r) \/ CommandFails(r)
    <3>1. Shrinks
      BY <2>8 DEF RateLimited, CommandFails, Shrinks
    <3>2. req[r].sid # None /\ req[r].login # None => req[r].login = origin[req[r].sid].login
      BY <2>0 DEF HandlerNames
    <3>3. QED
      BY <2>8, <3>1, <3>2, KeepNamesReply DEF RateLimited, CommandFails
  <2>9. QED
    BY <1>2, <2>1, <2>2, <2>3, <2>4, <2>5, <2>6, <2>7, <2>8 DEF ServerStep
<1>3. ASSUME NEW r \in Request, Abort(r) PROVE Names'
  <2>1. HandlerNames(Idle) /\ Idle.pc # "set" /\ Shrinks
    BY <1>3 DEF HandlerNames, Idle, Arrival, Abort, Shrinks
  <2>2. StoreNames' /\ RequestNames' /\ NewIdsDiffer'
    BY <1>3, <2>1, KeepNames DEF Abort
  <2>3. QED
    BY <1>0, <1>3, <2>2 DEF Abort, Names, CredNames, Issued
<1>4. ASSUME NEW s \in SessionId, Expire(s) PROVE Names'
  BY <1>0, <1>4 DEF Expire, Names, StoreNames, RequestNames, HandlerNames, NewIdsDiffer,
                    CredNames, Issued, StoresOK
<1>5. CASE UNCHANGED vars
  BY <1>0, <1>5 DEF vars, Names, StoreNames, RequestNames, HandlerNames, NewIdsDiffer,
                    CredNames, Issued
<1>6. QED
  BY <1>1, <1>2, <1>3, <1>4, <1>5 DEF Next

LEMMA NamesCorrect == Spec => [](Base /\ Names)
<1>1. Init => Names
  BY ConstantsAssumption DEF Init, Names, StoreNames, RequestNames, HandlerNames, NewIdsDiffer,
       CredNames, Idle, Arrival
<1>2. Base /\ Names /\ [Next]_vars => (Base /\ Names)'
  BY BaseStep, NamesStep
<1>3. Base /\ [Next]_vars => Base'
  BY BaseStep
<1>4. QED
  BY <1>1, <1>2, BaseCorrect, PTL DEF Spec

\* The id in a session file, while valid, stands for the key in that file:
\* renewals copy the record and never change the key the client derived.
THEOREM ClientKey == Spec => []ClientHoldsKey
<1>1. Base /\ Names => ClientHoldsKey
  BY DEF Base, StoresOK, Names, StoreNames, CredNames, ClientHoldsKey
<1>2. QED
  BY <1>1, NamesCorrect, PTL

\* A step never makes valid an id that was stored before and is not now.
LEMMA StaysInvalid ==
    ASSUME Base, Names, [Next]_vars, NEW s \in stored, store[s] = None
    PROVE  store'[s] = None
<1>0. s \in SessionId /\ StoresOK /\ HandlersOK
  BY DEF Base, StoresOK
<1>1. ASSUME NEW r \in Request, ClientStep(r) \/ Abort(r) PROVE store' = store
  BY <1>1 DEF ClientStep, SendLogin, Send, Receive, Abort, history
<1>2. ASSUME NEW r \in Request, ServerStep(r) PROVE store'[s] = None
  <2>1. CASE SetRecord(r)
    <3>1. req[r].new \notin stored
      BY <2>1 DEF SetRecord, Names, RequestNames, HandlerNames
    <3>2. QED
      BY <1>0, <2>1, <3>1 DEF SetRecord, StoresOK
  <2>2. CASE LogoutDelete(r) \/ RenewDelete(r)
    BY <1>0, <2>2 DEF LogoutDelete, RenewDelete, StoresOK
  <2>3. CASE \/ LoginResolve(r) \/ Lookup(r) \/ LookupFails(r) \/ RenewGet(r)
             \/ RateLimited(r) \/ CommandFails(r)
    BY <2>3 DEF LoginResolve, Lookup, LookupFails, RenewGet, RateLimited, CommandFails, history
  <2>4. QED
    BY <1>2, <2>1, <2>2, <2>3 DEF ServerStep
<1>3. ASSUME NEW t \in SessionId, Expire(t) PROVE store'[s] = None
  BY <1>0, <1>3 DEF Expire, StoresOK
<1>4. QED
  BY <1>1, <1>2, <1>3 DEF Next, vars

\* Deleted and expired ids are never written again, by any interleaving of any
\* number of renewals: SETEX only ever meets an id that was not stored before.
THEOREM Retired == Spec => RetiredForGood
<1>1. Base /\ Names /\ [Next]_vars => [\A s \in stored : store[s] = None => store'[s] = None]_vars
  BY StaysInvalid
<1>2. QED
  BY <1>1, NamesCorrect, PTL DEF Spec, RetiredForGood

-----------------------------------------------------------------------------
(* Logouts without a body, whatever else is in flight *)

\* The ids that clients hold, send and are answered have been stored.
Stored(q) ==
    /\ q.sid # None => q.sid \in stored
    /\ q.pc = "reply" /\ q.kind \in {"login", "renew"} /\ q.status = "200" => q.new \in stored

SentStored ==
    /\ \A c \in Client : cred[c] # None => cred[c].sid \in stored
    /\ \A r \in Request : Stored(req[r])

LEMMA StoredGrows == Base /\ [Next]_vars => stored \subseteq stored'
<1> SUFFICES ASSUME Base, Next PROVE stored \subseteq stored'
  BY DEF vars
<1> USE DEF history
<1>1. ASSUME NEW r \in Request, ClientStep(r) \/ Abort(r) PROVE stored \subseteq stored'
  BY <1>1 DEF ClientStep, SendLogin, Send, Receive, Abort
<1>2. ASSUME NEW r \in Request, ServerStep(r) PROVE stored \subseteq stored'
  BY <1>2 DEF ServerStep, LoginResolve, Lookup, LookupFails, RateLimited, CommandFails, RenewGet, LogoutDelete,
     RenewDelete, SetRecord
<1>3. ASSUME NEW s \in SessionId, Expire(s) PROVE stored \subseteq stored'
  BY <1>3 DEF Expire
<1> QED BY <1>1, <1>2, <1>3 DEF Next

\* One handler changes; what it and the session files refer to is stored.
LEMMA KeepStored ==
    ASSUME Base, SentStored, NEW r \in Request, NEW q, req' = [req EXCEPT ![r] = q],
           stored \subseteq stored', Stored(q)',
           \A c \in Client : cred'[c] = cred[c] \/ (cred'[c] # None => cred'[c].sid \in stored')
    PROVE  SentStored'
<1>1. \A t \in Request : req'[t] = IF t = r THEN q ELSE req[t]
  BY DEF Base, HandlersOK
<1>2. ASSUME NEW t \in Request PROVE Stored(req[t])'
  BY <1>1 DEF SentStored, Stored
<1>3. \A c \in Client : cred'[c] # None => cred'[c].sid \in stored'
  BY DEF SentStored
<1> QED BY <1>2, <1>3 DEF SentStored

LEMMA SentStoredStep == Base /\ Names /\ SentStored /\ [Next]_vars => SentStored'
<1> SUFFICES ASSUME Base, Names, SentStored, [Next]_vars PROVE SentStored'
  OBVIOUS
<1>0. stored \subseteq stored' /\ HandlersOK /\ StoresOK
  BY StoredGrows DEF Base
<1> USE DEF history
<1>1. ASSUME NEW r \in Request, ClientStep(r) \/ Abort(r) PROVE SentStored'
  <2>0. Stored(req[r]) /\ Shape(req[r])
    BY HandlerFacts, <1>0 DEF SentStored
  <2>1. CASE SendLogin(r)
    <3> DEFINE q == Arrival("resolve", "login", None)
    <3>1. Stored(q)'
      BY DEF Stored, Arrival
    <3> HIDE DEF q
    <3> QED BY <1>0, <2>1, <3>1, KeepStored DEF SendLogin, q
  <2>2. ASSUME NEW kind \in {"call", "renew", "logout"}, Send(r, kind) PROVE SentStored'
    <3>1. ClientOf[r] \in Client /\ cred[ClientOf[r]].sid \in stored
      BY <2>2, ConstantsAssumption DEF Send, SentStored
    <3>2. PICK s \in stored : s = cred[ClientOf[r]].sid
      BY <3>1
    <3> DEFINE q == Arrival("lookup", kind, s)
    <3>3. Stored(q)'
      BY <1>0 DEF Stored, Arrival
    <3>4. req' = [req EXCEPT ![r] = q] /\ cred' = cred
      BY <2>2, <3>2 DEF Send
    <3> HIDE DEF q
    <3> QED BY <1>0, <3>3, <3>4, KeepStored
  <2>3. CASE Receive(r) \/ Abort(r)
    <3>1. req' = [req EXCEPT ![r] = Idle]
      BY <2>3 DEF Receive, Abort
    <3>2. Stored(Idle)'
      BY DEF Stored, Idle, Arrival
    <3>3. ASSUME NEW c \in Client, cred'[c] # cred[c], cred'[c] # None
          PROVE  cred'[c].sid \in stored'
      <4>1. Receive(r) /\ req[r].pc = "reply" /\ (ReceiveLogin(r) \/ ReceiveRenewal(r))
        BY <2>3, <3>3, <1>0 DEF Receive, ReceiveLogout, ReceiveOther, Abort, StoresOK
      <4>2. req[r].new \in stored
        BY <2>0, <4>1 DEF ReceiveLogin, ReceiveRenewal, Stored
      <4> QED BY <1>0, <3>3, <4>1, <4>2 DEF ReceiveLogin, ReceiveRenewal, StoresOK
    <3> HIDE DEF Idle
    <3> QED BY <1>0, <3>1, <3>2, <3>3, KeepStored
  <2> QED BY <1>1, <2>1, <2>2, <2>3 DEF ClientStep
<1>2. ASSUME NEW r \in Request, ServerStep(r) PROVE SentStored'
  <2>0. Stored(req[r]) /\ Shape(req[r])
    BY HandlerFacts, <1>0 DEF SentStored
  <2>1. PICK q : /\ req' = [req EXCEPT ![r] = q] /\ q.sid = req[r].sid
                 /\ q.pc = "reply" /\ q.kind \in {"login", "renew"} /\ q.status = "200"
                      => q.new \in stored'
    <3>1. ASSUME NEW pc \in {"get", "del", "set"}, NEW login, NEW new, Goto(r, pc, login, new)
          PROVE  \E q : /\ req' = [req EXCEPT ![r] = q] /\ q.sid = req[r].sid
                        /\ q.pc = "reply" /\ q.kind \in {"login", "renew"} /\ q.status = "200"
                             => q.new \in stored'
      <4> DEFINE q == [pc |-> pc, kind |-> req[r].kind, sid |-> req[r].sid,
                       login |-> login, new |-> new, status |-> "none"]
      <4>1. q.sid = req[r].sid /\ q.pc # "reply"
        OBVIOUS
      <4>2. req' = [req EXCEPT ![r] = q]
        BY <3>1 DEF Goto
      <4> HIDE DEF q
      <4> QED BY <4>1, <4>2
    <3>2. ASSUME NEW status, NEW login, Reply(r, status, login),
                 req[r].kind \in {"login", "renew"} /\ status = "200" => req[r].new \in stored'
          PROVE  \E q : /\ req' = [req EXCEPT ![r] = q] /\ q.sid = req[r].sid
                        /\ q.pc = "reply" /\ q.kind \in {"login", "renew"} /\ q.status = "200"
                             => q.new \in stored'
      <4> DEFINE q == [pc |-> "reply", kind |-> req[r].kind, sid |-> req[r].sid,
                       login |-> login, new |-> req[r].new, status |-> status]
      <4>1. /\ q.sid = req[r].sid
            /\ q.kind \in {"login", "renew"} /\ q.status = "200" => q.new \in stored'
        BY <3>2
      <4>2. req' = [req EXCEPT ![r] = q]
        BY <3>2 DEF Reply
      <4> HIDE DEF q
      <4> QED BY <4>1, <4>2
    <3>3. CASE SetRecord(r)
      <4>1. Reply(r, "200", req[r].login) /\ req[r].new \in stored'
        BY <3>3 DEF SetRecord
      <4> QED BY <3>2, <4>1
    <3>4. CASE LoginResolve(r)
      BY <3>1, <3>2, <3>4 DEF LoginResolve
    <3>5. CASE Lookup(r)
      <4>1. \/ \E status \in {"401", "400"}, login \in {None, store[req[r].sid]} :
                 Reply(r, status, login)
            \/ req[r].kind = "call" /\ Reply(r, "200", store[req[r].sid])
            \/ \E pc \in {"get", "del"} : Goto(r, pc, store[req[r].sid], None)
        BY <3>5 DEF Lookup
      <4> QED BY <3>1, <3>2, <4>1
    <3>6. CASE LookupFails(r) \/ RenewGet(r) \/ RateLimited(r) \/ CommandFails(r)
      BY <3>1, <3>2, <3>6 DEF LookupFails, RenewGet, RateLimited, CommandFails
    <3>7. CASE LogoutDelete(r) \/ RenewDelete(r)
      BY <3>1, <3>2, <3>7 DEF LogoutDelete, RenewDelete
    <3> QED BY <1>2, <3>3, <3>4, <3>5, <3>6, <3>7 DEF ServerStep
  <2>2. Stored(q)'
    BY <1>0, <2>0, <2>1 DEF Stored
  <2>3. cred' = cred
    BY <1>2 DEF ServerStep, LoginResolve, Lookup, LookupFails, RateLimited, CommandFails, RenewGet, LogoutDelete,
       RenewDelete, SetRecord
  <2> QED BY <1>0, <2>1, <2>2, <2>3, KeepStored
<1>3. CASE \E s \in SessionId : Expire(s)
  BY <1>3 DEF Expire, SentStored, Stored
<1>4. CASE UNCHANGED vars
  BY <1>4 DEF vars, SentStored, Stored
<1> QED BY <1>1, <1>2, <1>3, <1>4 DEF Next

LEMMA LogoutsStep ==
    Base /\ Names /\ SentStored /\ LogoutsEnd /\ [Next]_vars => LogoutsEnd'
<1> SUFFICES ASSUME Base, Names, SentStored, LogoutsEnd, [Next]_vars,
                    NEW r \in Request,
                    LogoutAnswered(r)', req'[r].status \in {"200", "401"}
             PROVE  store'[req'[r].sid] = None
  BY DEF LogoutsEnd
<1>0. HandlersOK /\ StoresOK /\ Stored(req[r]) /\ Shape(req[r])
  BY HandlerFacts DEF Base, SentStored
<1> USE DEF history
\* The answer was on its way already: the id stays invalid.
<1>1. CASE req'[r] = req[r]
  <2>1. store[req[r].sid] = None /\ req[r].sid \in stored
    BY <1>0, <1>1 DEF LogoutsEnd, LogoutAnswered, Shape, Stored
  <2> QED BY <1>1, <2>1, StaysInvalid
\* A logout replies after its DEL, or because the lookup found nothing.
<1>2. ASSUME ServerStep(r) PROVE store'[req'[r].sid] = None
  <2>0. LogoutAnswered(r)'
    OBVIOUS
  <2>1. CASE LogoutDelete(r)
    BY <1>0, <2>1 DEF LogoutDelete, Reply, HandlersOK, StoresOK, ShapedState, Shape, RequestState
  <2>2. CASE Lookup(r)
    BY <1>0, <2>0, <2>2 DEF Lookup, Undecryptable, Reply, Goto, HandlersOK, LogoutAnswered
  <2>3. CASE LookupFails(r) \/ RateLimited(r) \/ CommandFails(r)
    BY <1>0, <2>3 DEF LookupFails, RateLimited, CommandFails, Reply, HandlersOK
  <2>4. CASE LoginResolve(r) \/ SetRecord(r) \/ RenewGet(r) \/ RenewDelete(r)
    BY <1>0, <2>0, <2>4 DEF LoginResolve, SetRecord, RenewGet, RenewDelete, Reply, Goto, Shape,
       HandlersOK, LogoutAnswered
  <2> QED BY <1>2, <2>1, <2>2, <2>3, <2>4 DEF ServerStep
<1>3. ASSUME ClientStep(r) \/ Abort(r) PROVE FALSE
  BY <1>0, <1>3 DEF ClientStep, SendLogin, Send, Receive, Abort, Arrival, Idle, HandlersOK,
     LogoutAnswered
<1>4. ASSUME NEW t \in Request, t # r, ClientStep(t) \/ ServerStep(t) \/ Abort(t)
      PROVE  req'[r] = req[r]
  BY <1>0, <1>4 DEF ClientStep, SendLogin, Send, Receive, Abort, ServerStep, LoginResolve, Lookup,
     LookupFails, RateLimited, CommandFails, RenewGet, LogoutDelete, RenewDelete, SetRecord,
     Goto, Reply, HandlersOK
<1>5. CASE \E s \in SessionId : Expire(s)
  BY <1>1, <1>5 DEF Expire
<1> QED BY <1>1, <1>2, <1>3, <1>4, <1>5 DEF Next, vars

\* A logout answered 200 or 401 has left its id invalid, for any number of
\* clients with any number of renewals and logouts of one id in flight, with
\* expiry and failures (session.py delete_session, auth/controller.py logout).
THEOREM Logouts == Spec => []LogoutsEnd
<1>1. Init => SentStored /\ LogoutsEnd
  BY DEF Init, SentStored, Stored, LogoutsEnd, LogoutAnswered, Idle, Arrival
<1>2. Base /\ Names /\ SentStored /\ LogoutsEnd /\ [Next]_vars
        => SentStored' /\ LogoutsEnd'
  BY SentStoredStep, LogoutsStep
<1>3. QED
  BY <1>1, <1>2, NamesCorrect, PTL DEF Spec

-----------------------------------------------------------------------------
(* Clients that wait for each answer: a login belongs to one client, hence *)
(* at most one request in flight holds its record.                         *)

ClientNames ==
    /\ \A s \in SessionId : Issued(s) =>
           LET l == origin[s].login
           IN  Issued(l) /\ origin[l].client = origin[s].client
    /\ \A r \in Request : req[r].sid # None => origin[req[r].sid].client = ClientOf[r]
    /\ \A r \in Request : req[r].new # None => origin[req[r].new].client = ClientOf[r]
    /\ \A c \in Client : cred[c] # None => origin[cred[c].sid].client = c

LEMMA SoleHolder ==
    ASSUME Waiting, Base, Names, ClientNames, NEW r \in Request, NEW q \in Request,
           req[r].login # None, req[r].login = req[q].login
    PROVE  r = q
<1>1. ASSUME NEW t \in Request, req[t].login # None
      PROVE  origin[req[t].login].client = ClientOf[t]
  <2>1. req[t] \in RequestState /\ Shape(req[t]) /\ HandlerNames(req[t])
    BY HandlerFacts DEF Base, Names, RequestNames
  <2>2. CASE req[t].sid # None
    BY <1>1, <2>1, <2>2 DEF HandlerNames, ClientNames, RequestState
  <2>3. CASE req[t].new # None
    BY <1>1, <2>1, <2>3 DEF HandlerNames, ClientNames, RequestState
  <2>4. QED
    BY <1>1, <2>1, <2>2, <2>3 DEF Shape
<1>2. QED
  BY <1>1 DEF Waiting

\* A step that gives no new id keeps the clients of ids; the handler it changes
\* keeps its id or takes that of the session file.
LEMMA KeepClients ==
    ASSUME Base, Names, ClientNames, NEW r \in Request, NEW q, req' = [req EXCEPT ![r] = q],
           q.sid \in {req[r].sid, None} \/ q.sid = cred[ClientOf[r]].sid,
           q.sid # None => q.sid = req[r].sid \/ cred[ClientOf[r]] # None,
           q.new \in {req[r].new, None}, UNCHANGED <<cred, origin>>
    PROVE  ClientNames'
<1>1. \A t \in Request : req'[t] = IF t = r THEN q ELSE req[t]
  BY DEF Base, HandlersOK
<1>2. ClientOf[r] \in Client
  BY ConstantsAssumption
<1>3. QED
  BY <1>1, <1>2 DEF ClientNames, Issued

LEMMA DrawClients ==
    ASSUME Base, Names, ClientNames, NEW r \in Request, NEW s \in Fresh,
           NEW login \in SessionId, Goto(r, "set", login, s),
           origin' = [origin EXCEPT ![s] = [login |-> login, client |-> ClientOf[r]]],
           login = s \/ (req[r].sid # None /\ login = origin[req[r].sid].login),
           UNCHANGED cred
    PROVE  ClientNames'
<1> DEFINE q == [pc |-> "set", kind |-> req[r].kind, sid |-> req[r].sid,
                 login |-> login, new |-> s, status |-> "none"]
<1> USE ConstantsAssumption
<1>0. HandlersOK /\ StoresOK /\ RequestNames /\ CredNames
  BY DEF Base, Names
<1>1. /\ s \in SessionId /\ origin[s] = None
      /\ \A t \in SessionId : t # s => origin'[t] = origin[t]
      /\ origin'[s] = [login |-> login, client |-> ClientOf[r]]
  BY <1>0 DEF Fresh, StoresOK
<1>2. \A t \in Request : req'[t] = IF t = r THEN q ELSE req[t]
  BY <1>0 DEF HandlersOK, Goto
<1>3. \A t \in Request : HandlerNames(req[t]) /\ req[t] \in RequestState
  BY <1>0, HandlerFacts DEF RequestNames
<1>4. login = s \/ (Issued(login) /\ origin[login].client = ClientOf[r])
  BY <1>1, <1>3 DEF ClientNames, HandlerNames, RequestState
<1>5. \A t \in SessionId : Issued(t) => origin[t].login \in SessionId
  BY <1>0 DEF StoresOK, Issued
<1>6. ASSUME NEW t \in SessionId, Issued(t)'
      PROVE  /\ origin'[origin'[t].login] # None
             /\ origin'[origin'[t].login].client = origin'[t].client
  <2>1. CASE t = s
    BY <1>1, <1>4, <2>1 DEF Issued
  <2>2. CASE t # s
    <3>1. Issued(t) /\ Issued(origin[t].login) /\ origin[t].login # s
      BY <1>1, <1>6, <2>2 DEF Issued, ClientNames
    <3>2. QED
      BY <1>1, <1>5, <2>2, <3>1 DEF ClientNames, Issued
  <2>3. QED
    BY <2>1, <2>2
<1>7. ASSUME NEW t \in Request
      PROVE  /\ req'[t].sid # None => origin'[req'[t].sid].client = ClientOf[t]
             /\ req'[t].new # None => origin'[req'[t].new].client = ClientOf[t]
  <2>1. CASE t = r
    BY <1>1, <1>2, <1>3, <2>1 DEF HandlerNames, Issued, ClientNames, RequestState
  <2>2. CASE t # r
    BY <1>1, <1>2, <1>3, <2>2 DEF HandlerNames, Issued, ClientNames, RequestState
  <2>3. QED
    BY <2>1, <2>2
<1>8. ASSUME NEW c \in Client, cred'[c] # None PROVE origin'[cred'[c].sid].client = c
  BY <1>0, <1>1, <1>8 DEF CredNames, Issued, ClientNames, StoresOK
<1>9. QED
  BY <1>6, <1>7, <1>8 DEF ClientNames, Issued

LEMMA ClientNamesStep == Base /\ Names /\ ClientNames /\ [Next]_vars => ClientNames'
<1> SUFFICES ASSUME Base, Names, ClientNames, [Next]_vars PROVE ClientNames'
  OBVIOUS
<1>0. HandlersOK /\ StoresOK /\ RequestNames
  BY DEF Base, Names
<1> USE ConstantsAssumption DEF history
<1>1. ASSUME NEW r \in Request, ClientStep(r) PROVE ClientNames'
  <2>1. CASE SendLogin(r)
    BY <2>1, KeepClients DEF SendLogin, Arrival
  <2>2. ASSUME NEW kind \in {"call", "renew", "logout"}, Send(r, kind) PROVE ClientNames'
    BY <2>2, KeepClients DEF Send, Arrival
  <2>3. CASE Receive(r)
    <3>1. req[r] \in RequestState /\ Shape(req[r])
      BY <1>0, HandlerFacts
    <3>2. \A t \in Request : req'[t] = IF t = r THEN Idle ELSE req[t]
      BY <1>0, <2>3 DEF Receive, HandlersOK
    <3>3. ASSUME NEW c \in Client, cred'[c] # None PROVE origin[cred'[c].sid].client = c
      <4>1. CASE ReceiveLogin(r)
        BY <1>0, <2>3, <3>1, <3>3, <4>1
           DEF Receive, ReceiveLogin, Shape, StoresOK, ClientNames
      <4>2. CASE ReceiveRenewal(r)
        BY <1>0, <2>3, <3>1, <3>3, <4>2
           DEF Receive, ReceiveRenewal, Shape, StoresOK, ClientNames
      <4>3. CASE ReceiveLogout(r)
        BY <1>0, <3>3, <4>3 DEF ReceiveLogout, StoresOK, ClientNames
      <4>4. CASE ReceiveOther(r)
        BY <3>3, <4>4 DEF ReceiveOther, ClientNames
      <4>5. QED
        BY <2>3, <4>1, <4>2, <4>3, <4>4 DEF Receive
    <3>4. QED
      BY <2>3, <3>2, <3>3 DEF Receive, ClientNames, Issued, Idle, Arrival
  <2>4. QED
    BY <1>1, <2>1, <2>2, <2>3 DEF ClientStep
<1>2. ASSUME NEW r \in Request, ServerStep(r) PROVE ClientNames'
  <2>0. req[r] \in RequestState /\ Shape(req[r]) /\ HandlerNames(req[r])
    BY <1>0, HandlerFacts DEF RequestNames
  <2>1. ASSUME UNCHANGED <<cred, origin>>, NEW status, NEW login, Reply(r, status, login)
        PROVE  ClientNames'
    BY <2>1, KeepClients DEF Reply
  <2>2. ASSUME UNCHANGED <<cred, origin>>, NEW pc, NEW login, Goto(r, pc, login, None)
        PROVE  ClientNames'
    BY <2>2, KeepClients DEF Goto
  <2>3. CASE LoginResolve(r)
    <3>1. ASSUME NEW s \in Fresh, Goto(r, "set", s, s),
                 origin' = [origin EXCEPT ![s] = [login |-> s, client |-> ClientOf[r]]]
          PROVE  ClientNames'
      <4>1. s \in SessionId
        BY DEF Fresh
      <4>2. UNCHANGED cred
        BY <2>3 DEF LoginResolve
      <4>3. QED
        BY <3>1, <4>1, <4>2, DrawClients
    <3>2. QED
      BY <2>1, <2>3, <3>1 DEF LoginResolve
  <2>4. CASE RenewDelete(r)
    <3>1. req[r].sid # None /\ req[r].login \in SessionId
          /\ req[r].login = origin[req[r].sid].login
      BY <2>0, <2>4 DEF RenewDelete, Shape, RequestState, HandlerNames
    <3>2. QED
      BY <2>4, <3>1, DrawClients DEF RenewDelete
  <2>5. CASE Lookup(r) \/ LookupFails(r) \/ RenewGet(r)
    BY <2>1, <2>2, <2>5 DEF Lookup, LookupFails, RenewGet
  <2>6. CASE LogoutDelete(r) \/ SetRecord(r) \/ RateLimited(r) \/ CommandFails(r)
    BY <2>1, <2>6 DEF LogoutDelete, SetRecord, RateLimited, CommandFails
  <2>7. QED
    BY <1>2, <2>3, <2>4, <2>5, <2>6 DEF ServerStep
<1>3. ASSUME NEW r \in Request, Abort(r) PROVE ClientNames'
  BY <1>3, KeepClients DEF Abort, Idle, Arrival
<1>4. ASSUME NEW s \in SessionId, Expire(s) PROVE ClientNames'
  BY <1>4 DEF Expire, ClientNames, Issued
<1>5. CASE UNCHANGED vars
  BY <1>5 DEF vars, ClientNames, Issued
<1>6. QED
  BY <1>1, <1>2, <1>3, <1>4, <1>5 DEF Next

\* What handler q, holding the record of a login, knows of the store st.
Exclusive(st, q) ==
    /\ q.pc = "set" => \A s \in SessionId : st[s] # q.login
    /\ q.pc = "del" => \A s \in SessionId : st[s] = q.login => s = q.sid

SoleLive == OneLivePerLogin /\ \A r \in Request : Exclusive(store, req[r])

\* A step that writes no record keeps SoleLive if the handler it changes is
\* exclusive afterwards.
LEMMA KeepSole ==
    ASSUME Base, SoleLive, NEW r \in Request, NEW q, req' = [req EXCEPT ![r] = q],
           Shrinks, Exclusive(store', q)
    PROVE  SoleLive'
<1>0. \A t \in Request : req'[t] = IF t = r THEN q ELSE req[t]
  BY DEF Base, HandlersOK
<1>1. OneLivePerLogin'
  BY DEF SoleLive, OneLivePerLogin, Shrinks
<1>2. ASSUME NEW t \in Request PROVE Exclusive(store', req'[t])
  <2>1. CASE t = r
    BY <1>0, <2>1
  <2>2. CASE t # r
    <3>1. req[t] \in RequestState /\ Shape(req[t]) /\ Exclusive(store, req[t])
      BY HandlerFacts DEF SoleLive, Base
    <3>2. req'[t] = req[t]
      BY <1>0, <2>2
    <3>3. QED
      BY <3>1, <3>2 DEF Exclusive, Shrinks, Shape
  <2>3. QED
    BY <2>1, <2>2
<1>3. QED
  BY <1>1, <1>2 DEF SoleLive

LEMMA SoleStep ==
    ASSUME Waiting
    PROVE  Base /\ Names /\ ClientNames /\ SoleLive /\ [Next]_vars => SoleLive'
<1> SUFFICES ASSUME Base, Names, ClientNames, SoleLive, [Next]_vars PROVE SoleLive'
  OBVIOUS
<1>0. HandlersOK /\ StoresOK /\ StoreNames /\ RequestNames
  BY DEF Base, Names
<1> USE ConstantsAssumption DEF history
<1>1. ASSUME NEW r \in Request, ClientStep(r) PROVE SoleLive'
  <2>1. Shrinks
    BY <1>1 DEF ClientStep, SendLogin, Send, Receive, Shrinks
  <2>2. CASE SendLogin(r)
    <3>1. Exclusive(store', Arrival("resolve", "login", None))
      BY DEF Exclusive, Arrival
    <3>2. QED
      BY <2>1, <2>2, <3>1, KeepSole DEF SendLogin
  <2>3. ASSUME NEW kind \in {"call", "renew", "logout"}, Send(r, kind) PROVE SoleLive'
    <3>1. Exclusive(store', Arrival("lookup", kind, cred[ClientOf[r]].sid))
      BY DEF Exclusive, Arrival
    <3>2. QED
      BY <2>1, <2>3, <3>1, KeepSole DEF Send
  <2>4. CASE Receive(r)
    <3>1. Exclusive(store', Idle)
      BY DEF Exclusive, Idle, Arrival
    <3>2. QED
      BY <2>1, <2>4, <3>1, KeepSole DEF Receive
  <2>5. QED
    BY <1>1, <2>2, <2>3, <2>4 DEF ClientStep
<1>2. ASSUME NEW r \in Request, ServerStep(r) PROVE SoleLive'
  <2>0. /\ req[r] \in RequestState /\ Shape(req[r])
        /\ HandlerNames(req[r]) /\ Exclusive(store, req[r])
    BY <1>0, HandlerFacts DEF RequestNames, SoleLive
  <2>1. ASSUME Shrinks, NEW status, NEW login, Reply(r, status, login)
        PROVE  SoleLive'
    <3> DEFINE q == [pc |-> "reply", kind |-> req[r].kind, sid |-> req[r].sid,
                     login |-> login, new |-> req[r].new, status |-> status]
    <3>1. Exclusive(store', q)
      BY <2>1 DEF Exclusive
    <3>2. QED
      BY <2>1, <3>1, KeepSole DEF Reply
  <2>2. ASSUME Shrinks, NEW pc \in {"get", "del", "set"}, NEW login, NEW new,
               Goto(r, pc, login, new),
               pc = "set" => \A s \in SessionId : store'[s] # login,
               pc = "del" => \A s \in SessionId : store'[s] = login => s = req[r].sid
        PROVE  SoleLive'
    <3> DEFINE q == [pc |-> pc, kind |-> req[r].kind, sid |-> req[r].sid,
                     login |-> login, new |-> new, status |-> "none"]
    <3>1. Exclusive(store', q)
      BY <2>2 DEF Exclusive
    <3>2. QED
      BY <2>2, <3>1, KeepSole DEF Goto
  <2>3. req[r].sid \in SessionId /\ store[req[r].sid] # None =>
            \A s \in SessionId : store[s] = store[req[r].sid] => s = req[r].sid
    BY DEF SoleLive, OneLivePerLogin
  <2>4. CASE LoginResolve(r)
    <3>1. Shrinks /\ store' = store /\ req[r].kind = "login"
      BY <2>0, <2>4 DEF LoginResolve, Shape, Shrinks
    <3>2. ASSUME NEW s \in Fresh PROVE \A t \in SessionId : store[t] # s
      <4>1. \A t \in SessionId : store[t] # None =>
                store[t] = origin[t].login /\ origin[t] # None
        BY <1>0 DEF StoreNames, Issued
      <4>2. s \in SessionId /\ origin[s] = None
        BY DEF Fresh
      <4>3. QED
        BY <1>0, <4>1, <4>2 DEF ClientNames, Issued
    <3>3. QED
      BY <2>1, <2>2, <2>4, <3>1, <3>2 DEF LoginResolve
  <2>5. CASE Lookup(r)
    <3>1. Shrinks /\ store' = store /\ req[r].sid \in SessionId
      BY <2>0, <2>5 DEF Lookup, Shape, RequestState, Shrinks
    <3>2. CASE \E status \in {"401", "400"}, login \in SessionId \cup {None} :
                 Reply(r, status, login)
      BY <2>1, <3>1, <3>2
    <3>3. CASE req[r].kind = "call" /\ Reply(r, "200", store[req[r].sid])
      BY <2>1, <3>1, <3>3
    <3>4. CASE store[req[r].sid] # None
                 /\ \E pc \in {"get", "del"} : Goto(r, pc, store[req[r].sid], None)
      BY <2>2, <2>3, <3>1, <3>4
    <3>5. store[req[r].sid] \in SessionId \cup {None}
      BY <1>0, <3>1 DEF StoresOK
    <3>6. QED
      BY <2>5, <3>2, <3>3, <3>4, <3>5 DEF Lookup
  <2>6. CASE LookupFails(r)
    <3>1. Shrinks
      BY <2>6 DEF LookupFails, Shrinks
    <3>2. QED
      BY <2>1, <2>6, <3>1 DEF LookupFails
  <2>7. CASE RenewGet(r)
    <3>1. Shrinks /\ store' = store /\ req[r].sid \in SessionId
      BY <2>0, <2>7 DEF RenewGet, Shape, RequestState, Shrinks
    <3>2. QED
      BY <2>1, <2>2, <2>3, <2>7, <3>1 DEF RenewGet
  <2>8. CASE LogoutDelete(r) \/ RateLimited(r) \/ CommandFails(r)
    <3>1. Shrinks
      BY <1>0, <2>8 DEF LogoutDelete, RateLimited, CommandFails, Shrinks, StoresOK
    <3>2. QED
      BY <2>1, <2>8, <3>1 DEF LogoutDelete, RateLimited, CommandFails
  <2>9. CASE RenewDelete(r)
    <3>1. Shrinks /\ req[r].login # None
          /\ \A s \in SessionId : store'[s] # req[r].login
      BY <1>0, <2>0, <2>9 DEF RenewDelete, Exclusive, Shape, Shrinks, StoresOK
    <3>2. QED
      BY <2>2, <2>9, <3>1 DEF RenewDelete
  <2>10. CASE SetRecord(r)
    <3> DEFINE q == [pc |-> "reply", kind |-> req[r].kind, sid |-> req[r].sid,
                     login |-> req[r].login, new |-> req[r].new, status |-> "200"]
    <3>1. /\ req[r].new \in SessionId /\ req[r].login \in SessionId
          /\ req[r].kind # "logout"
          /\ \A s \in SessionId : store[s] # req[r].login
      BY <2>0, <2>10 DEF SetRecord, Shape, RequestState, Exclusive
    <3>2. \A s \in SessionId : store'[s] = IF s = req[r].new THEN req[r].login ELSE store[s]
      BY <1>0, <2>10 DEF SetRecord, StoresOK
    <3>3. \A t \in Request : req'[t] = IF t = r THEN q ELSE req[t]
      BY <1>0, <2>10 DEF SetRecord, Reply, HandlersOK
    <3>4. OneLivePerLogin'
      BY <3>1, <3>2 DEF SoleLive, OneLivePerLogin
    <3>5. ASSUME NEW t \in Request PROVE Exclusive(store', req'[t])
      <4>1. CASE t = r
        BY <3>1, <3>3, <4>1 DEF Exclusive
      <4>2. CASE t # r
        <5>1. Exclusive(store, req[t]) /\ Shape(req[t]) /\ req[t] \in RequestState
          BY <1>0, HandlerFacts DEF SoleLive
        <5>2. req[t].login # req[r].login
          BY <3>1, <4>2, SoleHolder
        <5>3. req'[t] = req[t]
          BY <3>3, <4>2
        <5>4. QED
          BY <3>2, <5>1, <5>2, <5>3 DEF Exclusive
      <4>3. QED
        BY <4>1, <4>2
    <3>6. QED
      BY <3>4, <3>5 DEF SoleLive
  <2>11. QED
    BY <1>2, <2>4, <2>5, <2>6, <2>7, <2>8, <2>9, <2>10 DEF ServerStep
<1>3. ASSUME NEW r \in Request, Abort(r) PROVE SoleLive'
  <2>1. Exclusive(store', Idle) /\ Shrinks
    BY <1>3 DEF Exclusive, Idle, Arrival, Abort, Shrinks
  <2>2. QED
    BY <1>3, <2>1, KeepSole DEF Abort
<1>4. ASSUME NEW s \in SessionId, Expire(s) PROVE SoleLive'
  <2>1. Shrinks /\ req' = req
    BY <1>0, <1>4 DEF Expire, Shrinks, StoresOK
  <2>2. \A t \in Request : Shape(req[t]) /\ Exclusive(store, req[t])
    BY <1>0, HandlerFacts DEF SoleLive
  <2>3. \A t \in Request : Exclusive(store', req[t])
    BY <2>1, <2>2 DEF Exclusive, Shape, Shrinks
  <2>4. OneLivePerLogin'
    BY <2>1 DEF SoleLive, OneLivePerLogin, Shrinks
  <2>5. QED
    BY <2>1, <2>3, <2>4 DEF SoleLive
<1>5. CASE UNCHANGED vars
  BY <1>5 DEF vars, SoleLive, OneLivePerLogin, Exclusive
<1>6. QED
  BY <1>1, <1>2, <1>3, <1>4, <1>5 DEF Next

Sole == Base /\ Names /\ ClientNames /\ SoleLive

LEMMA SoleCorrect ==
    ASSUME Waiting
    PROVE  Spec => []Sole
<1>1. Init => ClientNames /\ SoleLive
  BY ConstantsAssumption DEF Init, ClientNames, Issued, SoleLive, OneLivePerLogin, Exclusive,
       Idle, Arrival
<1>2. Base /\ Names /\ ClientNames /\ SoleLive /\ [Next]_vars => (ClientNames /\ SoleLive)'
  BY ClientNamesStep, SoleStep
<1>3. QED
  BY <1>1, <1>2, NamesCorrect, PTL DEF Spec, Sole

\* With clients that wait for each answer, renewals and logouts interleaved in
\* any way with expiry and failures leave a login at most one valid id.
THEOREM OneLive ==
    ASSUME Waiting
    PROVE  Spec => []OneLivePerLogin
<1>1. Sole => OneLivePerLogin
  BY DEF Sole, SoleLive
<1>2. QED
  BY <1>1, SoleCorrect, PTL

-----------------------------------------------------------------------------
(* Refinement of SessionLineage *)

\* A renewal between its second GET and its SETEX.
Holds(q) == q.kind = "renew" /\ q.pc \in {"del", "set"}

\* Such a renewal found its id in the store, and a login on its way to SETEX is
\* the first to write a session of its lineage.
Registered ==
    /\ \A r \in Request : Holds(req[r]) => req[r].sid \in stored
    /\ \A r \in Request : req[r].kind = "login" /\ req[r].pc = "set" =>
           \A s \in SessionId :
               Issued(s) /\ origin[s].login = req[r].login => s = req[r].new

\* One handler changes.
Handles(r) ==
    /\ \A t \in Request \ {r} : req'[t] = req[t]

\* Every step as the lineage of a login sees it.
Quiet(r) ==
    /\ Handles(r) /\ ~Holds(req[r]) /\ ~Holds(req'[r])
    /\ UNCHANGED <<store, stored>>
    /\ \/ UNCHANGED origin /\ ~(req'[r].kind = "login" /\ req'[r].pc = "set")
       \/ \E s \in Fresh : /\ origin' = [origin EXCEPT ![s] = [login |-> s, client |-> ClientOf[r]]]
                           /\ req'[r].login = s /\ req'[r].new = s

Grabs(r) ==
    /\ Handles(r) /\ ~Holds(req[r])
    /\ req[r].sid \in SessionId /\ store[req[r].sid] # None
    /\ req'[r].kind = "renew" /\ req'[r].pc = "del" /\ req'[r].sid = req[r].sid
    /\ req'[r].login = store[req[r].sid]
    /\ UNCHANGED <<store, stored, origin>>

Drops(r) ==
    /\ Handles(r) /\ Holds(req[r]) /\ ~Holds(req'[r])
    /\ ~(req'[r].kind = "login" /\ req'[r].pc = "set")
    /\ UNCHANGED <<store, stored, origin>>

LogsOut(r) ==
    /\ Handles(r) /\ req[r].kind = "logout" /\ req[r].pc = "del" /\ req[r].login # None
    /\ ~Holds(req'[r]) /\ ~(req'[r].kind = "login" /\ req'[r].pc = "set")
    /\ store' = [store EXCEPT ![req[r].sid] = None]
    /\ UNCHANGED <<stored, origin>>

Exchanges(r) ==
    /\ Handles(r) /\ req[r].kind = "renew" /\ req[r].pc = "del"
    /\ req'[r].kind = "renew" /\ req'[r].pc = "set"
    /\ req'[r].sid = req[r].sid /\ req'[r].login = req[r].login
    /\ store' = [store EXCEPT ![req[r].sid] = None]
    /\ UNCHANGED stored
    /\ \E s \in Fresh :
         origin' = [origin EXCEPT ![s] = [login |-> req[r].login, client |-> ClientOf[r]]]

Writes(r) ==
    /\ Handles(r) /\ req[r].kind \in {"login", "renew"} /\ req[r].pc = "set"
    /\ req[r].login # None /\ req[r].new \in SessionId
    /\ req'[r].pc = "reply"
    /\ store' = [store EXCEPT ![req[r].new] = req[r].login]
    /\ stored' = stored \cup {req[r].new}
    /\ UNCHANGED origin

Lapses(s) ==
    /\ store[s] # None
    /\ store' = [store EXCEPT ![s] = None]
    /\ UNCHANGED <<req, stored, origin>>

LineageStep ==
    \/ \E r \in Request : \/ Quiet(r) \/ Grabs(r) \/ Drops(r)
                          \/ LogsOut(r) \/ Exchanges(r) \/ Writes(r)
    \/ \E s \in SessionId : Lapses(s)

LEMMA Handled ==
    ASSUME Base, NEW r \in Request, NEW q, req' = [req EXCEPT ![r] = q]
    PROVE  Handles(r) /\ req'[r] = q
BY DEF Base, HandlersOK, Handles

LEMMA LineageSteps ==
    ASSUME Base, Next
    PROVE  LineageStep
<1> USE DEF history
<1>0. \A r \in Request : req[r] \in RequestState /\ Shape(req[r])
  BY HandlerFacts DEF Base
<1>1. ASSUME NEW r \in Request, ClientStep(r)
      PROVE  Quiet(r)
  <2>0. req[r].pc \in {"idle", "reply"}
    BY <1>1 DEF ClientStep, SendLogin, Send, Receive
  <2>1. CASE SendLogin(r)
    <3>1. Handles(r) /\ req'[r] = Arrival("resolve", "login", None)
      BY <2>1, Handled DEF SendLogin
    <3>2. QED
      BY <2>0, <2>1, <3>1 DEF SendLogin, Quiet, Holds, Arrival
  <2>2. ASSUME NEW kind \in {"call", "renew", "logout"}, Send(r, kind) PROVE Quiet(r)
    <3>1. Handles(r) /\ req'[r] = Arrival("lookup", kind, cred[ClientOf[r]].sid)
      BY <2>2, Handled DEF Send
    <3>2. QED
      BY <2>0, <2>2, <3>1 DEF Send, Quiet, Holds, Arrival
  <2>3. CASE Receive(r)
    <3>1. Handles(r) /\ req'[r] = Idle
      BY <2>3, Handled DEF Receive
    <3>2. QED
      BY <2>0, <2>3, <3>1 DEF Receive, Quiet, Holds, Idle, Arrival
  <2>4. QED
    BY <1>1, <2>1, <2>2, <2>3 DEF ClientStep
<1>2. ASSUME NEW r \in Request, ServerStep(r)
      PROVE  Quiet(r) \/ Grabs(r) \/ Drops(r) \/ LogsOut(r) \/ Exchanges(r) \/ Writes(r)
  <2>0. req[r] \in RequestState /\ Shape(req[r])
    BY <1>0
  <2>1. ASSUME NEW status, NEW login, Reply(r, status, login)
        PROVE  Handles(r) /\ req'[r].pc = "reply"
    <3> DEFINE q == [pc |-> "reply", kind |-> req[r].kind, sid |-> req[r].sid,
                     login |-> login, new |-> req[r].new, status |-> status]
    <3>1. Handles(r) /\ req'[r] = q
      BY <2>1, Handled DEF Reply
    <3>2. QED
      BY <3>1
  <2>2. ASSUME NEW pc, NEW login, NEW new, Goto(r, pc, login, new)
        PROVE  /\ Handles(r) /\ req'[r].pc = pc /\ req'[r].kind = req[r].kind
               /\ req'[r].sid = req[r].sid /\ req'[r].login = login /\ req'[r].new = new
    <3> DEFINE q == [pc |-> pc, kind |-> req[r].kind, sid |-> req[r].sid,
                     login |-> login, new |-> new, status |-> "none"]
    <3>1. Handles(r) /\ req'[r] = q
      BY <2>2, Handled DEF Goto
    <3>2. QED
      BY <3>1
  <2>3. CASE LoginResolve(r)
    BY <2>0, <2>1, <2>2, <2>3 DEF LoginResolve, Quiet, Holds, Shape
  <2>4. CASE Lookup(r)
    BY <2>0, <2>1, <2>2, <2>4 DEF Lookup, Quiet, Holds, Shape
  <2>5. CASE LookupFails(r)
    BY <2>1, <2>5 DEF LookupFails, Quiet, Holds
  <2>6. CASE RenewGet(r)
    BY <2>0, <2>1, <2>2, <2>6 DEF RenewGet, Quiet, Grabs, Holds, Shape, RequestState
  <2>7. CASE LogoutDelete(r)
    BY <2>0, <2>1, <2>7 DEF LogoutDelete, LogsOut, Holds, Shape
  <2>8. CASE RenewDelete(r)
    BY <2>2, <2>8 DEF RenewDelete, Exchanges
  <2>9. CASE SetRecord(r)
    BY <2>0, <2>1, <2>9 DEF SetRecord, Writes, Shape, RequestState
  <2>10. CASE RateLimited(r) \/ CommandFails(r)
    BY <2>1, <2>10 DEF RateLimited, CommandFails, Quiet, Drops, Holds
  <2>11. QED
    BY <1>2, <2>3, <2>4, <2>5, <2>6, <2>7, <2>8, <2>9, <2>10 DEF ServerStep
<1>3. ASSUME NEW r \in Request, Abort(r)
      PROVE  Quiet(r) \/ Drops(r)
  <2>1. Handles(r) /\ req'[r] = Idle
    BY <1>3, Handled DEF Abort
  <2>2. QED
    BY <1>3, <2>1 DEF Abort, Quiet, Drops, Holds, Idle, Arrival
<1>4. ASSUME NEW s \in SessionId, Expire(s)
      PROVE  Lapses(s)
  BY <1>4 DEF Expire, Lapses
<1>5. QED
  BY <1>1, <1>2, <1>3, <1>4 DEF Next, LineageStep

LEMMA RegisteredStep ==
    ASSUME Waiting, Base, Names, ClientNames, Registered, LineageStep
    PROVE  Registered'
<1> USE ConstantsAssumption
<1>0. /\ StoreNames /\ origin \in [SessionId -> [login : SessionId, client : Client] \cup {None}]
      /\ \A r \in Request : req[r] \in RequestState /\ Shape(req[r]) /\ HandlerNames(req[r])
  BY HandlerFacts DEF Base, StoresOK, Names, RequestNames
<1>1. stored \subseteq stored'
  BY DEF LineageStep, Quiet, Grabs, Drops, LogsOut, Exchanges, Writes, Lapses
<1>2. ASSUME NEW t \in Request, Holds(req'[t]) PROVE req'[t].sid \in stored'
  <2>1. CASE Holds(req[t]) /\ req'[t] = req[t]
    BY <1>1, <2>1 DEF Registered
  <2>2. CASE Grabs(t)
    BY <1>0, <1>1, <2>2 DEF Grabs, StoreNames
  <2>3. CASE Exchanges(t)
    BY <1>1, <2>3 DEF Exchanges, Registered, Holds
  <2>4. QED
    BY <1>2, <2>1, <2>2, <2>3
       DEF LineageStep, Quiet, Drops, LogsOut, Writes, Lapses, Handles, Holds, Grabs, Exchanges
<1>3. ASSUME NEW t \in Request, req'[t].kind = "login", req'[t].pc = "set",
             NEW s \in SessionId, origin'[s] # None, origin'[s].login = req'[t].login
      PROVE  s = req'[t].new
  <2>1. CASE req'[t] = req[t]
    <3>1. /\ req[t].login # None /\ req[t].new \in SessionId
          /\ Issued(req[t].new) /\ req[t].login = origin[req[t].new].login
      BY <1>0, <1>3, <2>1 DEF Shape, HandlerNames, RequestState
    <3>2. Issued(req[t].login) /\ req[t].login \in SessionId
      BY <1>0, <3>1 DEF ClientNames, Issued
    <3>3. CASE origin'[s] = origin[s]
      BY <1>3, <2>1, <3>3 DEF Registered, Issued
    <3>4. CASE origin'[s] # origin[s]
      <4>1. PICK r \in Request : Quiet(r) \/ Exchanges(r)
        BY <3>4 DEF LineageStep, Grabs, Drops, LogsOut, Writes, Lapses
      <4>2. CASE Quiet(r)
        <5>1. origin[s] = None /\ origin'[s].login = s
          BY <1>0, <3>4, <4>2 DEF Quiet, Fresh
        <5>2. QED
          BY <1>3, <2>1, <3>2, <5>1 DEF Issued
      <4>3. CASE Exchanges(r)
        <5>1. origin'[s].login = req[r].login /\ req[r].kind = "renew"
          BY <1>0, <3>4, <4>3 DEF Exchanges, Fresh
        <5>2. r = t
          BY <1>3, <2>1, <3>1, <5>1, SoleHolder
        <5>3. QED
          BY <1>3, <2>1, <5>1, <5>2
      <4>4. QED
        BY <4>1, <4>2, <4>3
    <3>5. QED
      BY <3>3, <3>4
  <2>2. CASE req'[t] # req[t]
    <3>1. PICK n \in Fresh :
            /\ origin' = [origin EXCEPT ![n] = [login |-> n, client |-> ClientOf[t]]]
            /\ req'[t].login = n /\ req'[t].new = n
      BY <1>3, <2>2
         DEF LineageStep, Quiet, Grabs, Drops, LogsOut, Exchanges, Writes, Lapses, Handles
    <3>2. n \in SessionId /\ ~Issued(n)
      BY DEF Fresh, Issued
    <3>3. ASSUME s # n PROVE FALSE
      <4>1. origin'[s] = origin[s]
        BY <1>0, <3>1, <3>3
      <4>2. Issued(origin[s].login)
        BY <1>3, <4>1 DEF ClientNames, Issued
      <4>3. QED
        BY <1>3, <3>1, <3>2, <4>1, <4>2
    <3>4. QED
      BY <3>1, <3>3
  <2>3. QED
    BY <2>1, <2>2
<1>4. QED
  BY <1>2, <1>3 DEF Registered, Issued

-----------------------------------------------------------------------------
(* What the steps do to the abstract state *)

LEMMA PhasesDiffer ==
    ASSUME NEW l \in SessionId
    PROVE  /\ Phase(l) = "new" <=> ~Opened(l)
           /\ Phase(l) = "open" <=> Opened(l) /\ Valid(l) # {}
           /\ Phase(l) = "closed" <=> Opened(l) /\ Valid(l) = {}
BY DEF Phase

\* A login keeps its ids, or does not change at all.
SameValid(l) == Valid(l)' = Valid(l)
Same(l) == SameValid(l) /\ (Opened(l)' <=> Opened(l))

LEMMA SamePhase ==
    ASSUME NEW l \in SessionId, Same(l)
    PROVE  Phase(l)' = Phase(l) /\ Valid(l)' = Valid(l)
BY DEF Same, SameValid, Phase

LEMMA Stutters ==
    ASSUME \A l \in SessionId : Same(l)
    PROVE  UNCHANGED Lineage!lineageVars
<1>1. /\ [l \in SessionId |-> Phase(l)]' = [l \in SessionId |-> Phase(l)]
      /\ [l \in SessionId |-> Valid(l)]' = [l \in SessionId |-> Valid(l)]
  BY SamePhase
<1>2. QED
  BY <1>1 DEF Lineage!lineageVars

LEMMA Opens ==
    ASSUME NEW l \in SessionId, NEW s \in SessionId, \A k \in SessionId \ {l} : Same(k),
           ~Opened(l), Opened(l)', Valid(l)' = {s}
    PROVE  Lineage!Open(l)
<1>1. Phase(l) = "new" /\ Phase(l)' = "open"
  BY DEF Phase
<1>2. \A k \in SessionId \ {l} : Phase(k)' = Phase(k) /\ Valid(k)' = Valid(k)
  BY SamePhase
<1>3. [k \in SessionId |-> Phase(k)]' = [[k \in SessionId |-> Phase(k)] EXCEPT ![l] = "open"]
  BY <1>1, <1>2
<1>4. [k \in SessionId |-> Valid(k)]' = [[k \in SessionId |-> Valid(k)] EXCEPT ![l] = {s}]
  BY <1>2
<1>5. QED
  BY <1>1, <1>3, <1>4 DEF Lineage!Open

LEMMA Renews ==
    ASSUME NEW l \in SessionId, NEW s \in SessionId, \A k \in SessionId \ {l} : Same(k),
           Opened(l), Opened(l)', Valid(l) # {}, s \notin Valid(l), Valid(l)' = {s}
    PROVE  Lineage!Renew(l)
<1>1. Phase(l) = "open" /\ Phase(l)' = "open"
  BY DEF Phase
<1>2. \A k \in SessionId \ {l} : Phase(k)' = Phase(k) /\ Valid(k)' = Valid(k)
  BY SamePhase
<1>3. [k \in SessionId |-> Phase(k)]' = [k \in SessionId |-> Phase(k)]
  BY <1>1, <1>2
<1>4. [k \in SessionId |-> Valid(k)]' = [[k \in SessionId |-> Valid(k)] EXCEPT ![l] = {s}]
  BY <1>2
<1>5. QED
  BY <1>1, <1>3, <1>4 DEF Lineage!Renew

LEMMA Closes ==
    ASSUME NEW l \in SessionId, \A k \in SessionId \ {l} : Same(k),
           Opened(l), Opened(l)', Valid(l) # {}, Valid(l)' = {}
    PROVE  Lineage!Close(l)
<1>1. Phase(l) = "open" /\ Phase(l)' = "closed"
  BY DEF Phase
<1>2. \A k \in SessionId \ {l} : Phase(k)' = Phase(k) /\ Valid(k)' = Valid(k)
  BY SamePhase
<1>3. [k \in SessionId |-> Phase(k)]' = [[k \in SessionId |-> Phase(k)] EXCEPT ![l] = "closed"]
  BY <1>1, <1>2
<1>4. [k \in SessionId |-> Valid(k)]' = [[k \in SessionId |-> Valid(k)] EXCEPT ![l] = {}]
  BY <1>2
<1>5. QED
  BY <1>1, <1>3, <1>4 DEF Lineage!Close

LEMMA CustodyFrame ==
    ASSUME NEW r \in Request, Handles(r), NEW l \in SessionId,
           Holds(req[r]) => req[r].login # l, Holds(req'[r]) => req'[r].login # l
    PROVE  InCustody(l)' = InCustody(l)
BY DEF Handles, Holds, InCustody

LEMMA OpenedFrame ==
    ASSUME stored' = stored, \A s \in stored : origin'[s] = origin[s], NEW l \in SessionId
    PROVE  Opened(l)' <=> Opened(l)
BY DEF Opened

\* The login of a renewal that holds it has the one valid id that the renewal
\* takes with it.
LEMMA Custody ==
    ASSUME Waiting, Sole, Registered, NEW r \in Request, Holds(req[r])
    PROVE  /\ req[r].sid \in stored /\ req[r].sid \in SessionId /\ req[r].login \in SessionId
           /\ Opened(req[r].login)
           /\ InCustody(req[r].login) = {req[r].sid}
           /\ LiveOf(req[r].login) \subseteq {req[r].sid}
           /\ req[r].pc = "set" => LiveOf(req[r].login) = {}
           /\ Valid(req[r].login) = {req[r].sid}
<1>1. /\ req[r] \in RequestState /\ Shape(req[r]) /\ HandlerNames(req[r])
      /\ Exclusive(store, req[r]) /\ stored \subseteq SessionId
  BY HandlerFacts DEF Sole, Base, StoresOK, Names, RequestNames, SoleLive
<1>2. /\ req[r].sid \in stored /\ req[r].login \in SessionId
      /\ req[r].login = origin[req[r].sid].login
  BY <1>1 DEF Registered, Holds, Shape, RequestState, HandlerNames
<1>3. Opened(req[r].login)
  BY <1>2 DEF Opened
<1>4. \A q \in Request : Holds(req[q]) /\ req[q].login = req[r].login => q = r
  BY <1>2, SoleHolder, ConstantsAssumption DEF Sole
<1>5. InCustody(req[r].login) = {req[r].sid}
  BY <1>4 DEF InCustody, Holds
<1>6. /\ LiveOf(req[r].login) \subseteq {req[r].sid}
      /\ req[r].pc = "set" => LiveOf(req[r].login) = {}
  BY <1>1 DEF Exclusive, Holds, LiveOf
<1>7. QED
  BY <1>1, <1>2, <1>3, <1>5, <1>6 DEF Valid

\* A request that has a login but does not hold it leaves no custody of it.
LEMMA NoCustody ==
    ASSUME Waiting, Sole, NEW r \in Request, req[r].login # None, ~Holds(req[r])
    PROVE  InCustody(req[r].login) = {}
<1>1. \A q \in Request : Holds(req[q]) /\ req[q].login = req[r].login => q = r
  BY SoleHolder DEF Sole
<1>2. QED
  BY <1>1 DEF InCustody, Holds

\* After the step the request of r alone can hold its login.
LEMMA CustodyAfter ==
    ASSUME Waiting, Sole, NEW r \in Request, Handles(r), req[r].login # None,
           NEW l \in SessionId, req[r].login = l
    PROVE  /\ ~Holds(req'[r]) => InCustody(l)' = {}
           /\ Holds(req'[r]) /\ req'[r].login = l => InCustody(l)' = {req'[r].sid}
<1>1. \A q \in Request \ {r} : req'[q] = req[q] /\ req[q].login # l
  BY SoleHolder DEF Sole, Handles
<1>2. QED
  BY <1>1 DEF InCustody, Holds

LEMMA StepRefines ==
    ASSUME Waiting, Sole, Registered, LineageStep
    PROVE  Lineage!Next \/ UNCHANGED Lineage!lineageVars
<1> USE ConstantsAssumption
<1>0. /\ StoresOK /\ StoreNames /\ OneLivePerLogin
      /\ \A r \in Request : /\ req[r] \in RequestState /\ Shape(req[r])
                            /\ HandlerNames(req[r]) /\ Exclusive(store, req[r])
  BY HandlerFacts DEF Sole, Base, Names, RequestNames, SoleLive
<1>n. ASSUME NEW l \in SessionId, Lineage!Open(l) \/ Lineage!Renew(l) \/ Lineage!Close(l)
      PROVE  Lineage!Next
  BY <1>n DEF Lineage!Next
<1>1. ASSUME NEW r \in Request, Quiet(r)
      PROVE  UNCHANGED Lineage!lineageVars
  <2>1. \A s \in stored : origin'[s] = origin[s]
    BY <1>0, <1>1 DEF Quiet, Fresh, StoreNames, Issued, StoresOK
  <2>2. ASSUME NEW l \in SessionId PROVE Same(l)
    <3>1. InCustody(l)' = InCustody(l) /\ (Opened(l)' <=> Opened(l))
      BY <1>1, <2>1, CustodyFrame, OpenedFrame DEF Quiet
    <3>2. LiveOf(l)' = LiveOf(l)
      BY <1>1 DEF Quiet, LiveOf
    <3>3. QED
      BY <3>1, <3>2 DEF Same, SameValid, Valid
  <2>3. QED
    BY <2>2, Stutters
<1>2. ASSUME NEW r \in Request, Grabs(r)
      PROVE  UNCHANGED Lineage!lineageVars
  <2> DEFINE s == req[r].sid
  <2>1. /\ s \in SessionId /\ Handles(r) /\ ~Holds(req[r]) /\ store[s] # None
        /\ req'[r].sid = s /\ req'[r].login = store[s] /\ Holds(req'[r])
        /\ UNCHANGED <<store, stored, origin>>
    BY <1>2 DEF Grabs, Holds
  <2>2. ASSUME NEW l \in SessionId PROVE Same(l)
    <3>1. LiveOf(l)' = LiveOf(l) /\ (Opened(l)' <=> Opened(l))
      BY <2>1, OpenedFrame DEF LiveOf
    <3>2. CASE l # store[s]
      BY <2>1, <3>1, <3>2, CustodyFrame DEF Same, SameValid, Valid
    <3>3. CASE l = store[s]
      <4>1. s \in LiveOf(l)
        BY <2>1, <3>3 DEF LiveOf
      <4>2. InCustody(l)' = InCustody(l) \cup {s}
        BY <2>1, <3>3 DEF InCustody, Handles, Holds
      <4>3. QED
        BY <3>1, <4>1, <4>2 DEF Same, SameValid, Valid
    <3>4. QED
      BY <3>2, <3>3
  <2>3. QED
    BY <2>2, Stutters
<1>3. ASSUME NEW r \in Request, Drops(r)
      PROVE  Lineage!Next \/ UNCHANGED Lineage!lineageVars
  <2>1. /\ Handles(r) /\ Holds(req[r]) /\ ~Holds(req'[r])
        /\ UNCHANGED <<store, stored, origin>>
    BY <1>3 DEF Drops
  <2>2. PICK l \in SessionId : l = req[r].login
    BY <2>1, Custody
  <2>3. /\ Opened(l) /\ Valid(l) = {req[r].sid} /\ LiveOf(l) \subseteq {req[r].sid}
        /\ InCustody(l)' = {}
    BY <2>1, <2>2, Custody, CustodyAfter
  <2>4. \A k \in SessionId : LiveOf(k)' = LiveOf(k) /\ (Opened(k)' <=> Opened(k))
    BY <2>1, OpenedFrame DEF LiveOf
  <2>5. \A k \in SessionId \ {l} : Same(k)
    BY <2>1, <2>2, <2>4, CustodyFrame DEF Same, SameValid, Valid
  <2>6. CASE LiveOf(l) = {}
    <3>1. Lineage!Close(l)
      BY <2>3, <2>4, <2>5, <2>6, Closes DEF Valid
    <3>2. QED
      BY <1>n, <3>1
  <2>7. CASE LiveOf(l) # {}
    <3>1. Valid(l)' = Valid(l)
      BY <2>3, <2>4, <2>7 DEF Valid
    <3>2. Same(l)
      BY <2>4, <3>1 DEF Same, SameValid
    <3>3. QED
      BY <2>5, <3>2, Stutters
  <2>8. QED
    BY <2>6, <2>7
<1>4. ASSUME NEW r \in Request, LogsOut(r)
      PROVE  Lineage!Next \/ UNCHANGED Lineage!lineageVars
  <2> DEFINE s == req[r].sid
  <2>1. /\ Handles(r) /\ ~Holds(req[r]) /\ ~Holds(req'[r]) /\ req[r].pc = "del"
        /\ store' = [store EXCEPT ![s] = None] /\ UNCHANGED <<stored, origin>>
        /\ s \in SessionId /\ req[r].login \in SessionId /\ req[r].login = origin[s].login
    BY <1>0, <1>4 DEF LogsOut, Holds, Shape, RequestState, HandlerNames
  <2>2. PICK l \in SessionId : l = req[r].login
    BY <2>1
  <2>3. \A t \in SessionId : store'[t] = IF t = s THEN None ELSE store[t]
    BY <1>0, <2>1 DEF StoresOK
  <2>4. InCustody(l) = {} /\ LiveOf(l) \subseteq {s} /\ store[s] \in {None, l}
    BY <1>0, <2>1, <2>2, NoCustody DEF Exclusive, LiveOf, StoreNames
  <2>5. LiveOf(l)' = {}
    BY <2>3, <2>4 DEF LiveOf
  <2>6. \A k \in SessionId : InCustody(k)' = InCustody(k) /\ (Opened(k)' <=> Opened(k))
    BY <2>1, OpenedFrame, CustodyFrame
  <2>7. \A k \in SessionId \ {l} : LiveOf(k)' = LiveOf(k)
    BY <2>3, <2>4 DEF LiveOf
  <2>8. \A k \in SessionId \ {l} : Same(k)
    BY <2>6, <2>7 DEF Same, SameValid, Valid
  <2>9. CASE LiveOf(l) = {}
    <3>1. Same(l)
      BY <2>5, <2>6, <2>9 DEF Same, SameValid, Valid
    <3>2. QED
      BY <2>8, <3>1, Stutters
  <2>10. CASE LiveOf(l) # {}
    <3>1. store[s] = l
      BY <2>4, <2>10 DEF LiveOf
    <3>2. Opened(l)
      BY <1>0, <2>1, <2>2, <3>1 DEF StoreNames, Opened
    <3>3. Valid(l) # {} /\ Valid(l)' = {}
      BY <2>4, <2>5, <2>6, <2>10 DEF Valid
    <3>4. Lineage!Close(l)
      BY <2>6, <2>8, <3>2, <3>3, Closes
    <3>5. QED
      BY <1>n, <3>4
  <2>11. QED
    BY <2>9, <2>10
<1>5. ASSUME NEW r \in Request, Exchanges(r)
      PROVE  UNCHANGED Lineage!lineageVars
  <2> DEFINE s == req[r].sid
  <2>1. /\ Handles(r) /\ Holds(req[r]) /\ Holds(req'[r])
        /\ req'[r].sid = s /\ req'[r].login = req[r].login
        /\ store' = [store EXCEPT ![s] = None] /\ stored' = stored
    BY <1>5 DEF Exchanges, Holds
  <2>2. PICK l \in SessionId : l = req[r].login
    BY <2>1, Custody
  <2>3. s \in SessionId /\ Valid(l) = {s} /\ LiveOf(l) \subseteq {s}
    BY <2>1, <2>2, Custody
  <2>4. \A t \in stored : origin'[t] = origin[t]
    BY <1>0, <1>5 DEF Exchanges, Fresh, StoreNames, Issued, StoresOK
  <2>5. \A t \in SessionId : store'[t] = IF t = s THEN None ELSE store[t]
    BY <1>0, <2>1 DEF StoresOK
  <2>6. store[s] \in {None, l}
    BY <1>0, <2>2, <2>3 DEF StoreNames, HandlerNames
  <2>7. InCustody(l)' = {s} /\ LiveOf(l)' = {}
    <3>1. InCustody(l)' = {s}
      BY <2>1, <2>2, CustodyAfter
    <3>2. QED
      BY <2>3, <2>5, <3>1 DEF LiveOf
  <2>8. \A k \in SessionId : Opened(k)' <=> Opened(k)
    BY <2>1, <2>4, OpenedFrame
  <2>9. \A k \in SessionId \ {l} : LiveOf(k)' = LiveOf(k) /\ InCustody(k)' = InCustody(k)
    <3>1. \A k \in SessionId \ {l} : InCustody(k)' = InCustody(k)
      BY <2>1, <2>2, CustodyFrame
    <3>2. QED
      BY <2>5, <2>6, <3>1 DEF LiveOf
  <2>10. \A k \in SessionId : Same(k)
    BY <2>3, <2>7, <2>8, <2>9 DEF Same, SameValid, Valid
  <2>11. QED
    BY <2>10, Stutters
<1>6. ASSUME NEW r \in Request, Writes(r)
      PROVE  Lineage!Next
  <2> DEFINE n == req[r].new
  <2>1. /\ Handles(r) /\ ~Holds(req'[r]) /\ req[r].pc = "set" /\ n \in SessionId
        /\ store' = [store EXCEPT ![n] = req[r].login] /\ stored' = stored \cup {n}
        /\ origin' = origin /\ req[r].login \in SessionId
    BY <1>0, <1>6 DEF Writes, Holds, RequestState
  <2>2. PICK l \in SessionId : l = req[r].login
    BY <2>1
  <2>3. n \notin stored /\ origin[n].login = l /\ store[n] = None
    BY <1>0, <2>1, <2>2 DEF HandlerNames, StoreNames, Shape
  <2>4. \A t \in SessionId : store'[t] = IF t = n THEN l ELSE store[t]
    BY <1>0, <2>1, <2>2 DEF StoresOK
  <2>5. LiveOf(l) = {} /\ LiveOf(l)' = {n}
    BY <1>0, <2>1, <2>2, <2>4 DEF Exclusive, LiveOf
  <2>6. InCustody(l)' = {} /\ Opened(l)'
    <3>1. InCustody(l)' = {}
      BY <2>1, <2>2, CustodyAfter
    <3>2. QED
      BY <2>1, <2>3, <3>1 DEF Opened
  <2>7. Valid(l)' = {n}
    BY <2>5, <2>6 DEF Valid
  <2>8. ASSUME NEW k \in SessionId \ {l} PROVE Same(k)
    <3>1. LiveOf(k)' = LiveOf(k)
      BY <2>3, <2>4 DEF LiveOf
    <3>2. InCustody(k)' = InCustody(k)
      BY <2>1, <2>2, CustodyFrame
    <3>3. Opened(k)' <=> Opened(k)
      BY <2>1, <2>3 DEF Opened
    <3>4. QED
      BY <3>1, <3>2, <3>3 DEF Same, SameValid, Valid
  <2>9. CASE req[r].kind = "login"
    <3>1. InCustody(l) = {}
      BY <2>1, <2>2, <2>9, NoCustody DEF Holds
    <3>2. ~Opened(l)
      BY <1>0, <2>1, <2>2, <2>3, <2>9 DEF Opened, Registered, StoreNames, StoresOK
    <3>3. Lineage!Open(l)
      BY <2>1, <2>6, <2>7, <2>8, <3>2, Opens
    <3>4. QED
      BY <1>n, <3>3
  <2>10. CASE req[r].kind = "renew"
    <3>1. Holds(req[r])
      BY <2>1, <2>10 DEF Holds
    <3>2. Opened(l) /\ Valid(l) = {req[r].sid} /\ req[r].sid \in stored
      BY <2>2, <3>1, Custody
    <3>3. Lineage!Renew(l)
      BY <2>1, <2>3, <2>6, <2>7, <2>8, <3>2, Renews
    <3>4. QED
      BY <1>n, <3>3
  <2>11. QED
    BY <1>6, <2>9, <2>10 DEF Writes
<1>7. ASSUME NEW s \in SessionId, Lapses(s)
      PROVE  Lineage!Next \/ UNCHANGED Lineage!lineageVars
  <2>1. store[s] # None /\ store' = [store EXCEPT ![s] = None]
        /\ UNCHANGED <<req, stored, origin>>
    BY <1>7 DEF Lapses
  <2>2. PICK l \in SessionId : l = store[s]
    BY <1>0, <2>1 DEF StoresOK
  <2>3. \A t \in SessionId : store'[t] = IF t = s THEN None ELSE store[t]
    BY <1>0, <2>1 DEF StoresOK
  <2>4. LiveOf(l) = {s} /\ LiveOf(l)' = {} /\ Opened(l)
    BY <1>0, <2>1, <2>2, <2>3 DEF OneLivePerLogin, LiveOf, StoreNames, Opened
  <2>5. \A k \in SessionId : InCustody(k)' = InCustody(k) /\ (Opened(k)' <=> Opened(k))
    BY <2>1, OpenedFrame DEF InCustody
  <2>6. \A k \in SessionId \ {l} : Same(k)
    BY <2>2, <2>3, <2>5 DEF LiveOf, Same, SameValid, Valid
  <2>7. CASE InCustody(l) = {}
    <3>1. Lineage!Close(l)
      BY <2>4, <2>5, <2>6, <2>7, Closes DEF Valid
    <3>2. QED
      BY <1>n, <3>1
  <2>8. CASE InCustody(l) # {}
    <3>1. PICK r \in Request : Holds(req[r]) /\ req[r].login = l
      BY <2>8 DEF InCustody, Holds
    <3>2. InCustody(l) = {req[r].sid} /\ Valid(l) = {req[r].sid}
      BY <3>1, Custody
    <3>3. Same(l)
      BY <2>4, <2>5, <3>2 DEF Valid, Same, SameValid
    <3>4. QED
      BY <2>6, <3>3, Stutters
  <2>9. QED
    BY <2>7, <2>8
<1>8. QED
  BY <1>1, <1>2, <1>3, <1>4, <1>5, <1>6, <1>7 DEF LineageStep

\* With clients that wait for each answer, the commands to Valkey of concurrent
\* logins, renewals and logouts, with expiry and failures between them, do what
\* the manual promises of a login: one valid id, exchanged as if atomically, and
\* none after the end (session.py create_session, renew_session, delete_session).
THEOREM StoreImplementsLineage ==
    ASSUME Waiting
    PROVE  Spec => ImplementsLineage
<1>1. Init => Registered /\ Lineage!Init
  <2> SUFFICES ASSUME Init PROVE Registered /\ Lineage!Init
    OBVIOUS
  <2>1. \A r \in Request : req[r].pc = "idle"
    BY DEF Init, Idle, Arrival
  <2>2. Registered
    BY <2>1 DEF Registered, Holds
  <2>3. \A l \in SessionId : Phase(l) = "new" /\ Valid(l) = {}
    BY <2>1, ConstantsAssumption DEF Init, Phase, Opened, Valid, LiveOf, InCustody
  <2>4. QED
    BY <2>2, <2>3 DEF Lineage!Init
<1>2. Sole /\ Registered /\ [Next]_vars => Registered'
  <2>1. Sole /\ Registered /\ UNCHANGED vars => Registered'
    BY DEF vars, Registered, Issued
  <2>2. QED
    BY <2>1, LineageSteps, RegisteredStep DEF Sole
<1>3. Sole /\ Registered /\ [Next]_vars => [Lineage!Next]_(Lineage!lineageVars)
  <2>1. ASSUME UNCHANGED vars PROVE UNCHANGED Lineage!lineageVars
    <3>1. \A l \in SessionId : Same(l)
      BY <2>1 DEF vars, Same, SameValid, Valid, LiveOf, InCustody, Opened
    <3>2. QED
      BY <3>1, Stutters
  <2>2. QED
    BY <2>1, LineageSteps, StepRefines DEF Sole
<1>4. QED
  BY <1>1, <1>2, <1>3, SoleCorrect, PTL DEF Spec, ImplementsLineage, Lineage!Spec
=============================================================================

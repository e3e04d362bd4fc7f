---------------------------- MODULE MCE2ESession ----------------------------
(* Instances of E2ESession: slots named after the client they belong to.   *)
EXTENDS E2ESession, TLC

CONSTANTS a1, a2, b1, alice, bob

\* One request at a time: every client waits for its answer.
WaitingClients == a1 :> alice @@ b1 :> bob

\* Alice has two requests in flight (two tabs, or a retry after a timeout).
ConcurrentClient == a1 :> alice @@ a2 :> alice

\* Bob logs out as http/e2e.py does, with a JSON body in the clear.
BothBodies == alice :> "empty" @@ bob :> "plain"
EmptyBody == [c \in Client |-> "empty"]
=============================================================================

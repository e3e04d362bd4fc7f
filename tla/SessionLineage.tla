--------------------------- MODULE SessionLineage ---------------------------
(***************************************************************************)
(* What the E2E session store promises about one login.                    *)
(*                                                                         *)
(* A login opens a lineage with one valid session id.  A renewal replaces  *)
(* that id by another one in a single step ("emite un nuevo session_id con *)
(* TTL fresco e invalida el anterior atomicamente", manual-interno.md).    *)
(* A logout, the TTL or a failure closes the lineage, and a closed lineage *)
(* never has a valid id again.                                             *)
(***************************************************************************)
CONSTANTS Login, Id

VARIABLES
    phase,  \* phase[l]: has login l obtained a session, and does it still have one
    live    \* live[l]: the session ids that are valid for login l

lineageVars == <<phase, live>>

Init ==
    /\ phase = [l \in Login |-> "new"]
    /\ live = [l \in Login |-> {}]

\* The login handshake completes.
Open(l) ==
    /\ phase[l] = "new"
    /\ phase' = [phase EXCEPT ![l] = "open"]
    /\ \E s \in Id : live' = [live EXCEPT ![l] = {s}]

\* The one valid id is exchanged for another one.
Renew(l) ==
    /\ phase[l] = "open"
    /\ \E s \in Id \ live[l] : live' = [live EXCEPT ![l] = {s}]
    /\ UNCHANGED phase

\* Logout, expiry, or a renewal that failed half way.
Close(l) ==
    /\ phase[l] = "open"
    /\ phase' = [phase EXCEPT ![l] = "closed"]
    /\ live' = [live EXCEPT ![l] = {}]

Next == \E l \in Login : Open(l) \/ Renew(l) \/ Close(l)

Spec == Init /\ [][Next]_lineageVars
=============================================================================

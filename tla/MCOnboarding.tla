---------------------------- MODULE MCOnboarding ----------------------------
(* Instances of Onboarding: two slots register, one or two verify. *)
EXTENDS Onboarding, TLC

CONSTANTS r1, r2, v1, v2

Roles == [o \in Handler |-> IF o \in {r1, r2} THEN {"register"} ELSE {"verify"}]
=============================================================================

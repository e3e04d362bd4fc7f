--------------------------- MODULE MCTokenSession ---------------------------
(* Instances of TokenSession: one device. *)
EXTENDS TokenSession, TLC

Alike == Permutations(Token) \cup Permutations(Slot)
=============================================================================

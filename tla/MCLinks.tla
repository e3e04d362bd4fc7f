------------------------------ MODULE MCLinks ------------------------------
(* Instances of Links: a service with room for three links at a time. *)
EXTENDS Links, TLC

Alike == Permutations(Row) \cup Permutations(Slot)
=============================================================================

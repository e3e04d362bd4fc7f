--------------------------- MODULE MCEntitySession ---------------------------
(* Instances of EntitySession: who works for which entity, doing what. *)
EXTENDS EntitySession, TLC

\* Every caller works for one entity and does anything.
OneEntity == [o \in Slot |-> "device"]
AnyKind == [o \in Slot |-> Kind]

IdsAndSlots == Permutations(SessionId) \cup Permutations(Slot)
=============================================================================

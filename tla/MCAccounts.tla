----------------------------- MODULE MCAccounts -----------------------------
(* Instances of Accounts: persons, emails and two requests in flight. *)
EXTENDS Accounts, TLC

Alike == Permutations(Person) \cup Permutations(Email) \cup Permutations(Slot)
=============================================================================

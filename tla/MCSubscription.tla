--------------------------- MODULE MCSubscription ---------------------------
(* Instances of Subscription: one user with two services. *)
EXTENDS Subscription, TLC

ByUserAndService == {Link} \cup {{l} : l \in Link}

Alike == Permutations(Link) \cup Permutations(Payment) \cup Permutations(Slot)
=============================================================================

---------------------------- MODULE MCPolicyStore ----------------------------
(* Instances of PolicyStore: a file with two rules, over two workers. *)
EXTENDS PolicyStore, TLC

CONSTANTS master, userRead, p1, p2, q1

File == <<master, userRead>>

\* uvicorn --workers 2; the first worker serves two requests at once.
TwoWorkers == (p1 :> "w1" @@ p2 :> "w1" @@ q1 :> "w2")
Threads == Permutations({p1, p2})
=============================================================================

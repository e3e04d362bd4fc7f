----------------------------- MODULE MCTelemetry -----------------------------
(* Instances of Telemetry: one message of each sort, over two workers. *)
EXTENDS Telemetry, TLC

CONSTANTS good, poison, garbage, w1, w2

Sorts == (good :> "good") @@ (poison :> "poison") @@ (garbage :> "garbage")

Instants == (w1 :> 2) @@ (w2 :> 3)
=============================================================================

----------------------------- MODULE MCPipeline -----------------------------
(* Finite instances of Pipeline for TLC. *)
EXTENDS Pipeline, TLC

CONSTANTS v1, v2, e1

(* A video that can be analysed, whose results a single item stands for,    *)
(* and one with an event.                                                   *)
MCBatchesOf == v1 :> {1} @@ v2 :> {}
MCEventsOf == v1 :> {} @@ v2 :> {e1}
=============================================================================

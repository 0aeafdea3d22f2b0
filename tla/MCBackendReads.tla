--------------------------- MODULE MCBackendReads ---------------------------
(* Finite instances of BackendReads for TLC. *)
EXTENDS BackendReads, TLC

(* Requests and players are interchangeable. *)
ReadsSymmetry == Permutations(Request) \cup Permutations(Player)
=============================================================================

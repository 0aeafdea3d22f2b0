----------------------------- MODULE MCSessions -----------------------------
(* A finite instance of Sessions for TLC. *)
EXTENDS Sessions, TLC

(* Requests name accounts and rows, but no two are told apart. *)
SessionsSymmetry == Permutations(Request) \cup Permutations(Browser)
=============================================================================

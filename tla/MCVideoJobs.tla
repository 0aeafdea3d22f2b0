---------------------------- MODULE MCVideoJobs ----------------------------
(* Finite instances of VideoJobs for TLC. *)
EXTENDS VideoJobs, TLC

CONSTANTS v1, e1, e2

(* A single video with a single event, with and without tracking data. *)
MCOneBatch == v1 :> {1}
MCNoBatch == v1 :> {}
MCOneEvent == v1 :> {e1}
=============================================================================

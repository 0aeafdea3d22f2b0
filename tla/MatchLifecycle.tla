--------------------------- MODULE MatchLifecycle ---------------------------
(* The life of a match row as docs/database-schema.md, section 3, promises  *)
(* it: atomic steps, one per transition, each with the columns that change  *)
(* together.  Soft deletion is independent of the status.                   *)
EXTENDS MatchStates

CONSTANT Match

VARIABLE matches

(* The nullable columns of a row are recorded as set or not set. *)
NoRow ==
  [status |-> "INIT", deleted |-> FALSE, video_s3_key |-> FALSE,
   error_message |-> FALSE, duration_sec |-> FALSE]

Init == matches = [m \in Match |-> NoRow]

Move(m, from, to, row) ==
  /\ matches[m].status = from
  /\ assertValidTransition(from, to)
  /\ matches' = [matches EXCEPT ![m] = [row EXCEPT !.status = to]]

Create(m) == Move(m, "INIT", "pending", matches[m])

ConfirmUpload(m) ==
  Move(m, "pending", "uploaded", [matches[m] EXCEPT !.video_s3_key = TRUE])

StartProcessing(m) == Move(m, "uploaded", "processing", matches[m])

Complete(m) ==
  Move(m, "processing", "completed", [matches[m] EXCEPT !.duration_sec = TRUE])

Fail(m) ==
  Move(m, "processing", "failed", [matches[m] EXCEPT !.error_message = TRUE])

Remove(m) ==
  /\ matches[m].status # "INIT"
  /\ matches' = [matches EXCEPT ![m].deleted = TRUE]

Next ==
  \E m \in Match :
    \/ Create(m) \/ ConfirmUpload(m) \/ StartProcessing(m)
    \/ Complete(m) \/ Fail(m) \/ Remove(m)

Spec == Init /\ [][Next]_matches
=============================================================================

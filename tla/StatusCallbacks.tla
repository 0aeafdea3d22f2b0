-------------------------- MODULE StatusCallbacks --------------------------
(* The vocabulary shared by both ends of the match-status-callbacks queue:  *)
(* analysis jobs, the callbacks sent about them, and the set of callbacks   *)
(* sent so far.  The set only grows; what the queue has delivered of it is  *)
(* kept by the receiving side (MatchRows).                                  *)
EXTENDS MatchStates

CONSTANTS
  Match,                \* match ids
  MaxUploads,           \* bound: uploads of a video per match
  MaxTries,             \* Lambda runs the dispatcher this often per S3 event
  MaxJobReceives,       \* maxReceiveCount of video-processing-jobs
  MaxCallbackReceives,  \* maxReceiveCount of match-status-callbacks
  Faults                \* the disturbances this run's environment may produce

(* dispatcher : the dispatcher raises between or before its two sends       *)
(* raise      : a download or a write in the worker's try block raises      *)
(* notify     : sending a callback in the try block raises                  *)
(* delete     : deleting the job at the end of the try block raises         *)
(* silent     : a call outside it raises, or its failure callback does      *)
(* crash      : the worker process dies                                     *)
(* overrun    : a job takes longer than the queue's visibility timeout      *)
(* lambda     : a status_updater invocation raises or times out             *)
(* reorder    : the standard queue delivers a final callback early          *)
(* lateConfirm: an upload is dispatched before the client has confirmed it  *)
(* abort      : a backend request ends between two statements               *)
(* overlap    : a client has two confirm requests of a match in progress    *)
FaultKind == {"dispatcher", "raise", "notify", "delete", "silent", "crash",
              "overrun", "lambda", "reorder", "lateConfirm", "abort", "overlap"}

ASSUME CallbackAssumptions ==
  /\ MaxUploads \in Nat \ {0}
  /\ MaxTries \in Nat \ {0}
  /\ MaxJobReceives \in Nat \ {0}
  /\ MaxCallbackReceives \in Nat \ {0}
  /\ Faults \subseteq FaultKind

VARIABLE callbacks

(* A message on video-processing-jobs: sent by one run ("try") of the       *)
(* dispatcher for one upload.  The payload names the match and its S3 key.  *)
Job == [match : Match, upload : 1..MaxUploads, try : 1..MaxTries]

(* The dispatcher reports on a job once, before any worker attempt (0); a   *)
(* worker attempt is the job's n-th receive and reports each status at most *)
(* once, so equal records are one message (EachCallbackOnce).               *)
Callback ==
  [job : Job, attempt : {0}, status : {"processing"}]
    \cup [job : Job, attempt : 1..MaxJobReceives, status : CallbackStatus]

StatusCallback(j, attempt, status) ==
  [job |-> j, attempt |-> attempt, status |-> status]

Send(c) == callbacks' = callbacks \cup {c}
=============================================================================

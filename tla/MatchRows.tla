----------------------------- MODULE MatchRows -----------------------------
(* The matches table and its two writers: the requests of the backend's     *)
(* MatchesService, each a few statements long, and the invocations of the   *)
(* status_updater Lambda, which take batches from match-status-callbacks.   *)
(* A statement on the primary is atomic; requests and invocations are not.  *)
EXTENDS StatusCallbacks, FiniteSets

CONSTANTS
  Request, NoMatch,    \* concurrent HTTP requests; the match of an idle one
  Endpoints,           \* the handlers clients call in this run
  Invocation,          \* concurrent invocations of status_updater
  BatchSize            \* batch_size of its event source mapping

Handler == {"uploadUrl", "confirm", "remove"}

ASSUME MatchRowsAssumptions ==
  /\ Endpoints \subseteq Handler
  /\ NoMatch \notin Match
  /\ BatchSize \in Nat \ {0}

VARIABLES
  matches,      \* the rows; the nullable columns are set or not set
  requests,     \* progress of the requests past their guard
  uploadUrls,   \* matches with a presigned URL that has not expired
  invocation,   \* the batch an invocation holds, and what is left of it
  receives,     \* receive count of a callback
  acked, dead   \* callbacks deleted from the queue; dead-lettered ones

rowsVars ==
  <<matches, requests, uploadUrls, invocation, receives, acked, dead, callbacks>>

backendVars == <<requests, uploadUrls>>
updaterVars == <<invocation, receives, acked, dead>>

NoRow ==
  [status |-> "INIT", deleted |-> FALSE, video_s3_key |-> FALSE,
   error_message |-> FALSE, duration_sec |-> FALSE]

Row ==
  [status : TransitionState, deleted : BOOLEAN, video_s3_key : BOOLEAN,
   error_message : BOOLEAN, duration_sec : BOOLEAN]

IdleRequest == [at |-> "idle", match |-> NoMatch, seen |-> FALSE]

ActiveRequest ==
  [at : Handler \cup {"confirmWrite", "removeWrite"}, match : Match,
   seen : BOOLEAN]

IdleInvocation == [batch |-> {}, todo |-> {}]

RowsTypeOK ==
  /\ matches \in [Match -> Row]
  /\ requests \in [Request -> ActiveRequest \cup {IdleRequest}]
  /\ uploadUrls \in SUBSET Match
  /\ invocation \in [Invocation -> [batch : SUBSET Callback, todo : SUBSET Callback]]
  /\ receives \in [Callback -> 0..MaxCallbackReceives]
  /\ acked \in SUBSET Callback
  /\ dead \in SUBSET Callback
  /\ callbacks \in SUBSET Callback

RowsInit ==
  /\ matches = [m \in Match |-> NoRow]
  /\ requests = [r \in Request |-> IdleRequest]
  /\ uploadUrls = {}
  /\ invocation = [i \in Invocation |-> IdleInvocation]
  /\ receives = [c \in Callback |-> 0]
  /\ acked = {}
  /\ dead = {}
  /\ callbacks = {}

Exists(m) == matches[m].status # "INIT"
Visible(m) == Exists(m) /\ ~matches[m].deleted
-----------------------------------------------------------------------------
(* The backend.                                                              *)

Finish(r) == requests' = [requests EXCEPT ![r] = IdleRequest]

(* MatchesService.create *)
Create(m) ==
  /\ assertValidTransition(matches[m].status, "pending")
  /\ matches' = [matches EXCEPT ![m].status = "pending"]
  /\ UNCHANGED <<backendVars, updaterVars, callbacks>>

(* MatchOwnershipGuard lets a request of the owner through to its handler   *)
(* and leaves the row it read in the request; only createUploadUrl looks at *)
(* the status there, to see whether it was pending.                         *)
Guard(r, m, handler) ==
  /\ requests[r] = IdleRequest
  /\ Visible(m)
  /\ "overlap" \in Faults \/ handler # "confirm" \/
       \A q \in Request :
         requests[q].match = m => requests[q].at \notin {"confirm", "confirmWrite"}
  /\ requests' = [requests EXCEPT ![r] =
       [at |-> handler, match |-> m,
        seen |-> handler = "uploadUrl" /\ matches[m].status = "pending"]]
  /\ UNCHANGED <<matches, uploadUrls, updaterVars, callbacks>>

(* validateUploadRequest: TRUE unless type or size of the file get a 400. *)
UploadRequestValid == BOOLEAN

(* createUploadUrl decides on the guard's status; 409 unless pending. *)
CreateUploadUrl(r) ==
  /\ requests[r].at = "uploadUrl"
  /\ Finish(r)
  /\ \E valid \in UploadRequestValid :
       uploadUrls' = IF valid /\ requests[r].seen
                     THEN uploadUrls \cup {requests[r].match}
                     ELSE uploadUrls
  /\ UNCHANGED <<matches, updaterVars, callbacks>>

(* 900 s later; nothing withdraws a URL earlier. *)
ExpireUrl(m) ==
  /\ m \in uploadUrls
  /\ uploadUrls' = uploadUrls \ {m}
  /\ UNCHANGED <<matches, requests, updaterVars, callbacks>>

(* Mutant: confirmUpload without assertValidTransition. *)
ConfirmReadUnchecked(r) ==
  /\ requests[r].at = "confirm"
  /\ requests' = [requests EXCEPT ![r] =
       IF Visible(requests[r].match) THEN [@ EXCEPT !.at = "confirmWrite"]
                                     ELSE IdleRequest]
  /\ UNCHANGED <<matches, uploadUrls, updaterVars, callbacks>>

(* confirmUpload: findFirst, the 404, and the transition check. *)
ConfirmRead(r) ==
  LET m == requests[r].match IN
  /\ requests[r].at = "confirm"
  /\ requests' = [requests EXCEPT ![r] =
       IF Visible(m) /\ assertValidTransition(matches[m].status, "uploaded")
       THEN [@ EXCEPT !.at = "confirmWrite"]
       ELSE IdleRequest]
  /\ UNCHANGED <<matches, uploadUrls, updaterVars, callbacks>>

(* Mutant: the update leaves videoS3Key out. *)
ConfirmWriteWithoutKey(r) ==
  /\ requests[r].at = "confirmWrite"
  /\ matches' = [matches EXCEPT ![requests[r].match].status = "uploaded"]
  /\ Finish(r)
  /\ UNCHANGED <<uploadUrls, updaterVars, callbacks>>

(* Mutant: the update puts back the row that findFirst returned, a live one. *)
ConfirmWriteWholeRow(r) ==
  /\ requests[r].at = "confirmWrite"
  /\ matches' = [matches EXCEPT ![requests[r].match] =
       [@ EXCEPT !.status = "uploaded", !.video_s3_key = TRUE, !.deleted = FALSE]]
  /\ Finish(r)
  /\ UNCHANGED <<uploadUrls, updaterVars, callbacks>>

(* confirmUpload: the update, by id alone. *)
ConfirmWrite(r) ==
  /\ requests[r].at = "confirmWrite"
  /\ matches' = [matches EXCEPT ![requests[r].match] =
       [@ EXCEPT !.status = "uploaded", !.video_s3_key = TRUE]]
  /\ Finish(r)
  /\ UNCHANGED <<uploadUrls, updaterVars, callbacks>>

(* remove: findFirst and the 404. *)
RemoveRead(r) ==
  /\ requests[r].at = "remove"
  /\ requests' = [requests EXCEPT ![r] =
       IF Visible(requests[r].match) THEN [@ EXCEPT !.at = "removeWrite"]
                                     ELSE IdleRequest]
  /\ UNCHANGED <<matches, uploadUrls, updaterVars, callbacks>>

(* remove: the update, by id alone. *)
RemoveWrite(r) ==
  /\ requests[r].at = "removeWrite"
  /\ matches' = [matches EXCEPT ![requests[r].match].deleted = TRUE]
  /\ Finish(r)
  /\ UNCHANGED <<uploadUrls, updaterVars, callbacks>>

(* The process stops or a statement fails: no transaction spans the two. *)
RequestAborts(r) ==
  /\ "abort" \in Faults
  /\ requests[r] # IdleRequest
  /\ Finish(r)
  /\ UNCHANGED <<matches, uploadUrls, updaterVars, callbacks>>
-----------------------------------------------------------------------------
(* The callbacks queue and status_updater.                                   *)

Unsettled(c) == c \in callbacks /\ c \notin acked /\ c \notin dead

InFlight(c) == \E i \in Invocation : c \in invocation[i].batch

Waiting(c) == Unsettled(c) /\ ~InFlight(c)

(* An undisturbed queue does not hand out a match's final callback while a  *)
(* processing callback of the match is still in it.                         *)
Overtakes(c, d) ==
  /\ d.job.match = c.job.match
  /\ d.status = "processing"
  /\ c.status # "processing"

(* Mutant: a callback is handed out however often it was received. *)
CallbackReceivableForever(c) == Waiting(c)

CallbackReceivable(c) == Waiting(c) /\ receives[c] < MaxCallbackReceives

ReceiveBatch(i) ==
  /\ invocation[i] = IdleInvocation
  /\ \E batch \in SUBSET {c \in callbacks : CallbackReceivable(c)} :
       /\ batch # {}
       /\ Cardinality(batch) <= BatchSize
       /\ "reorder" \in Faults \/
            \A c \in batch, d \in callbacks :
              Overtakes(c, d) /\ Unsettled(d) => d \in batch
       /\ invocation' = [invocation EXCEPT ![i] = [batch |-> batch, todo |-> batch]]
       /\ receives' = [c \in Callback |->
            IF c \in batch THEN receives[c] + 1 ELSE receives[c]]
  /\ UNCHANGED <<matches, backendVars, acked, dead, callbacks>>

(* Mutant: a final callback that arrives early starts the processing. *)
UpdatedInOneStep(row, c) ==
  IF row.status = "uploaded" THEN [row EXCEPT !.status = "processing"]
  ELSE IF is_valid_transition(row.status, c.status)
  THEN [row EXCEPT !.status = c.status,
                   !.error_message = @ \/ c.status = "failed",
                   !.duration_sec = @ \/ c.status = "completed"]
  ELSE row

(* update_status, one transaction under FOR UPDATE: the row after c.  A     *)
(* repeated status and an invalid transition leave the row alone; deleted   *)
(* rows are not treated apart.                                              *)
Updated(row, c) ==
  IF is_valid_transition(row.status, c.status)
  THEN [row EXCEPT !.status = c.status,
                   !.error_message = @ \/ c.status = "failed",
                   !.duration_sec = @ \/ c.status = "completed"]
  ELSE row

(* process_record for some record of the batch. *)
UpdateStatus(i) ==
  /\ \E c \in invocation[i].todo :
       /\ "reorder" \in Faults \/ \A d \in invocation[i].todo : ~Overtakes(c, d)
       /\ Exists(c.job.match)
       /\ matches' = [matches EXCEPT ![c.job.match] = Updated(@, c)]
       /\ invocation' = [invocation EXCEPT ![i].todo = @ \ {c}]
  /\ UNCHANGED <<backendVars, receives, acked, dead, callbacks>>

(* The handler returned: the mapping deletes the whole batch. *)
AckBatch(i) ==
  /\ invocation[i] # IdleInvocation
  /\ invocation[i].todo = {}
  /\ acked' = acked \cup invocation[i].batch
  /\ invocation' = [invocation EXCEPT ![i] = IdleInvocation]
  /\ UNCHANGED <<matches, backendVars, receives, dead, callbacks>>

(* A record raised, or the Lambda timed out: the whole batch reappears,     *)
(* what was already applied of it included.                                 *)
InvocationFails(i) ==
  /\ "lambda" \in Faults
  /\ invocation[i] # IdleInvocation
  /\ invocation' = [invocation EXCEPT ![i] = IdleInvocation]
  /\ UNCHANGED <<matches, backendVars, receives, acked, dead, callbacks>>

(* Mutant: no redrive policy; a callback stays where its last receive left it. *)
NoRedrive(c) == FALSE

RedriveCallback(c) ==
  /\ Waiting(c)
  /\ receives[c] = MaxCallbackReceives
  /\ dead' = dead \cup {c}
  /\ UNCHANGED <<matches, backendVars, invocation, receives, acked, callbacks>>

(* The environment of this module: dispatcher and workers report on a match *)
(* that has a row.                                                          *)
CallbackArrives(c) ==
  /\ Exists(c.job.match)
  /\ c \notin callbacks
  /\ Send(c)
  /\ UNCHANGED <<matches, backendVars, updaterVars>>
-----------------------------------------------------------------------------
RequestStep(r) ==
  CreateUploadUrl(r) \/ ConfirmRead(r) \/ ConfirmWrite(r) \/ RemoveRead(r)
    \/ RemoveWrite(r)

BackendStep ==
  \/ \E m \in Match : Create(m) \/ ExpireUrl(m)
  \/ \E r \in Request, m \in Match, handler \in Endpoints : Guard(r, m, handler)
  \/ \E r \in Request : RequestStep(r) \/ RequestAborts(r)

InvocationStep(i) == UpdateStatus(i) \/ AckBatch(i)

UpdaterStep ==
  \/ \E i \in Invocation : ReceiveBatch(i) \/ InvocationStep(i) \/ InvocationFails(i)
  \/ \E c \in Callback : RedriveCallback(c)

(* Everything but the arrival of callbacks. *)
RowsStep == BackendStep \/ UpdaterStep

RowsNext == RowsStep \/ \E c \in Callback : CallbackArrives(c)

RowsSafetySpec == RowsInit /\ [][RowsNext]_rowsVars

(* The event source mapping keeps polling, and an invocation runs to its    *)
(* end or fails; requests and clients promise nothing.                      *)
RowsFairness ==
  /\ WF_rowsVars(\E i \in Invocation : ReceiveBatch(i))
  /\ \A i \in Invocation : WF_rowsVars(InvocationStep(i))
  /\ WF_rowsVars(\E c \in Callback : RedriveCallback(c))

RowsSpec == RowsSafetySpec /\ RowsFairness
-----------------------------------------------------------------------------
(* Properties.                                                               *)

(* The columns of a row agree with its status, although backend and Lambda  *)
(* each write only some of them and confirm statements may be stale: a key  *)
(* exactly past pending, a duration when completed, an error when failed.   *)
RowConsistent ==
  \A m \in Match : LET row == matches[m] IN
    /\ row.video_s3_key <=> row.status \notin {"INIT", "pending"}
    /\ row.status = "completed" => row.duration_sec
    /\ row.status = "failed" => row.error_message

(* A row never shows a status nobody reported: past uploaded there is a     *)
(* callback of that status that some invocation has received.               *)
StatusWasReported ==
  \A m \in Match : matches[m].status \in CallbackStatus =>
    \E c \in callbacks :
      c.job.match = m /\ c.status = matches[m].status /\ receives[c] > 0

(* A deleted match stays deleted: neither the confirm statement of a        *)
(* request that read the row earlier nor a late callback brings it back.    *)
SoftDeleteSticks ==
  [][\A m \in Match : matches[m].deleted => matches'[m].deleted]_matches

(* No transition other than those of the table is ever written.             *)
StatusFollowsTransitions ==
  [][\A m \in Match :
       matches[m].status = matches'[m].status
         \/ assertValidTransition(matches[m].status, matches'[m].status)]_matches

(* With one confirm at a time the requests and invocations, interleaved,    *)
(* implement the atomic life of a row.                                      *)
Lifecycle == INSTANCE MatchLifecycle

ImplementsMatchLifecycle == Lifecycle!Spec

(* Every callback leaves the queue, acknowledged or dead-lettered with the  *)
(* batches it failed in: again and again the queue is empty.                *)
CallbacksSettle == []<>(callbacks \subseteq acked \cup dead)

(* A final callback still to be applied while its match is processing ends  *)
(* the processing, however it is batched and redelivered, unless a final    *)
(* callback of the match is dead-lettered.                                  *)
StillToApply(c) == Waiting(c) \/ \E i \in Invocation : c \in invocation[i].todo

FinalCallbacks(m) ==
  {c \in callbacks : c.job.match = m /\ c.status \in TerminalStatus}

FinalCallbackConcludes ==
  \A m \in Match :
    matches[m].status = "processing" /\ (\E c \in FinalCallbacks(m) : StillToApply(c))
      ~> matches[m].status \in TerminalStatus \/ FinalCallbacks(m) \cap dead # {}
=============================================================================

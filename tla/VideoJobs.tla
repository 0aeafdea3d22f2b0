----------------------------- MODULE VideoJobs -----------------------------
(* From an uploaded video to its highlights: the S3 notification, the       *)
(* job_dispatcher Lambda, the video-processing-jobs queue with its dead     *)
(* letter queue, the ECS worker tasks, and what the workers store in S3 and *)
(* DynamoDB.  Callbacks are sent here and consumed elsewhere (MatchRows).   *)
EXTENDS StatusCallbacks, Sequences

CONSTANTS
  Task, NoJob,           \* worker tasks; the job of an idle one
  Video, NoVideo,        \* contents of an uploaded object; no object
  Batch, EventId,        \* tracking batch numbers; deterministic event ids
  BatchesOf, EventsOf,   \* what the detector makes of a video
  NotificationFilter,    \* "prefix" or "suffix": see NotificationMatches
  FloatsAccepted         \* whether put_item takes an event's floats: see StoreItem

ASSUME VideoJobsAssumptions ==
  /\ NoJob \notin Job
  /\ NoVideo \notin Video
  /\ BatchesOf \in [Video -> SUBSET Batch]
  /\ EventsOf \in [Video -> SUBSET EventId]
  /\ NotificationFilter \in {"prefix", "suffix"}
  /\ FloatsAccepted \in BOOLEAN

VARIABLES
  uploads,    \* how often the match's object was written
  rawVideo,   \* what the raw-videos bucket holds for it now
  dispatch,   \* the dispatcher's run for a job
  jobs,       \* where the job's message is, and its receive count
  task,       \* the worker tasks
  marker,     \* matches with a MARKER#COMPLETED item in DynamoDB
  written     \* history: what was put of a match since its first upload,
              \* tracking files, raw clips and event items; lifecycle rules
              \* remove raw clips again, seven days later (Transcode)

jobsVars == <<uploads, rawVideo, dispatch, jobs, task, marker, written, callbacks>>

Item == ({"tracking"} \X Batch) \cup ({"clip", "event"} \X EventId)

(* Everything process_message writes for a video.  Names are functions of   *)
(* the video (batch numbers, make_event_id), so a retry writes them again.  *)
ItemsOf(v) == ({"tracking"} \X BatchesOf[v]) \cup ({"clip", "event"} \X EventsOf[v])

WriteRank == [tracking |-> 1, clip |-> 2, event |-> 3]

(* Mutant: the events are put while the clips are still being uploaded.     *)
WritesInAnyOrder(todo) == todo

(* The loops of process_message: all batches, then all clips, then events.  *)
NextWrites(todo) ==
  {i \in todo : \A k \in todo : WriteRank[i[1]] <= WriteRank[k[1]]}

Working == {"received", "skip", "setup", "download", "writing", "announce",
            "delete", "failing"}

(* The places of the try block where the next call is a callback's send,    *)
(* and those where it is a download, the detector or a write.               *)
SendsInTry == {"setup", "announce"}
CallsInTry == {"download", "writing"}

IdleTask ==
  [pc |-> "idle", job |-> NoJob, receipt |-> 0, video |-> NoVideo, todo |-> {}]

WorkingTask ==
  [pc : Working, job : Job, receipt : 1..MaxJobReceives,
   video : Video \cup {NoVideo}, todo : SUBSET Item]

JobsTypeOK ==
  /\ uploads \in [Match -> 0..MaxUploads]
  /\ rawVideo \in [Match -> Video \cup {NoVideo}]
  /\ dispatch \in [Job -> {"none", "pending", "jobSent", "done", "failed"}]
  /\ jobs \in [Job -> [place : {"unsent", "visible", "inflight", "deleted", "dlq"},
                       receives : 0..MaxJobReceives]]
  /\ task \in [Task -> WorkingTask \cup {IdleTask}]
  /\ marker \in SUBSET Match
  /\ written \in [Match -> SUBSET Item]
  /\ callbacks \in SUBSET Callback

JobsInit ==
  /\ uploads = [m \in Match |-> 0]
  /\ rawVideo = [m \in Match |-> NoVideo]
  /\ dispatch = [j \in Job |-> "none"]
  /\ jobs = [j \in Job |-> [place |-> "unsent", receives |-> 0]]
  /\ task = [t \in Task |-> IdleTask]
  /\ marker = {}
  /\ written = [m \in Match |-> {}]
  /\ callbacks = {}
-----------------------------------------------------------------------------
(* Upload, notification and dispatch.                                        *)

(* {team_id}/{match_id}/original.mp4 *)
RawVideoKey(m) == <<"team", m, "original.mp4">>

(* The bucket notification of the raw-videos bucket.  A prefix is compared  *)
(* with the start of the key, which is a team id.                           *)
NotificationMatches(key) ==
  IF NotificationFilter = "prefix" THEN key[1] = "original.mp4"
                                   ELSE key[Len(key)] = "original.mp4"

(* The dispatcher's own filter on the key, and the layout it insists on.    *)
DispatcherAccepts(key) == key[Len(key)] = "original.mp4" /\ Len(key) >= 3

(* The client PUTs an object with a presigned URL. *)
Upload(m, v) ==
  /\ uploads[m] < MaxUploads
  /\ uploads' = [uploads EXCEPT ![m] = @ + 1]
  /\ rawVideo' = [rawVideo EXCEPT ![m] = v]
  /\ dispatch' = IF NotificationMatches(RawVideoKey(m))
                 THEN [dispatch EXCEPT
                        ![[match |-> m, upload |-> uploads[m] + 1, try |-> 1]] = "pending"]
                 ELSE dispatch
  /\ UNCHANGED <<jobs, task, marker, written, callbacks>>

(* handler: the first of its two sends. *)
SendJob(j) ==
  /\ dispatch[j] = "pending"
  /\ DispatcherAccepts(RawVideoKey(j.match))
  /\ dispatch' = [dispatch EXCEPT ![j] = "jobSent"]
  /\ jobs' = [jobs EXCEPT ![j].place = "visible"]
  /\ UNCHANGED <<uploads, rawVideo, task, marker, written, callbacks>>

(* handler: the second send. *)
SendDispatchStatus(j) ==
  /\ dispatch[j] = "jobSent"
  /\ dispatch' = [dispatch EXCEPT ![j] = "done"]
  /\ Send(StatusCallback(j, 0, "processing"))
  /\ UNCHANGED <<uploads, rawVideo, jobs, task, marker, written>>

(* Mutant: the handler swallows the error and returns; Lambda is content.   *)
DispatchErrorSwallowed(j) ==
  /\ "dispatcher" \in Faults
  /\ dispatch[j] \in {"pending", "jobSent"}
  /\ dispatch' = [dispatch EXCEPT ![j] = "done"]
  /\ UNCHANGED <<uploads, rawVideo, jobs, task, marker, written, callbacks>>

(* handler raises in either send; Lambda runs it again from the top, until  *)
(* it has used its tries and drops the event.                               *)
DispatchFails(j) ==
  /\ "dispatcher" \in Faults
  /\ dispatch[j] \in {"pending", "jobSent"}
  /\ dispatch' = [k \in Job |->
       IF k = j THEN "failed"
       ELSE IF k = [j EXCEPT !.try = @ + 1] THEN "pending"
       ELSE dispatch[k]]
  /\ UNCHANGED <<uploads, rawVideo, jobs, task, marker, written, callbacks>>
-----------------------------------------------------------------------------
(* The queue.                                                                *)

(* Some task still works under the message's latest receipt. *)
Held(j) ==
  \E t \in Task : task[t].job = j /\ task[t].receipt = jobs[j].receives

(* Mutant: the queue has no redrive policy. *)
JobReceivableForever(j) == jobs[j].place = "visible"

JobReceivable(j) == jobs[j].place = "visible" /\ jobs[j].receives < MaxJobReceives

(* receive_message of the main loop; the receipt is this receive's handle. *)
ReceiveMessage(t, j) ==
  /\ task[t].pc = "idle"
  /\ JobReceivable(j)
  /\ jobs' = [jobs EXCEPT ![j] = [place |-> "inflight", receives |-> @.receives + 1]]
  /\ task' = [task EXCEPT ![t] =
       [IdleTask EXCEPT !.pc = "received", !.job = j,
                        !.receipt = jobs[j].receives + 1]]
  /\ UNCHANGED <<uploads, rawVideo, dispatch, marker, written, callbacks>>

Reappear(j) ==
  /\ jobs[j].place = "inflight"
  /\ jobs' = [jobs EXCEPT ![j].place = "visible"]
  /\ UNCHANGED <<uploads, rawVideo, dispatch, task, marker, written, callbacks>>

(* The visibility timeout of a message nobody works on any more. *)
VisibilityTimeout(j) == ~Held(j) /\ Reappear(j)

(* The same while the task is still busy: nothing extends the timeout. *)
Overrun(j) == "overrun" \in Faults /\ Held(j) /\ Reappear(j)

(* The next receive would exceed maxReceiveCount: to the dead letter queue. *)
Redrive(j) ==
  /\ jobs[j].place = "visible"
  /\ jobs[j].receives = MaxJobReceives
  /\ jobs' = [jobs EXCEPT ![j].place = "dlq"]
  /\ UNCHANGED <<uploads, rawVideo, dispatch, task, marker, written, callbacks>>

(* delete_message: certain with the latest receipt; an earlier receipt may  *)
(* or may not delete a message that was received again.                     *)
DeleteWithReceipt(t) ==
  LET j == task[t].job
      deleted == [jobs EXCEPT ![j].place = "deleted"]
  IN  jobs' \in IF jobs[j].place = "dlq" THEN {jobs}
                ELSE IF task[t].receipt = jobs[j].receives THEN {deleted}
                ELSE {deleted, jobs}
-----------------------------------------------------------------------------
(* process_message.                                                          *)

Goto(t, pc) == task' = [task EXCEPT ![t].pc = pc]
ToIdle(t) == task' = [task EXCEPT ![t] = IdleTask]

CheckMarker(t) ==
  /\ task[t].pc = "received"
  /\ Goto(t, IF task[t].job.match \in marker THEN "skip" ELSE "setup")
  /\ UNCHANGED <<uploads, rawVideo, dispatch, jobs, marker, written, callbacks>>

(* The match is already done: delete the message, send nothing. *)
DeleteSkipped(t) ==
  /\ task[t].pc = "skip"
  /\ DeleteWithReceipt(t)
  /\ ToIdle(t)
  /\ UNCHANGED <<uploads, rawVideo, dispatch, marker, written, callbacks>>

(* A call before the try block raises: main logs it, nobody is told. *)
FailsOutsideTry(t) ==
  /\ "silent" \in Faults
  /\ task[t].pc \in {"received", "skip", "setup"}
  /\ ToIdle(t)
  /\ UNCHANGED <<uploads, rawVideo, dispatch, jobs, marker, written, callbacks>>

(* Mutant: the message is acknowledged when its processing starts. *)
SendProcessingAndDelete(t) ==
  /\ task[t].pc = "setup"
  /\ Goto(t, "download")
  /\ DeleteWithReceipt(t)
  /\ Send(StatusCallback(task[t].job, task[t].receipt, "processing"))
  /\ UNCHANGED <<uploads, rawVideo, dispatch, marker, written>>

(* Mutant: the worker leaves that callback to the dispatcher.               *)
ProcessingNotSent(t) ==
  /\ task[t].pc = "setup"
  /\ Goto(t, "download")
  /\ UNCHANGED <<uploads, rawVideo, dispatch, jobs, marker, written, callbacks>>

SendProcessing(t) ==
  /\ task[t].pc = "setup"
  /\ Goto(t, "download")
  /\ Send(StatusCallback(task[t].job, task[t].receipt, "processing"))
  /\ UNCHANGED <<uploads, rawVideo, dispatch, jobs, marker, written>>

(* download_file and process_video: whatever the bucket holds by now. *)
Download(t) ==
  LET v == rawVideo[task[t].job.match] IN
  /\ task[t].pc = "download"
  /\ v # NoVideo
  /\ task' = [task EXCEPT ![t] =
       [@ EXCEPT !.pc = "writing", !.video = v, !.todo = ItemsOf(v)]]
  /\ UNCHANGED <<uploads, rawVideo, dispatch, jobs, marker, written, callbacks>>

(* Mutant: an event id is drawn at random instead of hashed. *)
WriteItemWithRandomId(t) ==
  /\ task[t].pc = "writing"
  /\ \E i \in NextWrites(task[t].todo), e \in EventId :
       /\ written' = [written EXCEPT ![task[t].job.match] =
                      @ \cup {IF i[1] = "tracking" THEN i ELSE <<i[1], e>>}]
       /\ task' = [task EXCEPT ![t].todo = @ \ {i}]
  /\ UNCHANGED <<uploads, rawVideo, dispatch, jobs, marker, callbacks>>

(* One put_object, upload_file or put_item.  confidence_score and           *)
(* timestamp_in_video of an event item are Python floats, which boto3 (the  *)
(* pinned 1.40.8, like every release) does not serialize for DynamoDB.      *)
StoreItem(t) ==
  /\ \E i \in NextWrites(task[t].todo) :
       /\ FloatsAccepted \/ i[1] # "event"
       /\ written' = [written EXCEPT ![task[t].job.match] = @ \cup {i}]
       /\ task' = [task EXCEPT ![t].todo = @ \ {i}]
  /\ UNCHANGED <<uploads, rawVideo, dispatch, jobs, marker, callbacks>>

(* The TypeError of the batch writer; none of the batch is put. *)
EventsRejected(t) ==
  /\ ~FloatsAccepted
  /\ \E i \in NextWrites(task[t].todo) : i[1] = "event"
  /\ Goto(t, "failing")
  /\ UNCHANGED <<uploads, rawVideo, dispatch, jobs, marker, written, callbacks>>

WriteItem(t) == task[t].pc = "writing" /\ (StoreItem(t) \/ EventsRejected(t))

(* Mutant: put_item without its ConditionExpression. *)
PutMarkerUnconditionally(t) ==
  /\ task[t].pc = "writing"
  /\ task[t].todo = {}
  /\ Goto(t, "announce")
  /\ marker' = marker \cup {task[t].job.match}
  /\ UNCHANGED <<uploads, rawVideo, dispatch, jobs, written, callbacks>>

(* Mutant: the marker is put as soon as the events are under way. *)
PutMarkerEarly(t) ==
  /\ task[t].pc = "writing"
  /\ \A i \in task[t].todo : i[1] = "event"
  /\ Goto(t, IF task[t].job.match \in marker THEN "failing" ELSE "announce")
  /\ marker' = marker \cup {task[t].job.match}
  /\ UNCHANGED <<uploads, rawVideo, dispatch, jobs, written, callbacks>>

(* put_completed_marker: its condition fails when the marker exists, which  *)
(* raises like any other error of the try block.                            *)
PutMarker(t) ==
  LET m == task[t].job.match IN
  /\ task[t].pc = "writing"
  /\ task[t].todo = {}
  /\ Goto(t, IF m \in marker THEN "failing" ELSE "announce")
  /\ marker' = marker \cup {m}
  /\ UNCHANGED <<uploads, rawVideo, dispatch, jobs, written, callbacks>>

(* Mutant: completed is announced before the marker is put. *)
SendCompletedFirst(t) ==
  /\ task[t].pc \in {"writing", "announce"}
  /\ task[t].todo = {}
  /\ Goto(t, "delete")
  /\ Send(StatusCallback(task[t].job, task[t].receipt, "completed"))
  /\ UNCHANGED <<uploads, rawVideo, dispatch, jobs, marker, written>>

SendCompleted(t) ==
  /\ task[t].pc = "announce"
  /\ Goto(t, "delete")
  /\ Send(StatusCallback(task[t].job, task[t].receipt, "completed"))
  /\ UNCHANGED <<uploads, rawVideo, dispatch, jobs, marker, written>>

DeleteJob(t) ==
  /\ task[t].pc = "delete"
  /\ DeleteWithReceipt(t)
  /\ ToIdle(t)
  /\ UNCHANGED <<uploads, rawVideo, dispatch, marker, written, callbacks>>

(* Any call of the try block raises, sends and the delete included. *)
TryFails(t) ==
  /\ \/ "raise" \in Faults /\ task[t].pc \in CallsInTry
     \/ "notify" \in Faults /\ task[t].pc \in SendsInTry
     \/ "delete" \in Faults /\ task[t].pc = "delete"
  /\ Goto(t, "failing")
  /\ UNCHANGED <<uploads, rawVideo, dispatch, jobs, marker, written, callbacks>>

(* Mutant: the except clause only logs. *)
FailedNotSent(t) ==
  /\ task[t].pc = "failing"
  /\ ToIdle(t)
  /\ UNCHANGED <<uploads, rawVideo, dispatch, jobs, marker, written, callbacks>>

(* The except clause: report the failure of this attempt, then re-raise. *)
SendFailed(t) ==
  /\ task[t].pc = "failing"
  /\ ToIdle(t)
  /\ Send(StatusCallback(task[t].job, task[t].receipt, "failed"))
  /\ UNCHANGED <<uploads, rawVideo, dispatch, jobs, marker, written>>

SendFailedFails(t) ==
  /\ "silent" \in Faults
  /\ task[t].pc = "failing"
  /\ ToIdle(t)
  /\ UNCHANGED <<uploads, rawVideo, dispatch, jobs, marker, written, callbacks>>

(* The process dies; its message reappears after the visibility timeout. *)
Crash(t) ==
  /\ "crash" \in Faults
  /\ task[t].pc # "idle"
  /\ ToIdle(t)
  /\ UNCHANGED <<uploads, rawVideo, dispatch, jobs, marker, written, callbacks>>
-----------------------------------------------------------------------------
DispatchStep(j) == SendJob(j) \/ SendDispatchStatus(j)

QueueStep(j) == VisibilityTimeout(j) \/ Redrive(j)

WorkerStep(t) ==
  \/ CheckMarker(t) \/ DeleteSkipped(t) \/ SendProcessing(t) \/ Download(t)
  \/ WriteItem(t) \/ PutMarker(t) \/ SendCompleted(t) \/ DeleteJob(t)
  \/ SendFailed(t)

WorkerFault(t) ==
  TryFails(t) \/ FailsOutsideTry(t) \/ SendFailedFails(t) \/ Crash(t)

(* Everything but the uploads. *)
JobsStep ==
  \/ \E j \in Job : DispatchStep(j) \/ DispatchFails(j) \/ QueueStep(j) \/ Overrun(j)
  \/ \E t \in Task, j \in Job : ReceiveMessage(t, j)
  \/ \E t \in Task : WorkerStep(t) \/ WorkerFault(t)

JobsNext == JobsStep \/ \E m \in Match, v \in Video : Upload(m, v)

JobsSafetySpec == JobsInit /\ [][JobsNext]_jobsVars

(* AWS runs the Lambda and the queue's timers, ECS keeps tasks polling.     *)
(* Uploads and faults are not promised.                                     *)
JobsFairness ==
  /\ \A j \in Job :
       /\ WF_jobsVars(DispatchStep(j))
       /\ WF_jobsVars(QueueStep(j))
       /\ WF_jobsVars(\E t \in Task : ReceiveMessage(t, j))
  /\ \A t \in Task : WF_jobsVars(WorkerStep(t))

JobsSpec == JobsSafetySpec /\ JobsFairness
-----------------------------------------------------------------------------
(* Properties.                                                               *)

(* Whatever attempts raced or died, no event item is put before its raw     *)
(* clip was uploaded.                                                       *)
ClipBeforeEvent ==
  \A m \in Match, e \in EventId :
    <<"event", e>> \in written[m] => <<"clip", e>> \in written[m]

(* MARKER#COMPLETED is put after everything else: when a match has one, all *)
(* results of a video have been written, and of the uploaded one when there *)
(* was only one, although several attempts may have written parts.          *)
MarkerAfterResults ==
  \A m \in marker : \E v \in Video :
    ItemsOf(v) \subseteq written[m] /\ (uploads[m] = 1 => v = rawVideo[m])

(* A job's message is only deleted when its match is done, so an attempt    *)
(* that raised or died never takes the job with it.                         *)
JobDeletedOnlyWhenDone ==
  \A j \in Job : jobs[j].place = "deleted" => j.match \in marker

(* Retries overwrite: as long as a match was uploaded once, no number of    *)
(* attempts writes what a single clean attempt would not have written.      *)
NoDuplicateHighlights ==
  \A m \in Match : uploads[m] = 1 => written[m] \subseteq ItemsOf(rawVideo[m])

(* A completed callback is sent at most once per match, and only after the  *)
(* marker: the conditional put lets one attempt through.                    *)
CompletedOnce ==
  \A c \in callbacks : c.status = "completed" =>
    /\ c.job.match \in marker
    /\ \A d \in callbacks :
         d.status = "completed" /\ d.job.match = c.job.match => d = c

(* All of the above at once: the analysis side implements HighlightResults. *)
Results == INSTANCE HighlightResults WITH
  done <- marker,
  notices <- {<<c.job.match, c>> : c \in {d \in callbacks : d.status = "completed"}},
  Complete <- {ItemsOf(v) : v \in Video},
  Notice <- Callback

ImplementsHighlightResults == Results!Spec

(* Every upload gets an end: one of its jobs is deleted or dead-lettered,   *)
(* or the dispatcher has failed as often as Lambda tries.                   *)
EveryUploadSettles ==
  \A m \in Match, u \in 1..MaxUploads :
    uploads[m] >= u ~>
      \/ \E n \in 1..MaxTries :
           jobs[[match |-> m, upload |-> u, try |-> n]].place \in {"deleted", "dlq"}
      \/ dispatch[[match |-> m, upload |-> u, try |-> MaxTries]] = "failed"

(* Whatever is uploaded gets analysed when nothing disturbs the attempts.   *)
UploadsAreAnalysed == \A m \in Match : uploads[m] > 0 ~> m \in marker
=============================================================================

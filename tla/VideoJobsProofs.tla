-------------------------- MODULE VideoJobsProofs --------------------------
(* Proofs about VideoJobs, for every number of matches, uploads, dispatcher *)
(* tries, receives, tasks and videos, and for every set of faults.          *)
EXTENDS VideoJobs, TLAPS

(* The inductive invariant: the properties of VideoJobs, and what they rest on. *)

(* Nothing of a match is on its way or written before its first upload. *)
NothingBeforeUpload ==
  /\ \A j \in Job :
       dispatch[j] # "none" \/ jobs[j].place # "unsent" => uploads[j.match] > 0
  /\ \A t \in Task : task[t].pc # "idle" => uploads[task[t].job.match] > 0
  /\ \A m \in Match : uploads[m] = 0 => m \notin marker /\ written[m] = {}

(* What a writing attempt has put aside is written, for the video it took. *)
WritesKept ==
  \A t \in Task : task[t].pc = "writing" =>
    LET m == task[t].job.match
        v == task[t].video
    IN  /\ v \in Video
        /\ task[t].todo \subseteq ItemsOf(v)
        /\ ItemsOf(v) \ task[t].todo \subseteq written[m]
        /\ uploads[m] = 1 => v = rawVideo[m]

DoneIsMarked ==
  \A t \in Task :
    task[t].pc \in {"skip", "announce", "delete"} => task[t].job.match \in marker

(* The attempt that put the marker is the only one that may announce it, and *)
(* has not done so yet.                                                      *)
OneAnnouncer ==
  \A t \in Task : task[t].pc = "announce" =>
    /\ \A u \in Task :
         task[u].pc = "announce" /\ task[u].job.match = task[t].job.match => u = t
    /\ \A c \in callbacks :
         c.status = "completed" => c.job.match # task[t].job.match

JobsInv ==
  /\ JobsTypeOK
  /\ NothingBeforeUpload
  /\ WritesKept
  /\ DoneIsMarked
  /\ OneAnnouncer
  /\ ClipBeforeEvent
  /\ MarkerAfterResults
  /\ JobDeletedOnlyWhenDone
  /\ NoDuplicateHighlights
  /\ CompletedOnce
-----------------------------------------------------------------------------
(* A task that is not idle holds a job under a receipt. *)
LEMMA WorkingTasks ==
  ASSUME JobsTypeOK, NEW t \in Task, task[t].pc # "idle"
  PROVE  /\ task[t] \in WorkingTask
         /\ task[t].pc \in Working
         /\ task[t].job \in Job
         /\ task[t].job.match \in Match
         /\ task[t].receipt \in 1..MaxJobReceives
  BY DEF JobsTypeOK, IdleTask, WorkingTask, Job

(* Moving a busy task to another step, or to idle, keeps the tasks' type. *)
LEMMA GotoType ==
  ASSUME JobsTypeOK, NEW t \in Task, task[t].pc # "idle",
         NEW pc \in Working, Goto(t, pc)
  PROVE  task' \in [Task -> WorkingTask \cup {IdleTask}]
<1>1. task[t] \in WorkingTask
  BY WorkingTasks
<1>2. [task[t] EXCEPT !.pc = pc] \in WorkingTask
  BY <1>1 DEF WorkingTask
<1> QED
  BY <1>2 DEF JobsTypeOK, Goto

(* So does giving the job up. *)
LEMMA ToIdleType ==
  ASSUME JobsTypeOK, NEW t \in Task, ToIdle(t)
  PROVE  task' \in [Task -> WorkingTask \cup {IdleTask}]
  BY DEF JobsTypeOK, ToIdle

(* Writing a video writes items. *)
LEMMA ItemsOfType ==
  ASSUME NEW v \in Video
  PROVE  ItemsOf(v) \in SUBSET Item
  BY VideoJobsAssumptions DEF ItemsOf, Item

(* Sending a callback keeps the type of the set of callbacks. *)
LEMMA SendType ==
  ASSUME JobsTypeOK, NEW c \in Callback, Send(c)
  PROVE  callbacks' \in SUBSET Callback
  BY DEF JobsTypeOK, Send

(* What a busy task reports is a callback. *)
LEMMA WorkerCallbackType ==
  ASSUME JobsTypeOK, NEW t \in Task, task[t].pc # "idle",
         NEW s \in CallbackStatus
  PROVE  StatusCallback(task[t].job, task[t].receipt, s) \in Callback
  BY WorkingTasks DEF Callback, StatusCallback

(* Deleting with a receipt moves the task's own message, or nothing. *)
LEMMA DeleteType ==
  ASSUME JobsTypeOK, NEW t \in Task, task[t].pc # "idle", DeleteWithReceipt(t)
  PROVE  /\ \/ jobs' = jobs
            \/ jobs' = [jobs EXCEPT ![task[t].job].place = "deleted"]
         /\ jobs' \in [Job -> [place : {"unsent", "visible", "inflight", "deleted", "dlq"},
                               receives : 0..MaxJobReceives]]
<1>1. task[t].job \in Job
  BY WorkingTasks
<1>2. \/ jobs' = jobs
      \/ jobs' = [jobs EXCEPT ![task[t].job].place = "deleted"]
  BY DEF DeleteWithReceipt
<1> QED
  BY <1>1, <1>2 DEF JobsTypeOK
-----------------------------------------------------------------------------
(* The types hold at the start and every step keeps them. *)
LEMMA TypeInit == JobsInit => JobsTypeOK
  BY CallbackAssumptions DEF JobsInit, JobsTypeOK

(* One step per action; the guards bound the counters. *)
LEMMA TypeStep ==
  ASSUME JobsTypeOK, [JobsNext]_jobsVars
  PROVE  JobsTypeOK'
<1> USE CallbackAssumptions, VideoJobsAssumptions
<1>1. ASSUME NEW m \in Match, NEW v \in Video, Upload(m, v)
      PROVE  JobsTypeOK'
  BY <1>1 DEF JobsTypeOK, Upload, Job
<1>2. ASSUME NEW j \in Job, SendJob(j)
      PROVE  JobsTypeOK'
  BY <1>2 DEF JobsTypeOK, SendJob
<1>3. ASSUME NEW j \in Job, SendDispatchStatus(j)
      PROVE  JobsTypeOK'
  <2>1. StatusCallback(j, 0, "processing") \in Callback
    BY DEF StatusCallback, Callback
  <2> QED
    BY <1>3, <2>1 DEF JobsTypeOK, SendDispatchStatus, Send
<1>4. ASSUME NEW j \in Job, DispatchFails(j)
      PROVE  JobsTypeOK'
  BY <1>4 DEF JobsTypeOK, DispatchFails
<1>5. ASSUME NEW t \in Task, NEW j \in Job, ReceiveMessage(t, j)
      PROVE  JobsTypeOK'
  <2>1. jobs[j].receives + 1 \in 1..MaxJobReceives
    BY <1>5 DEF JobsTypeOK, ReceiveMessage, JobReceivable
  <2>2. [IdleTask EXCEPT !.pc = "received", !.job = j,
                         !.receipt = jobs[j].receives + 1] \in WorkingTask
    BY <2>1 DEF IdleTask, WorkingTask, Working
  <2> QED
    BY <1>5, <2>1, <2>2 DEF JobsTypeOK, ReceiveMessage, JobReceivable
<1>6. ASSUME NEW j \in Job, Reappear(j)
      PROVE  JobsTypeOK'
  BY <1>6 DEF JobsTypeOK, Reappear
<1>7. ASSUME NEW j \in Job, Redrive(j)
      PROVE  JobsTypeOK'
  BY <1>7 DEF JobsTypeOK, Redrive
<1>8. ASSUME NEW t \in Task, CheckMarker(t)
      PROVE  JobsTypeOK'
  <2>1. task' \in [Task -> WorkingTask \cup {IdleTask}]
    <3>1. CASE task[t].job.match \in marker
      BY <1>8, <3>1, GotoType DEF CheckMarker, Working
    <3>2. CASE task[t].job.match \notin marker
      BY <1>8, <3>2, GotoType DEF CheckMarker, Working
    <3> QED
      BY <3>1, <3>2
  <2> QED
    BY <1>8, <2>1 DEF JobsTypeOK, CheckMarker
<1>9. ASSUME NEW t \in Task, DeleteSkipped(t) \/ DeleteJob(t)
      PROVE  JobsTypeOK'
  BY <1>9, DeleteType, ToIdleType DEF JobsTypeOK, DeleteSkipped, DeleteJob
<1>10. ASSUME NEW t \in Task, SendProcessing(t) \/ SendCompleted(t)
       PROVE  JobsTypeOK'
  <2>1. task' \in [Task -> WorkingTask \cup {IdleTask}]
    BY <1>10, GotoType DEF SendProcessing, SendCompleted, Working
  <2>2. callbacks' \in SUBSET Callback
    BY <1>10, SendType, WorkerCallbackType
    DEF SendProcessing, SendCompleted, CallbackStatus
  <2> QED
    BY <1>10, <2>1, <2>2 DEF JobsTypeOK, SendProcessing, SendCompleted
<1>11. ASSUME NEW t \in Task, Download(t)
       PROVE  JobsTypeOK'
  <2> DEFINE v == rawVideo[task[t].job.match]
  <2>1. v \in Video /\ task[t] \in WorkingTask
    BY <1>11, WorkingTasks DEF JobsTypeOK, Download
  <2>2. [task[t] EXCEPT !.pc = "writing", !.video = v, !.todo = ItemsOf(v)]
          \in WorkingTask
    BY <2>1, ItemsOfType DEF WorkingTask, Working
  <2> QED
    BY <1>11, <2>2 DEF JobsTypeOK, Download
<1>12. ASSUME NEW t \in Task, task[t].pc = "writing", StoreItem(t)
       PROVE  JobsTypeOK'
  <2>1. task[t] \in WorkingTask /\ task[t].job.match \in Match
    BY <1>12, WorkingTasks DEF StoreItem
  <2>2. PICK i \in NextWrites(task[t].todo) :
          /\ written' = [written EXCEPT ![task[t].job.match] = @ \cup {i}]
          /\ task' = [task EXCEPT ![t].todo = @ \ {i}]
    BY <1>12 DEF StoreItem
  <2>3. i \in Item
    BY <2>1, <2>2 DEF NextWrites, WorkingTask
  <2>4. [task[t] EXCEPT !.todo = @ \ {i}] \in WorkingTask
    BY <2>1 DEF WorkingTask
  <2>5. task' \in [Task -> WorkingTask \cup {IdleTask}]
    BY <2>2, <2>4 DEF JobsTypeOK
  <2>6. written' \in [Match -> SUBSET Item]
    BY <2>1, <2>2, <2>3 DEF JobsTypeOK
  <2> QED
    BY <1>12, <2>5, <2>6 DEF JobsTypeOK, StoreItem
<1>13. ASSUME NEW t \in Task, PutMarker(t)
       PROVE  JobsTypeOK'
  <2>1. task' \in [Task -> WorkingTask \cup {IdleTask}]
    <3>1. CASE task[t].job.match \in marker
      BY <1>13, <3>1, GotoType DEF PutMarker, Working
    <3>2. CASE task[t].job.match \notin marker
      BY <1>13, <3>2, GotoType DEF PutMarker, Working
    <3> QED
      BY <3>1, <3>2
  <2>2. task[t].job.match \in Match
    BY <1>13, WorkingTasks DEF PutMarker
  <2> QED
    BY <1>13, <2>1, <2>2 DEF JobsTypeOK, PutMarker
<1>14. ASSUME NEW t \in Task,
              TryFails(t) \/ (task[t].pc = "writing" /\ EventsRejected(t))
       PROVE  JobsTypeOK'
  <2>1. task' \in [Task -> WorkingTask \cup {IdleTask}]
    BY <1>14, GotoType DEF TryFails, EventsRejected, CallsInTry, SendsInTry, Working
  <2> QED
    BY <1>14, <2>1 DEF JobsTypeOK, TryFails, EventsRejected
<1>15. ASSUME NEW t \in Task, SendFailed(t)
       PROVE  JobsTypeOK'
  <2>1. callbacks' \in SUBSET Callback
    BY <1>15, SendType, WorkerCallbackType DEF SendFailed, CallbackStatus
  <2> QED
    BY <1>15, <2>1, ToIdleType DEF JobsTypeOK, SendFailed
<1>16. ASSUME NEW t \in Task, FailsOutsideTry(t) \/ SendFailedFails(t) \/ Crash(t)
       PROVE  JobsTypeOK'
  BY <1>16, ToIdleType DEF JobsTypeOK, FailsOutsideTry, SendFailedFails, Crash
<1>17. ASSUME UNCHANGED jobsVars
       PROVE  JobsTypeOK'
  BY <1>17 DEF JobsTypeOK, jobsVars
<1> QED
  BY <1>1, <1>2, <1>3, <1>4, <1>5, <1>6, <1>7, <1>8, <1>9, <1>10, <1>11, <1>12,
     <1>13, <1>14, <1>15, <1>16, <1>17
  DEF JobsNext, JobsStep, DispatchStep, QueueStep, VisibilityTimeout, Overrun,
      WorkerStep, WriteItem, WorkerFault

(* Every variable keeps its type: receive counts and attempts stay within   *)
(* their bounds, and a task that works holds a job under a valid receipt.   *)
THEOREM JobsTypeCorrect == JobsSafetySpec => []JobsTypeOK
  BY TypeInit, TypeStep, PTL DEF JobsSafetySpec
-----------------------------------------------------------------------------
(* The inductive invariant.                                                  *)

(* What is known of a step that only touches task t and leaves it in a      *)
(* state x about which the invariant says nothing, apart from its upload;   *)
(* messages and dispatcher runs keep belonging to uploaded matches, and no  *)
(* completed callback is sent.                                              *)
LEMMA TaskMovesOn ==
  ASSUME JobsInv, NEW t \in Task, NEW x,
         task' = [task EXCEPT ![t] = x],
         x.pc \notin {"writing", "skip", "announce", "delete"},
         x.pc # "idle" => uploads[x.job.match] > 0,
         UNCHANGED <<uploads, rawVideo, dispatch, marker, written>>,
         \A j \in Job : jobs'[j].place # "unsent" => uploads[j.match] > 0,
         \A j \in Job : jobs'[j].place = "deleted" => j.match \in marker,
         \A c \in callbacks' : c \in callbacks \/ c.status # "completed",
         JobsTypeOK'
  PROVE  JobsInv'
<1> USE DEF JobsInv
<1>1. \A u \in Task : task'[u] = IF u = t THEN x ELSE task[u]
  BY DEF JobsTypeOK
<1>2. NothingBeforeUpload'
  BY <1>1 DEF NothingBeforeUpload
<1>3. WritesKept'
  BY <1>1 DEF WritesKept
<1>4. DoneIsMarked'
  BY <1>1 DEF DoneIsMarked
<1>5. OneAnnouncer'
  BY <1>1 DEF OneAnnouncer
<1>6. CompletedOnce'
  BY DEF CompletedOnce
<1>7. JobDeletedOnlyWhenDone'
  BY DEF JobDeletedOnlyWhenDone
<1>8. ClipBeforeEvent' /\ MarkerAfterResults' /\ NoDuplicateHighlights'
  BY DEF ClipBeforeEvent, MarkerAfterResults, NoDuplicateHighlights
<1> QED
  BY <1>2, <1>3, <1>4, <1>5, <1>6, <1>7, <1>8

(* A step of the queue or the dispatcher only moves messages of uploaded    *)
(* matches and deletes none.                                                *)
LEMMA MessagesMove ==
  ASSUME JobsInv,
         UNCHANGED <<uploads, rawVideo, task, marker, written>>,
         \A j \in Job : dispatch'[j] # "none" \/ jobs'[j].place # "unsent"
                          => uploads[j.match] > 0,
         \A j \in Job : jobs'[j].place = "deleted" => jobs[j].place = "deleted",
         \A c \in callbacks' : c \in callbacks \/ c.status # "completed",
         JobsTypeOK'
  PROVE  JobsInv'
<1> USE DEF JobsInv
<1>1. NothingBeforeUpload'
  BY DEF NothingBeforeUpload
<1>2. WritesKept' /\ DoneIsMarked' /\ OneAnnouncer'
  BY DEF WritesKept, DoneIsMarked, OneAnnouncer
<1>3. CompletedOnce'
  BY DEF CompletedOnce
<1>4. JobDeletedOnlyWhenDone'
  BY DEF JobDeletedOnlyWhenDone
<1>5. ClipBeforeEvent' /\ MarkerAfterResults' /\ NoDuplicateHighlights'
  BY DEF ClipBeforeEvent, MarkerAfterResults, NoDuplicateHighlights
<1> QED
  BY <1>1, <1>2, <1>3, <1>4, <1>5

(* Nothing is written, sent or worked on at the start. *)
LEMMA InvInit == JobsInit => JobsInv
<1> SUFFICES ASSUME JobsInit PROVE JobsInv
  OBVIOUS
<1>1. JobsTypeOK
  BY TypeInit
<1>2. NothingBeforeUpload /\ WritesKept /\ DoneIsMarked /\ OneAnnouncer
  BY DEF JobsInit, NothingBeforeUpload, WritesKept, DoneIsMarked, OneAnnouncer,
         IdleTask, Job
<1>3. ClipBeforeEvent /\ MarkerAfterResults /\ JobDeletedOnlyWhenDone
  BY DEF JobsInit, ClipBeforeEvent, MarkerAfterResults, JobDeletedOnlyWhenDone
<1>4. NoDuplicateHighlights /\ CompletedOnce
  BY DEF JobsInit, NoDuplicateHighlights, CompletedOnce
<1> QED
  BY <1>1, <1>2, <1>3, <1>4 DEF JobsInv

(* A first upload finds nothing of its match; a later one changes what the  *)
(* invariant no longer relates to the written items.                         *)
LEMMA UploadKeepsInv ==
  ASSUME JobsInv, JobsTypeOK', NEW m \in Match, NEW v \in Video, Upload(m, v)
  PROVE  JobsInv'
<1> USE DEF JobsInv
<1>1. /\ \A n \in Match : /\ uploads[n] \in Nat
                          /\ uploads'[n] = IF n = m THEN uploads[n] + 1 ELSE uploads[n]
                          /\ rawVideo'[n] = IF n = m THEN v ELSE rawVideo[n]
  BY DEF JobsTypeOK, Upload
<1>2. /\ UNCHANGED <<jobs, task, marker, written, callbacks>>
      /\ \A j \in Job : dispatch'[j] = dispatch[j] \/ j.match = m
  BY DEF JobsTypeOK, Upload, Job
<1>3. \A t \in Task : task[t].pc # "idle" =>
        task[t].job.match \in Match /\ uploads[task[t].job.match] > 0
  BY WorkingTasks DEF NothingBeforeUpload
<1>4. NothingBeforeUpload'
  BY <1>1, <1>2, <1>3 DEF NothingBeforeUpload, Job
<1>5. WritesKept'
  BY <1>1, <1>2, <1>3 DEF WritesKept
<1>6. DoneIsMarked' /\ OneAnnouncer' /\ CompletedOnce'
  BY <1>2 DEF DoneIsMarked, OneAnnouncer, CompletedOnce
<1>7. ClipBeforeEvent' /\ JobDeletedOnlyWhenDone'
  BY <1>2 DEF ClipBeforeEvent, JobDeletedOnlyWhenDone
<1>8. MarkerAfterResults'
  <2> SUFFICES ASSUME NEW n \in marker
               PROVE  \E w \in Video : ItemsOf(w) \subseteq written[n]
                        /\ (uploads'[n] = 1 => w = rawVideo'[n])
    BY <1>2 DEF MarkerAfterResults
  <2>1. n \in Match /\ uploads[n] > 0
    BY DEF JobsTypeOK, NothingBeforeUpload
  <2>2. PICK w \in Video : ItemsOf(w) \subseteq written[n]
                              /\ (uploads[n] = 1 => w = rawVideo[n])
    BY DEF MarkerAfterResults
  <2>3. uploads'[n] = 1 => uploads[n] = 1 /\ rawVideo'[n] = rawVideo[n]
    BY <1>1, <2>1
  <2> QED
    BY <2>2, <2>3
<1>9. NoDuplicateHighlights'
  BY <1>1, <1>2 DEF NoDuplicateHighlights, NothingBeforeUpload
<1> QED
  BY <1>4, <1>5, <1>6, <1>7, <1>8, <1>9

(* An attempt that has downloaded has everything still to write. *)
LEMMA DownloadKeepsInv ==
  ASSUME JobsInv, JobsTypeOK', NEW t \in Task, Download(t)
  PROVE  JobsInv'
<1> USE DEF JobsInv
<1> DEFINE m == task[t].job.match
           v == rawVideo[m]
<1>1. m \in Match /\ v \in Video
  BY WorkingTasks DEF Download, JobsTypeOK
<1>2. UNCHANGED <<uploads, rawVideo, dispatch, jobs, marker, written, callbacks>>
  BY DEF Download
<1>3. /\ \A u \in Task \ {t} : task'[u] = task[u]
      /\ task'[t].pc = "writing" /\ task'[t].job = task[t].job
      /\ task'[t].video = v /\ task'[t].todo = ItemsOf(v)
  <2>1. task[t] \in WorkingTask
    BY WorkingTasks DEF Download
  <2> QED
    BY <2>1 DEF Download, JobsTypeOK, WorkingTask
<1>4. NothingBeforeUpload'
  BY <1>2, <1>3 DEF NothingBeforeUpload, Download
<1>5. WritesKept'
  BY <1>1, <1>2, <1>3 DEF WritesKept
<1>6. DoneIsMarked' /\ OneAnnouncer'
  BY <1>2, <1>3 DEF DoneIsMarked, OneAnnouncer
<1>7. CompletedOnce' /\ ClipBeforeEvent' /\ JobDeletedOnlyWhenDone'
      /\ MarkerAfterResults' /\ NoDuplicateHighlights'
  BY <1>2 DEF ClipBeforeEvent, JobDeletedOnlyWhenDone, CompletedOnce,
              MarkerAfterResults, NoDuplicateHighlights
<1> QED
  BY <1>4, <1>5, <1>6, <1>7

(* The next item to write is one of the video's, and when it is an event    *)
(* its clip is no longer to be written.                                     *)
LEMMA NextWriteFacts ==
  ASSUME NEW v \in Video, NEW todo \in SUBSET ItemsOf(v),
         NEW i \in NextWrites(todo)
  PROVE  /\ i \in ItemsOf(v) /\ i \in todo
         /\ i[1] = "event" => /\ <<"clip", i[2]>> \in ItemsOf(v)
                              /\ <<"clip", i[2]>> \notin todo
<1>1. i \in ItemsOf(v) /\ i \in todo
  BY DEF NextWrites
<1>2. ASSUME i[1] = "event"
      PROVE  <<"clip", i[2]>> \in ItemsOf(v)
  BY <1>1, <1>2 DEF ItemsOf
<1>3. ASSUME i[1] = "event", <<"clip", i[2]>> \in todo
      PROVE  FALSE
  <2>1. WriteRank[i[1]] <= WriteRank[(<<"clip", i[2]>>)[1]]
    BY <1>3 DEF NextWrites
  <2> QED
    BY <2>1, <1>3 DEF WriteRank
<1> QED
  BY <1>1, <1>2, <1>3

(* One write: the item leaves the list as it is written. *)
LEMMA WriteKeepsInv ==
  ASSUME JobsInv, JobsTypeOK', NEW t \in Task, task[t].pc = "writing", StoreItem(t)
  PROVE  JobsInv'
<1> USE DEF JobsInv
<1> DEFINE m == task[t].job.match
           v == task[t].video
<1>1. /\ m \in Match /\ task[t] \in WorkingTask
      /\ v \in Video /\ task[t].todo \in SUBSET ItemsOf(v)
      /\ ItemsOf(v) \ task[t].todo \subseteq written[m]
      /\ uploads[m] = 1 => v = rawVideo[m]
      /\ uploads[m] > 0
  BY WorkingTasks DEF StoreItem, WritesKept, NothingBeforeUpload
<1>2. PICK i \in NextWrites(task[t].todo) :
        /\ written' = [written EXCEPT ![m] = @ \cup {i}]
        /\ task' = [task EXCEPT ![t].todo = @ \ {i}]
  BY DEF StoreItem
<1>3. UNCHANGED <<uploads, rawVideo, dispatch, jobs, marker, callbacks>>
  BY DEF StoreItem
<1>4. /\ \A u \in Task \ {t} : task'[u] = task[u]
      /\ task'[t].pc = "writing" /\ task'[t].job = task[t].job
      /\ task'[t].video = v /\ task'[t].todo = task[t].todo \ {i}
  BY <1>1, <1>2 DEF StoreItem, JobsTypeOK, WorkingTask
<1>5. \A n \in Match : written'[n] = IF n = m THEN written[n] \cup {i} ELSE written[n]
  BY <1>2 DEF JobsTypeOK
<1>6. /\ i \in ItemsOf(v) /\ i \in task[t].todo
      /\ i[1] = "event" => /\ <<"clip", i[2]>> \in ItemsOf(v)
                           /\ <<"clip", i[2]>> \notin task[t].todo
  BY <1>1, <1>2, NextWriteFacts
<1>7. NothingBeforeUpload'
  BY <1>1, <1>3, <1>4, <1>5 DEF NothingBeforeUpload, StoreItem, JobsTypeOK
<1>8. WritesKept'
  <2> SUFFICES ASSUME NEW u \in Task, task'[u].pc = "writing"
               PROVE  LET n == task'[u].job.match
                          w == task'[u].video
                      IN  /\ w \in Video
                          /\ task'[u].todo \subseteq ItemsOf(w)
                          /\ ItemsOf(w) \ task'[u].todo \subseteq written'[n]
                          /\ uploads[n] = 1 => w = rawVideo[n]
    BY <1>3 DEF WritesKept
  <2>1. CASE u = t
    BY <2>1, <1>1, <1>4, <1>5, <1>6
  <2>2. CASE u # t
    <3>1. task'[u] = task[u] /\ task[u].job.match \in Match
      BY <2>2, <1>4, WorkingTasks
    <3>2. written[task[u].job.match] \subseteq written'[task[u].job.match]
      BY <3>1, <1>5
    <3> QED
      BY <3>1, <3>2 DEF WritesKept
  <2> QED
    BY <2>1, <2>2
<1>9. DoneIsMarked' /\ OneAnnouncer' /\ CompletedOnce' /\ JobDeletedOnlyWhenDone'
  BY <1>3, <1>4
  DEF DoneIsMarked, OneAnnouncer, CompletedOnce, JobDeletedOnlyWhenDone
<1>10. ClipBeforeEvent'
  <2> SUFFICES ASSUME NEW n \in Match, NEW e \in EventId, <<"event", e>> \in written'[n]
               PROVE  <<"clip", e>> \in written'[n]
    BY DEF ClipBeforeEvent
  <2>1. CASE <<"event", e>> \in written[n]
    BY <2>1, <1>5 DEF ClipBeforeEvent
  <2>2. CASE <<"event", e>> \notin written[n]
    <3>1. n = m /\ i = <<"event", e>>
      BY <2>2, <1>5
    <3>2. <<"clip", e>> \in ItemsOf(v) /\ <<"clip", e>> \notin task[t].todo
      BY <3>1, <1>6
    <3> QED
      BY <3>1, <3>2, <1>1, <1>5
  <2> QED
    BY <2>1, <2>2
<1>11. MarkerAfterResults'
  BY <1>3, <1>5 DEF MarkerAfterResults, JobsTypeOK
<1>12. NoDuplicateHighlights'
  <2> SUFFICES ASSUME NEW n \in Match, uploads[n] = 1
               PROVE  written'[n] \subseteq ItemsOf(rawVideo[n])
    BY <1>3 DEF NoDuplicateHighlights, ItemsOf
  <2>1. written[n] \subseteq ItemsOf(rawVideo[n])
    BY DEF NoDuplicateHighlights
  <2>2. n = m => i \in ItemsOf(rawVideo[n])
    BY <1>1, <1>6
  <2> QED
    BY <2>1, <2>2, <1>5
<1> QED
  BY <1>7, <1>8, <1>9, <1>10, <1>11, <1>12

(* The conditional put: the first attempt marks a match whose results are   *)
(* all written, a later one turns to its failure.                            *)
LEMMA MarkerKeepsInv ==
  ASSUME JobsInv, JobsTypeOK', NEW t \in Task, PutMarker(t)
  PROVE  JobsInv'
<1> USE DEF JobsInv
<1> DEFINE m == task[t].job.match
           v == task[t].video
<1>1. /\ m \in Match /\ task[t] \in WorkingTask
      /\ v \in Video /\ ItemsOf(v) \subseteq written[m]
      /\ uploads[m] = 1 => v = rawVideo[m]
      /\ uploads[m] > 0
  <2>1. task[t].pc = "writing" /\ task[t].todo = {}
    BY DEF PutMarker
  <2> QED
    BY <2>1, WorkingTasks DEF WritesKept, NothingBeforeUpload
<1>2. /\ UNCHANGED <<uploads, rawVideo, dispatch, jobs, written, callbacks>>
      /\ marker' = marker \cup {m}
  BY DEF PutMarker
<1>3. CASE m \in marker
  <2> DEFINE x == [task[t] EXCEPT !.pc = "failing"]
  <2>1. task' = [task EXCEPT ![t] = x] /\ marker' = marker
    BY <1>2, <1>3 DEF PutMarker, Goto
  <2>2. x.pc = "failing" /\ x.job = task[t].job
    BY <1>1 DEF WorkingTask
  <2>3. UNCHANGED <<uploads, rawVideo, dispatch, marker, written>>
    BY <1>2, <2>1
  <2>4. /\ \A j \in Job : jobs'[j].place # "unsent" => uploads[j.match] > 0
        /\ \A j \in Job : jobs'[j].place = "deleted" => j.match \in marker
        /\ \A c \in callbacks' : c \in callbacks \/ c.status # "completed"
    BY <1>2 DEF NothingBeforeUpload, JobDeletedOnlyWhenDone
  <2> HIDE DEF x
  <2> QED
    BY <1>1, <2>1, <2>2, <2>3, <2>4, TaskMovesOn
<1>4. CASE m \notin marker
  <2>1. /\ \A u \in Task \ {t} : task'[u] = task[u]
        /\ task'[t].pc = "announce" /\ task'[t].job = task[t].job
    BY <1>1, <1>4 DEF PutMarker, Goto, JobsTypeOK, WorkingTask
  <2>2. NothingBeforeUpload'
    BY <1>1, <1>2, <2>1 DEF NothingBeforeUpload, PutMarker
  <2>3. WritesKept' /\ DoneIsMarked'
    BY <1>2, <2>1 DEF WritesKept, DoneIsMarked
  <2>4. OneAnnouncer'
    <3>1. \A u \in Task : task[u].pc = "announce" => task[u].job.match # m
      BY <1>4 DEF DoneIsMarked
    <3>2. \A c \in callbacks : c.status = "completed" => c.job.match # m
      BY <1>4 DEF CompletedOnce
    <3> QED
      BY <1>2, <2>1, <3>1, <3>2 DEF OneAnnouncer
  <2>5. ClipBeforeEvent' /\ NoDuplicateHighlights'
    BY <1>2 DEF ClipBeforeEvent, NoDuplicateHighlights
  <2>6. MarkerAfterResults'
    BY <1>1, <1>2 DEF MarkerAfterResults
  <2>7. JobDeletedOnlyWhenDone' /\ CompletedOnce'
    BY <1>2 DEF JobDeletedOnlyWhenDone, CompletedOnce
  <2> QED
    BY <2>2, <2>3, <2>4, <2>5, <2>6, <2>7
<1> QED
  BY <1>3, <1>4

(* The announcing attempt sends the first completed callback of its match.  *)
LEMMA CompletedKeepsInv ==
  ASSUME JobsInv, JobsTypeOK', NEW t \in Task, SendCompleted(t)
  PROVE  JobsInv'
<1> USE DEF JobsInv
<1> DEFINE m == task[t].job.match
           n == StatusCallback(task[t].job, task[t].receipt, "completed")
<1>1. /\ task[t] \in WorkingTask /\ task[t].pc = "announce"
      /\ m \in marker
      /\ \A c \in callbacks : c.status = "completed" => c.job.match # m
      /\ \A u \in Task : task[u].pc = "announce" /\ task[u].job.match = m => u = t
  BY WorkingTasks DEF SendCompleted, DoneIsMarked, OneAnnouncer
<1>2. /\ UNCHANGED <<uploads, rawVideo, dispatch, jobs, marker, written>>
      /\ callbacks' = callbacks \cup {n}
      /\ n.status = "completed" /\ n.job.match = m
  BY DEF SendCompleted, Send, StatusCallback
<1>3. /\ \A u \in Task \ {t} : task'[u] = task[u]
      /\ task'[t].pc = "delete" /\ task'[t].job = task[t].job
  BY <1>1 DEF SendCompleted, Goto, JobsTypeOK, WorkingTask
<1>4. NothingBeforeUpload'
  BY <1>1, <1>2, <1>3 DEF NothingBeforeUpload
<1>5. WritesKept' /\ DoneIsMarked'
  BY <1>1, <1>2, <1>3 DEF WritesKept, DoneIsMarked
<1> HIDE DEF n
<1>6. OneAnnouncer'
  BY <1>1, <1>2, <1>3 DEF OneAnnouncer
<1>7. CompletedOnce'
  BY <1>1, <1>2 DEF CompletedOnce
<1>8. ClipBeforeEvent' /\ NoDuplicateHighlights' /\ MarkerAfterResults'
      /\ JobDeletedOnlyWhenDone'
  BY <1>2 DEF ClipBeforeEvent, NoDuplicateHighlights, MarkerAfterResults,
              JobDeletedOnlyWhenDone
<1> QED
  BY <1>4, <1>5, <1>6, <1>7, <1>8

(* A skipping attempt has read the marker, and it does not go away. *)
LEMMA CheckKeepsInv ==
  ASSUME JobsInv, JobsTypeOK', NEW t \in Task, CheckMarker(t)
  PROVE  JobsInv'
<1> USE DEF JobsInv
<1>1. task[t] \in WorkingTask
  BY WorkingTasks DEF CheckMarker
<1>2. /\ \A u \in Task \ {t} : task'[u] = task[u]
      /\ task'[t].pc \in {"skip", "setup"} /\ task'[t].job = task[t].job
      /\ task'[t].pc = "skip" => task[t].job.match \in marker
  BY <1>1 DEF CheckMarker, Goto, JobsTypeOK, WorkingTask
<1>3. UNCHANGED <<uploads, rawVideo, dispatch, jobs, marker, written, callbacks>>
  BY DEF CheckMarker
<1>4. NothingBeforeUpload'
  BY <1>2, <1>3 DEF NothingBeforeUpload, CheckMarker
<1>5. WritesKept' /\ DoneIsMarked' /\ OneAnnouncer'
  BY <1>2, <1>3 DEF WritesKept, DoneIsMarked, OneAnnouncer
<1>6. ClipBeforeEvent' /\ NoDuplicateHighlights' /\ MarkerAfterResults'
      /\ JobDeletedOnlyWhenDone' /\ CompletedOnce'
  BY <1>3 DEF ClipBeforeEvent, NoDuplicateHighlights, MarkerAfterResults,
              JobDeletedOnlyWhenDone, CompletedOnce
<1> QED
  BY <1>4, <1>5, <1>6

(* Every step keeps the invariant: one case per action. *)
LEMMA InvStep ==
  ASSUME JobsInv, [JobsNext]_jobsVars
  PROVE  JobsInv'
<1>1. JobsTypeOK /\ JobsTypeOK'
  BY TypeStep DEF JobsInv
<1>2. /\ \A j \in Job : jobs[j].place # "unsent" => uploads[j.match] > 0
      /\ \A j \in Job : dispatch[j] # "none" => uploads[j.match] > 0
      /\ \A j \in Job : jobs[j].place = "deleted" => j.match \in marker
      /\ \A t \in Task : task[t].pc # "idle" => uploads[task[t].job.match] > 0
  BY DEF JobsInv, NothingBeforeUpload, JobDeletedOnlyWhenDone
<1>3. ASSUME NEW m \in Match, NEW v \in Video, Upload(m, v)
      PROVE  JobsInv'
  BY <1>1, <1>3, UploadKeepsInv
<1>4. ASSUME NEW j \in Job, SendJob(j)
      PROVE  JobsInv'
  BY <1>1, <1>2, <1>4, MessagesMove DEF SendJob, JobsTypeOK
<1>5. ASSUME NEW j \in Job, SendDispatchStatus(j)
      PROVE  JobsInv'
  BY <1>1, <1>2, <1>5, MessagesMove
  DEF SendDispatchStatus, JobsTypeOK, Send, StatusCallback
<1>6. ASSUME NEW j \in Job, DispatchFails(j)
      PROVE  JobsInv'
  <2>1. \A k \in Job : k = [j EXCEPT !.try = @ + 1] => k.match = j.match
    BY DEF Job
  <2>2. \A k \in Job : dispatch'[k] # "none" => uploads[k.match] > 0
    BY <1>2, <1>6, <2>1 DEF DispatchFails
  <2> QED
    BY <1>1, <1>2, <1>6, <2>2, MessagesMove DEF DispatchFails
<1>7. ASSUME NEW j \in Job, Reappear(j)
      PROVE  JobsInv'
  BY <1>1, <1>2, <1>7, MessagesMove DEF Reappear, JobsTypeOK
<1>8. ASSUME NEW j \in Job, Redrive(j)
      PROVE  JobsInv'
  BY <1>1, <1>2, <1>8, MessagesMove DEF Redrive, JobsTypeOK
<1>9. ASSUME NEW t \in Task, NEW j \in Job, ReceiveMessage(t, j)
      PROVE  JobsInv'
  <2> DEFINE x == [IdleTask EXCEPT !.pc = "received", !.job = j,
                                   !.receipt = jobs[j].receives + 1]
  <2>1. x.pc = "received" /\ x.job = j
    BY DEF IdleTask
  <2>2. task' = [task EXCEPT ![t] = x]
    BY <1>9 DEF ReceiveMessage, JobReceivable
  <2>3. /\ \A k \in Job : jobs'[k].place # "unsent" => uploads[k.match] > 0
        /\ \A k \in Job : jobs'[k].place = "deleted" => k.match \in marker
    BY <1>1, <1>2, <1>9 DEF ReceiveMessage, JobReceivable, JobsTypeOK
  <2>4. uploads[j.match] > 0
    BY <1>2, <1>9 DEF ReceiveMessage, JobReceivable
  <2> HIDE DEF x
  <2> QED
    BY <1>1, <1>9, <2>1, <2>2, <2>3, <2>4, TaskMovesOn DEF ReceiveMessage, JobReceivable
<1>10. ASSUME NEW t \in Task, CheckMarker(t)
       PROVE  JobsInv'
  BY <1>1, <1>10, CheckKeepsInv
<1>11. ASSUME NEW t \in Task, DeleteSkipped(t) \/ DeleteJob(t)
       PROVE  JobsInv'
  <2>1. task[t].job.match \in marker /\ task[t].pc # "idle"
    BY <1>11 DEF JobsInv, DoneIsMarked, DeleteSkipped, DeleteJob
  <2>2. \/ jobs' = jobs
        \/ jobs' = [jobs EXCEPT ![task[t].job].place = "deleted"]
    BY <1>1, <1>11, <2>1, DeleteType DEF DeleteSkipped, DeleteJob
  <2>3. task[t].job \in Job
    BY <1>1, <2>1, WorkingTasks
  <2>4. /\ \A k \in Job : jobs'[k].place # "unsent" => uploads[k.match] > 0
        /\ \A k \in Job : jobs'[k].place = "deleted" => k.match \in marker
    BY <1>1, <1>2, <2>1, <2>2, <2>3 DEF JobsTypeOK
  <2>5. task' = [task EXCEPT ![t] = IdleTask] /\ IdleTask.pc = "idle"
    BY <1>11 DEF DeleteSkipped, DeleteJob, ToIdle, IdleTask
  <2> QED
    BY <1>1, <1>11, <2>4, <2>5, TaskMovesOn DEF DeleteSkipped, DeleteJob
<1>12. ASSUME NEW t \in Task,
              \/ SendProcessing(t) \/ TryFails(t)
              \/ task[t].pc = "writing" /\ EventsRejected(t)
       PROVE  JobsInv'
  <2> DEFINE x == [task[t] EXCEPT !.pc = task'[t].pc]
  <2>1. task[t].pc # "idle" /\ task[t] \in WorkingTask
    BY <1>1, <1>12, WorkingTasks
    DEF SendProcessing, TryFails, EventsRejected, CallsInTry, SendsInTry
  <2>2. /\ task' = [task EXCEPT ![t] = x]
        /\ x.pc \in {"download", "failing"} /\ x.job = task[t].job
    BY <1>1, <1>12, <2>1
    DEF SendProcessing, TryFails, EventsRejected, Goto, WorkingTask, JobsTypeOK
  <2>3. \A c \in callbacks' : c \in callbacks \/ c.status # "completed"
    BY <1>12 DEF SendProcessing, TryFails, EventsRejected, Send, StatusCallback
  <2>4. uploads[x.job.match] > 0
    BY <1>2, <2>1, <2>2
  <2>5. UNCHANGED <<uploads, rawVideo, dispatch, jobs, marker, written>>
    BY <1>12 DEF SendProcessing, TryFails, EventsRejected
  <2> HIDE DEF x
  <2> QED
    BY <1>1, <1>2, <2>2, <2>3, <2>4, <2>5, TaskMovesOn
<1>13. ASSUME NEW t \in Task, Download(t)
       PROVE  JobsInv'
  BY <1>1, <1>13, DownloadKeepsInv
<1>14. ASSUME NEW t \in Task, task[t].pc = "writing", StoreItem(t)
       PROVE  JobsInv'
  BY <1>1, <1>14, WriteKeepsInv
<1>15. ASSUME NEW t \in Task, PutMarker(t)
       PROVE  JobsInv'
  BY <1>1, <1>15, MarkerKeepsInv
<1>16. ASSUME NEW t \in Task, SendCompleted(t)
       PROVE  JobsInv'
  BY <1>1, <1>16, CompletedKeepsInv
<1>17. ASSUME NEW t \in Task,
              SendFailed(t) \/ FailsOutsideTry(t) \/ SendFailedFails(t) \/ Crash(t)
       PROVE  JobsInv'
  <2>1. task' = [task EXCEPT ![t] = IdleTask] /\ IdleTask.pc = "idle"
    BY <1>17
    DEF SendFailed, FailsOutsideTry, SendFailedFails, Crash, ToIdle, IdleTask
  <2>2. \A c \in callbacks' : c \in callbacks \/ c.status # "completed"
    BY <1>17
    DEF SendFailed, FailsOutsideTry, SendFailedFails, Crash, Send, StatusCallback
  <2>3. UNCHANGED <<uploads, rawVideo, dispatch, jobs, marker, written>>
    BY <1>17 DEF SendFailed, FailsOutsideTry, SendFailedFails, Crash
  <2> QED
    BY <1>1, <1>2, <2>1, <2>2, <2>3, TaskMovesOn
<1>18. ASSUME UNCHANGED jobsVars
       PROVE  JobsInv'
  BY <1>1, <1>2, <1>18, MessagesMove DEF jobsVars
<1> QED
  BY <1>3, <1>4, <1>5, <1>6, <1>7, <1>8, <1>9, <1>10, <1>11, <1>12, <1>13, <1>14,
     <1>15, <1>16, <1>17, <1>18
  DEF JobsNext, JobsStep, DispatchStep, QueueStep, VisibilityTimeout, Overrun,
      WorkerStep, WriteItem, WorkerFault

(* The inductive invariant holds throughout. *)
THEOREM JobsInvariant == JobsSafetySpec => []JobsInv
  BY InvInit, InvStep, PTL DEF JobsSafetySpec
-----------------------------------------------------------------------------
(* The properties of the runs, for all constants.                            *)

(* No interleaving of attempts, crashes and raised errors lets an event     *)
(* item be put before its raw clip was uploaded.                            *)
THEOREM ClipsBeforeEvents == JobsSafetySpec => []ClipBeforeEvent
  BY JobsInvariant, PTL DEF JobsInv

(* A MARKER#COMPLETED item is only put when the complete results have been. *)
THEOREM MarkersAreEarned == JobsSafetySpec => []MarkerAfterResults
  BY JobsInvariant, PTL DEF JobsInv

(* delete_message is never called for a job whose match is not done.        *)
THEOREM NoJobIsLost == JobsSafetySpec => []JobDeletedOnlyWhenDone
  BY JobsInvariant, PTL DEF JobsInv

(* However often a once-uploaded match is retried, no item is written that a *)
(* single attempt would not have written.                                    *)
THEOREM RetriesOverwrite == JobsSafetySpec => []NoDuplicateHighlights
  BY JobsInvariant, PTL DEF JobsInv

(* Racing attempts send at most one completed callback per match, after the *)
(* marker.                                                                  *)
THEOREM CompletedIsSentOnce == JobsSafetySpec => []CompletedOnce
  BY JobsInvariant, PTL DEF JobsInv
-----------------------------------------------------------------------------
(* The analysis side implements HighlightResults.                            *)

Notices == {<<c.job.match, c>> : c \in {d \in callbacks : d.status = "completed"}}

(* A step that leaves tables and completed callbacks alone is a stutter.    *)
LEMMA Stutters ==
  ASSUME UNCHANGED <<written, marker>>,
         \A c : c.status = "completed" => (c \in callbacks' <=> c \in callbacks)
  PROVE  UNCHANGED <<written, marker, Notices>>
  BY DEF Notices

(* Sending a completed callback is the Announce of the abstract             *)
(* specification when the match is done and none was sent about it before.  *)
LEMMA CompletedIsAnnounced ==
  ASSUME NEW m \in Match, NEW n \in Callback,
         n.status = "completed", n.job.match = m, m \in marker,
         \A c \in callbacks : c.status = "completed" => c.job.match # m,
         callbacks' = callbacks \cup {n}, UNCHANGED <<written, marker>>
  PROVE  Results!Next
<1>1. Notices' = Notices \cup {<<m, n>>}
  BY DEF Notices
<1>2. \A k \in Notices : k[1] # m
  BY DEF Notices
<1>3. Results!Announce(m, n)
  BY <1>1, <1>2 DEF Results!Announce, Notices
<1> QED
  BY <1>3 DEF Results!Next

(* The writes, the marker and the completed callback are the steps of the   *)
(* abstract specification; every other action is a stutter.                 *)
LEMMA ResultsStep ==
  ASSUME JobsInv, JobsInv', [JobsNext]_jobsVars
  PROVE  [Results!Next]_<<written, marker, Notices>>
<1> USE DEF JobsInv
<1>1. ASSUME NEW t \in Task, task[t].pc = "writing", StoreItem(t)
      PROVE  Results!Next
  <2> DEFINE m == task[t].job.match
             v == task[t].video
  <2>1. /\ m \in Match /\ v \in Video /\ task[t].todo \in SUBSET ItemsOf(v)
        /\ ItemsOf(v) \ task[t].todo \subseteq written[m]
    BY <1>1, WorkingTasks DEF StoreItem, WritesKept
  <2>2. PICK i \in NextWrites(task[t].todo) :
          written' = [written EXCEPT ![m] = @ \cup {i}]
    BY <1>1 DEF StoreItem
  <2>3. i \in Item /\ (i[1] = "event" => <<"clip", i[2]>> \in written[m])
    BY <2>1, <2>2, NextWriteFacts, ItemsOfType
  <2>4. UNCHANGED <<marker, Notices>>
    BY <1>1 DEF StoreItem, Notices
  <2>5. Results!Store(m, i)
    BY <2>2, <2>3, <2>4 DEF Results!Store, Notices
  <2> QED
    BY <2>1, <2>3, <2>5 DEF Results!Next
<1>2. ASSUME NEW t \in Task, PutMarker(t)
      PROVE  Results!Next \/ UNCHANGED <<written, marker, Notices>>
  <2> DEFINE m == task[t].job.match
             v == task[t].video
  <2>1. /\ m \in Match /\ v \in Video /\ ItemsOf(v) \subseteq written[m]
    BY <1>2, WorkingTasks DEF PutMarker, WritesKept
  <2>2. marker' = marker \cup {m} /\ UNCHANGED <<written, Notices>>
    BY <1>2 DEF PutMarker, Notices
  <2>3. CASE m \in marker
    BY <2>2, <2>3
  <2>4. CASE m \notin marker
    <3>1. Results!Finish(m)
      BY <2>1, <2>2, <2>4 DEF Results!Finish, Notices
    <3> QED
      BY <2>1, <3>1 DEF Results!Next
  <2> QED
    BY <2>3, <2>4
<1>3. ASSUME NEW t \in Task, SendCompleted(t)
      PROVE  Results!Next
  <2> DEFINE m == task[t].job.match
             n == StatusCallback(task[t].job, task[t].receipt, "completed")
  <2>1. /\ m \in Match /\ m \in marker
        /\ \A c \in callbacks : c.status = "completed" => c.job.match # m
    BY <1>3, WorkingTasks DEF SendCompleted, DoneIsMarked, OneAnnouncer
  <2>2. /\ callbacks' = callbacks \cup {n}
        /\ n \in Callback /\ n.status = "completed" /\ n.job.match = m
    BY <1>3, WorkerCallbackType
    DEF SendCompleted, Send, StatusCallback, CallbackStatus
  <2>3. UNCHANGED <<written, marker>>
    BY <1>3 DEF SendCompleted
  <2> QED
    BY <2>1, <2>2, <2>3, CompletedIsAnnounced
<1>4. ASSUME NEW c, callbacks' = callbacks \cup {c}, c.status # "completed",
             UNCHANGED <<written, marker>>
      PROVE  UNCHANGED <<written, marker, Notices>>
  BY <1>4, Stutters
<1>5. ASSUME NEW m \in Match, NEW v \in Video, Upload(m, v)
      PROVE  UNCHANGED <<written, marker, Notices>>
  BY <1>5 DEF Upload, Notices
<1>6. ASSUME NEW j \in Job, DispatchStep(j)
      PROVE  UNCHANGED <<written, marker, Notices>>
  BY <1>4, <1>6
  DEF DispatchStep, SendJob, SendDispatchStatus, Send, StatusCallback, Notices
<1>7. ASSUME NEW j \in Job, DispatchFails(j) \/ QueueStep(j) \/ Overrun(j)
      PROVE  UNCHANGED <<written, marker, Notices>>
  BY <1>7
  DEF DispatchFails, QueueStep, VisibilityTimeout, Redrive, Overrun, Reappear, Notices
<1>8. ASSUME NEW t \in Task, NEW j \in Job, ReceiveMessage(t, j)
      PROVE  UNCHANGED <<written, marker, Notices>>
  BY <1>8 DEF ReceiveMessage, Notices
<1>9. ASSUME NEW t \in Task,
             \/ CheckMarker(t) \/ DeleteSkipped(t) \/ Download(t)
             \/ EventsRejected(t) \/ DeleteJob(t)
      PROVE  UNCHANGED <<written, marker, Notices>>
  BY <1>9
  DEF CheckMarker, DeleteSkipped, Download, EventsRejected, DeleteJob, Notices
<1>10. ASSUME NEW t \in Task, SendProcessing(t) \/ SendFailed(t)
       PROVE  UNCHANGED <<written, marker, Notices>>
  <2>1. \A s \in {"processing", "failed"} :
          StatusCallback(task[t].job, task[t].receipt, s).status # "completed"
    BY DEF StatusCallback
  <2>2. UNCHANGED <<written, marker>>
    BY <1>10 DEF SendProcessing, SendFailed
  <2>3. PICK s \in {"processing", "failed"} :
          callbacks' = callbacks \cup {StatusCallback(task[t].job, task[t].receipt, s)}
    BY <1>10 DEF SendProcessing, SendFailed, Send
  <2> QED
    BY <1>4, <2>1, <2>2, <2>3
<1>11. ASSUME NEW t \in Task, WorkerFault(t)
       PROVE  UNCHANGED <<written, marker, Notices>>
  BY <1>11
  DEF WorkerFault, TryFails, FailsOutsideTry, SendFailedFails, Crash, Notices
<1>12. ASSUME UNCHANGED jobsVars
       PROVE  UNCHANGED <<written, marker, Notices>>
  BY <1>12 DEF jobsVars, Notices
<1> QED
  BY <1>1, <1>2, <1>3, <1>5, <1>6, <1>7, <1>8, <1>9, <1>10, <1>11, <1>12
  DEF JobsNext, JobsStep, WorkerStep, WriteItem

(* Queue, retries, races and faults included, what readers see of the       *)
(* tables and of the completed callbacks is a behaviour of HighlightResults. *)
THEOREM AnalysisImplementsResults == JobsSafetySpec => ImplementsHighlightResults
<1>1. JobsInit => Results!Init
  BY DEF JobsInit, Results!Init
<1>2. JobsInv /\ JobsInv' /\ [JobsNext]_jobsVars => [Results!Next]_Results!vars
  BY ResultsStep DEF Results!vars, Notices
<1> QED
  BY <1>1, <1>2, JobsInvariant, PTL
  DEF JobsSafetySpec, ImplementsHighlightResults, Results!Spec
-----------------------------------------------------------------------------
(* What has an end keeps it.                                                 *)

(* Lambda's tries of an upload come one after the other, each with a message *)
(* of its own.                                                               *)
TriesInOrder ==
  /\ \A j \in Job : dispatch[j] \in {"none", "pending"} => jobs[j].place = "unsent"
  /\ \A j \in Job : dispatch[j] # "none" => j.upload <= uploads[j.match]
  /\ \A j, k \in Job : k = [j EXCEPT !.try = @ + 1] /\ dispatch[k] # "none"
                         => dispatch[j] = "failed"
  /\ \A t \in Task : task[t].pc # "idle" => jobs[task[t].job].place # "unsent"

(* The next try of a dispatch that is under way has not begun. *)
LEMMA NextTryIsNew ==
  ASSUME TriesInOrder, NEW j \in Job, dispatch[j] \in {"pending", "jobSent"},
         NEW k \in Job, k = [j EXCEPT !.try = @ + 1]
  PROVE  dispatch[k] = "none" /\ jobs[k].place = "unsent" /\ k # j
         /\ k.upload = j.upload /\ k.match = j.match
<1>1. dispatch[k] = "none"
  BY DEF TriesInOrder
<1>2. k.upload = j.upload /\ k.match = j.match
  BY DEF Job
<1> QED
  BY <1>1, <1>2 DEF TriesInOrder

(* Nor has the first try of the next upload. *)
LEMMA NextUploadIsNew ==
  ASSUME JobsTypeOK, TriesInOrder, NEW m \in Match, uploads[m] < MaxUploads
  PROVE  LET j == [match |-> m, upload |-> uploads[m] + 1, try |-> 1]
         IN  j \in Job /\ dispatch[j] = "none" /\ jobs[j].place = "unsent"
<1> DEFINE j == [match |-> m, upload |-> uploads[m] + 1, try |-> 1]
<1>1. uploads[m] \in Nat /\ uploads[m] + 1 \in 1..MaxUploads /\ 1 \in 1..MaxTries
  BY CallbackAssumptions DEF JobsTypeOK
<1>2. j \in Job /\ j.match = m /\ j.upload = uploads[m] + 1
  BY <1>1 DEF Job
<1> HIDE DEF j
<1>3. ~(j.upload <= uploads[j.match])
  BY <1>1, <1>2
<1>4. dispatch[j] = "none" /\ jobs[j].place = "unsent"
  BY <1>2, <1>3 DEF TriesInOrder
<1> QED
  BY <1>2, <1>4 DEF j

(* What a step does to messages: none that was not sent is moved, and none  *)
(* that was is ever unsent.                                                 *)
LEMMA OnlySentMessagesMove ==
  ASSUME JobsTypeOK, [JobsNext]_jobsVars, NEW k \in Job
  PROVE  \/ jobs'[k].place = jobs[k].place
         \/ SendJob(k)
         \/ /\ jobs[k].place \in {"visible", "inflight"}
            /\ jobs'[k].place # "unsent"
            /\ dispatch' = dispatch /\ uploads' = uploads
         \/ \E t \in Task : task[t].pc # "idle" /\ DeleteWithReceipt(t) /\ task[t].job = k
                             /\ dispatch' = dispatch /\ uploads' = uploads
<1>1. CASE jobs' = jobs
  BY <1>1
<1>2. ASSUME NEW j \in Job, SendJob(j)
      PROVE  jobs'[k].place = jobs[k].place \/ SendJob(k)
  BY <1>2 DEF SendJob, JobsTypeOK
<1>3. ASSUME NEW j \in Job, Reappear(j) \/ Redrive(j) \/ \E t \in Task : ReceiveMessage(t, j)
      PROVE  \/ jobs'[k].place = jobs[k].place
             \/ /\ jobs[k].place \in {"visible", "inflight"}
                /\ jobs'[k].place # "unsent"
                /\ dispatch' = dispatch /\ uploads' = uploads
  BY <1>3 DEF Reappear, Redrive, ReceiveMessage, JobReceivable, JobsTypeOK
<1>4. ASSUME NEW t \in Task, DeleteSkipped(t) \/ DeleteJob(t)
      PROVE  \/ jobs'[k].place = jobs[k].place
             \/ /\ task[t].pc # "idle" /\ DeleteWithReceipt(t) /\ task[t].job = k
                /\ dispatch' = dispatch /\ uploads' = uploads
  <2>1. /\ task[t].pc # "idle" /\ DeleteWithReceipt(t)
        /\ dispatch' = dispatch /\ uploads' = uploads
    BY <1>4 DEF DeleteSkipped, DeleteJob
  <2>2. \/ jobs' = jobs
        \/ jobs' = [jobs EXCEPT ![task[t].job].place = "deleted"]
    BY <2>1, DeleteType
  <2> QED
    BY <2>1, <2>2 DEF JobsTypeOK
<1>5. \/ jobs' = jobs
      \/ \E j \in Job : SendJob(j)
      \/ \E j \in Job : Reappear(j) \/ Redrive(j) \/ \E t \in Task : ReceiveMessage(t, j)
      \/ \E t \in Task : DeleteSkipped(t) \/ DeleteJob(t)
  BY DEF JobsNext, JobsStep, DispatchStep, QueueStep, VisibilityTimeout, Overrun,
         WorkerStep, WorkerFault, Upload, SendDispatchStatus, DispatchFails,
         CheckMarker, SendProcessing, Download, WriteItem, StoreItem, EventsRejected,
         PutMarker, SendCompleted, SendFailed, TryFails, FailsOutsideTry,
         SendFailedFails, Crash, jobsVars
<1> QED
  BY <1>1, <1>2, <1>3, <1>4, <1>5

SameJob(t) == task'[t].job = task[t].job /\ task'[t].receipt = task[t].receipt

JustReceived(t) ==
  LET j == task'[t].job IN
  /\ j \in Job /\ ReceiveMessage(t, j)
  /\ jobs'[j].place = "inflight" /\ jobs'[j].receives = task'[t].receipt

(* A task only changes jobs by receiving one. *)
LEMMA TasksKeepJobs ==
  ASSUME JobsTypeOK, [JobsNext]_jobsVars, NEW t \in Task, task'[t].pc # "idle"
  PROVE  \/ task[t].pc # "idle" /\ SameJob(t)
         \/ JustReceived(t)
<1>1. CASE task' = task
  BY <1>1 DEF SameJob
<1>2. ASSUME NEW u \in Task, NEW j \in Job, ReceiveMessage(u, j)
      PROVE  task'[t] = task[t] \/ JustReceived(t)
  <2>1. CASE t # u
    BY <1>2, <2>1 DEF ReceiveMessage, JobsTypeOK
  <2>2. CASE t = u
    <3>1. task'[t].job = j /\ task'[t].receipt = jobs[j].receives + 1
      BY <1>2, <2>2 DEF ReceiveMessage, JobsTypeOK, IdleTask
    <3>2. jobs'[j].place = "inflight" /\ jobs'[j].receives = jobs[j].receives + 1
      BY <1>2 DEF ReceiveMessage, JobsTypeOK
    <3> QED
      BY <1>2, <2>2, <3>1, <3>2 DEF JustReceived
  <2> QED
    BY <2>1, <2>2
<1>3. ASSUME NEW u \in Task, NEW pc \in Working, Goto(u, pc)
      PROVE  SameJob(t) /\ (t # u => task'[t] = task[t])
  BY <1>3 DEF SameJob, Goto, JobsTypeOK, IdleTask, WorkingTask
<1>4. ASSUME NEW u \in Task, ToIdle(u)
      PROVE  task'[t] = task[t]
  BY <1>4 DEF ToIdle, JobsTypeOK, IdleTask
<1>5. ASSUME NEW u \in Task, task[u].pc # "idle", Download(u) \/ StoreItem(u)
      PROVE  SameJob(t) /\ task[t].pc # "idle"
  <2>1. task[u] \in WorkingTask
    BY <1>5, WorkingTasks
  <2>2. PICK x : /\ task' = [task EXCEPT ![u] = x]
                 /\ x.job = task[u].job /\ x.receipt = task[u].receipt
    <3>1. CASE Download(u)
      <4> DEFINE v == rawVideo[task[u].job.match]
                 x == [task[u] EXCEPT !.pc = "writing", !.video = v, !.todo = ItemsOf(v)]
      <4>1. task' = [task EXCEPT ![u] = x]
        BY <3>1 DEF Download
      <4>2. x.job = task[u].job /\ x.receipt = task[u].receipt
        BY <2>1 DEF WorkingTask
      <4> HIDE DEF x
      <4> QED
        BY <4>1, <4>2
    <3>2. CASE StoreItem(u)
      <4>1. PICK i : task' = [task EXCEPT ![u].todo = @ \ {i}]
        BY <3>2 DEF StoreItem
      <4>2. /\ [task[u] EXCEPT !.todo = @ \ {i}].job = task[u].job
            /\ [task[u] EXCEPT !.todo = @ \ {i}].receipt = task[u].receipt
        BY <2>1 DEF WorkingTask
      <4> QED
        BY <4>1, <4>2
    <3> QED
      BY <1>5, <3>1, <3>2
  <2>3. task'[t] = IF t = u THEN x ELSE task[t]
    BY <2>2 DEF JobsTypeOK
  <2>4. t # u => task[t].pc # "idle"
    BY <2>3
  <2> QED
    BY <1>5, <2>2, <2>3, <2>4 DEF SameJob
<1>6. ASSUME NEW u \in Task,
             \/ CheckMarker(u) \/ SendProcessing(u) \/ PutMarker(u) \/ SendCompleted(u)
             \/ TryFails(u) \/ (task[u].pc = "writing" /\ EventsRejected(u))
      PROVE  task[u].pc # "idle" /\ \E pc \in Working : Goto(u, pc)
  BY <1>6
  DEF CheckMarker, SendProcessing, PutMarker, SendCompleted, TryFails, EventsRejected,
      CallsInTry, SendsInTry, Working
<1>7. ASSUME NEW u \in Task,
             \/ DeleteSkipped(u) \/ DeleteJob(u) \/ SendFailed(u)
             \/ FailsOutsideTry(u) \/ SendFailedFails(u) \/ Crash(u)
      PROVE  ToIdle(u)
  BY <1>7
  DEF DeleteSkipped, DeleteJob, SendFailed, FailsOutsideTry, SendFailedFails, Crash
<1>8. ASSUME NEW u \in Task, WorkerStep(u) \/ WorkerFault(u)
      PROVE  \/ task[t].pc # "idle" /\ SameJob(t)
             \/ task'[t] = task[t]
  <2>1. CASE \/ CheckMarker(u) \/ SendProcessing(u) \/ PutMarker(u) \/ SendCompleted(u)
             \/ TryFails(u) \/ (task[u].pc = "writing" /\ EventsRejected(u))
    BY <1>3, <1>6, <2>1
  <2>2. CASE \/ DeleteSkipped(u) \/ DeleteJob(u) \/ SendFailed(u)
             \/ FailsOutsideTry(u) \/ SendFailedFails(u) \/ Crash(u)
    BY <1>4, <1>7, <2>2
  <2>3. CASE Download(u) \/ (task[u].pc = "writing" /\ StoreItem(u))
    <3>1. task[u].pc # "idle"
      BY <2>3 DEF Download
    <3> QED
      BY <1>5, <2>3, <3>1
  <2> QED
    BY <1>8, <2>1, <2>2, <2>3 DEF WorkerStep, WorkerFault, WriteItem
<1>9. \/ task' = task
      \/ \E u \in Task, j \in Job : ReceiveMessage(u, j)
      \/ \E u \in Task : WorkerStep(u) \/ WorkerFault(u)
  BY DEF JobsNext, JobsStep, DispatchStep, QueueStep, VisibilityTimeout, Overrun,
         Upload, SendJob, SendDispatchStatus, DispatchFails, Reappear, Redrive, jobsVars
<1> QED
  BY <1>1, <1>2, <1>8, <1>9 DEF SameJob

LEMMA DeletePlaces ==
  ASSUME JobsTypeOK, NEW t \in Task, task[t].pc # "idle", DeleteWithReceipt(t), NEW k \in Job
  PROVE  jobs'[k].place \in {jobs[k].place, "deleted"}
<1>1. \/ jobs' = jobs
      \/ jobs' = [jobs EXCEPT ![task[t].job].place = "deleted"]
  BY DeleteType
<1>2. jobs[k] \in [place : {"unsent", "visible", "inflight", "deleted", "dlq"},
                   receives : 0..MaxJobReceives] /\ DOMAIN jobs = Job
  BY DEF JobsTypeOK
<1>3. CASE jobs' = jobs
  BY <1>3
<1>4. CASE jobs' = [jobs EXCEPT ![task[t].job].place = "deleted"]
  <2>1. CASE k = task[t].job
    BY <1>2, <1>4, <2>1
  <2>2. CASE k # task[t].job
    BY <1>2, <1>4, <2>2
  <2> QED
    BY <2>1, <2>2
<1> QED
  BY <1>1, <1>3, <1>4

LEMMA TriesInOrderStep ==
  ASSUME JobsTypeOK, TriesInOrder, [JobsNext]_jobsVars
  PROVE  TriesInOrder'
<1> DEFINE Next(j) == [j EXCEPT !.try = @ + 1]
<1>1. \A m \in Match : uploads[m] \in Nat
  BY CallbackAssumptions DEF JobsTypeOK
<1>2. ASSUME NEW k \in Job, jobs[k].place = "unsent"
      PROVE  jobs'[k].place = "unsent" \/ SendJob(k)
  BY <1>2, OnlySentMessagesMove DEF TriesInOrder
<1>3. ASSUME NEW k \in Job, jobs[k].place # "unsent"
      PROVE  jobs'[k].place # "unsent"
  <2>1. SendJob(k) => jobs'[k].place # "unsent"
    BY DEF SendJob, JobsTypeOK
  <2>2. ASSUME NEW t \in Task, task[t].pc # "idle", DeleteWithReceipt(t)
        PROVE  jobs'[k].place \in {jobs[k].place, "deleted"}
    BY <2>2, DeletePlaces
  <2> QED
    BY <1>3, <2>1, <2>2, OnlySentMessagesMove
<1>4. ASSUME NEW t \in Task, task'[t].pc # "idle"
      PROVE  jobs'[task'[t].job].place # "unsent"
  <2>1. CASE task[t].pc # "idle" /\ SameJob(t)
    <3>1. task[t].job \in Job /\ jobs[task[t].job].place # "unsent"
      BY <2>1, WorkingTasks DEF TriesInOrder
    <3> QED
      BY <1>3, <2>1, <3>1 DEF SameJob
  <2> QED
    BY <1>4, <2>1, TasksKeepJobs DEF JustReceived
<1>5. CASE UNCHANGED <<dispatch, uploads>>
  <2>1. \A k \in Job : ~SendJob(k)
    BY <1>5 DEF SendJob, JobsTypeOK
  <2> QED
    BY <1>2, <1>4, <1>5, <2>1 DEF TriesInOrder
<1>6. ASSUME NEW m \in Match, NEW v \in Video, Upload(m, v), dispatch' # dispatch
      PROVE  TriesInOrder'
  <2> DEFINE j == [match |-> m, upload |-> uploads[m] + 1, try |-> 1]
  <2>1. /\ uploads' = [uploads EXCEPT ![m] = @ + 1] /\ jobs' = jobs
        /\ dispatch' = [dispatch EXCEPT ![j] = "pending"]
    BY <1>6 DEF Upload
  <2>2. j \in Job /\ dispatch[j] = "none" /\ jobs[j].place = "unsent"
    BY <1>6, NextUploadIsNew DEF Upload
  <2>3. j.match = m /\ j.upload = uploads[m] + 1 /\ j.try = 1
    OBVIOUS
  <2>4. \A k \in Job : Next(k) # j
    <3> SUFFICES ASSUME NEW k \in Job, Next(k) = j PROVE FALSE
      OBVIOUS
    <3>1. k.try \in Nat \ {0} /\ Next(k).try = k.try + 1
      BY CallbackAssumptions DEF Job
    <3> QED
      BY <2>3, <3>1
  <2> HIDE DEF j, Next
  <2>5. \A k \in Job : dispatch'[k] = IF k = j THEN "pending" ELSE dispatch[k]
    BY <2>1 DEF JobsTypeOK
  <2>6. \A k \in Job : dispatch'[k] \in {"none", "pending"} => jobs'[k].place = "unsent"
    BY <2>1, <2>2, <2>5 DEF TriesInOrder
  <2>7. \A k \in Job : dispatch'[k] # "none" => k.upload <= uploads'[k.match]
    <3> SUFFICES ASSUME NEW k \in Job, dispatch'[k] # "none"
                 PROVE  k.upload <= uploads'[k.match]
      OBVIOUS
    <3>1. k.match \in Match /\ k.upload \in Nat
      BY CallbackAssumptions DEF Job
    <3>2. uploads'[k.match] = IF k.match = m THEN uploads[m] + 1 ELSE uploads[k.match]
      BY <2>1, <3>1 DEF JobsTypeOK
    <3>3. CASE k = j
      BY <1>1, <2>3, <3>2, <3>3
    <3>4. CASE k # j
      BY <1>1, <2>5, <3>1, <3>2, <3>4 DEF TriesInOrder
    <3> QED
      BY <3>3, <3>4
  <2>8. \A i, k \in Job : k = Next(i) /\ dispatch'[k] # "none" => dispatch'[i] = "failed"
    BY <2>2, <2>4, <2>5 DEF TriesInOrder, Next
  <2> QED
    BY <1>4, <2>6, <2>7, <2>8 DEF TriesInOrder, Next
<1>7. ASSUME NEW j \in Job, SendJob(j) \/ SendDispatchStatus(j)
      PROVE  TriesInOrder'
  <2>1. /\ uploads' = uploads /\ dispatch[j] \in {"pending", "jobSent"}
        /\ dispatch' = [dispatch EXCEPT ![j] = dispatch'[j]]
        /\ dispatch'[j] \in {"jobSent", "done"}
    BY <1>7 DEF SendJob, SendDispatchStatus, JobsTypeOK
  <2>2. \A k \in Job : k # j => dispatch'[k] = dispatch[k] /\ ~SendJob(k)
    BY <1>7, <2>1 DEF JobsTypeOK, SendJob
  <2>3. \A k \in Job : dispatch'[k] \in {"none", "pending"} => jobs'[k].place = "unsent"
    BY <1>2, <2>1, <2>2 DEF TriesInOrder
  <2>4. \A k \in Job : dispatch'[k] # "none" => k.upload <= uploads'[k.match]
    BY <2>1, <2>2 DEF TriesInOrder
  <2> HIDE DEF Next
  <2>5. \A i, k \in Job : k = Next(i) /\ dispatch'[k] # "none" => dispatch'[i] = "failed"
    <3> SUFFICES ASSUME NEW i \in Job, NEW k \in Job, k = Next(i), dispatch'[k] # "none"
                 PROVE  dispatch'[i] = "failed"
      OBVIOUS
    <3>1. dispatch[k] # "none"
      BY <2>1, <2>2
    <3>2. dispatch[i] = "failed"
      BY <3>1 DEF TriesInOrder, Next
    <3> QED
      BY <2>1, <2>2, <3>2
  <2> QED
    BY <1>4, <2>3, <2>4, <2>5 DEF TriesInOrder, Next
<1>8. ASSUME NEW j \in Job, DispatchFails(j)
      PROVE  TriesInOrder'
  <2>1. /\ uploads' = uploads /\ jobs' = jobs /\ dispatch[j] \in {"pending", "jobSent"}
        /\ \A k \in Job : dispatch'[k] = IF k = j THEN "failed"
                                        ELSE IF k = Next(j) THEN "pending" ELSE dispatch[k]
    BY <1>8 DEF DispatchFails
  <2>2. ASSUME NEW k \in Job, k = Next(j)
        PROVE  /\ dispatch[k] = "none" /\ jobs[k].place = "unsent" /\ k # j
               /\ k.upload = j.upload /\ k.match = j.match
    BY <2>1, <2>2, NextTryIsNew
  <2>3. \A i, k \in Job : Next(i) = Next(j) /\ k = Next(i) => i = j
    <3> SUFFICES ASSUME NEW i \in Job, Next(i) = Next(j)
                 PROVE  i = j
      OBVIOUS
    <3>1. /\ i = [match |-> i.match, upload |-> i.upload, try |-> i.try]
          /\ j = [match |-> j.match, upload |-> j.upload, try |-> j.try]
          /\ i.try \in Nat /\ j.try \in Nat
      BY CallbackAssumptions DEF Job
    <3>2. /\ Next(i).match = i.match /\ Next(i).upload = i.upload /\ Next(i).try = i.try + 1
          /\ Next(j).match = j.match /\ Next(j).upload = j.upload /\ Next(j).try = j.try + 1
      BY DEF Job
    <3>3. i.match = j.match /\ i.upload = j.upload /\ i.try + 1 = j.try + 1
      BY <3>2
    <3>4. i.try = j.try
      BY <3>1, <3>3
    <3> QED
      BY <3>1, <3>3, <3>4
  <2> HIDE DEF Next
  <2>4. \A k \in Job : dispatch'[k] \in {"none", "pending"} => jobs'[k].place = "unsent"
    BY <2>1, <2>2 DEF TriesInOrder
  <2>5. \A k \in Job : dispatch'[k] # "none" => k.upload <= uploads'[k.match]
    <3> SUFFICES ASSUME NEW k \in Job, dispatch'[k] # "none"
                 PROVE  k.upload <= uploads[k.match]
      BY <2>1
    <3>1. dispatch[j] # "none" /\ j.upload <= uploads[j.match]
      BY <2>1 DEF TriesInOrder
    <3>2. CASE k = j
      BY <3>1, <3>2
    <3>3. CASE k = Next(j)
      BY <2>2, <3>1, <3>3
    <3>4. CASE k # j /\ k # Next(j)
      BY <2>1, <3>4 DEF TriesInOrder
    <3> QED
      BY <3>2, <3>3, <3>4
  <2>6. \A i, k \in Job : k = Next(i) /\ dispatch'[k] # "none" => dispatch'[i] = "failed"
    <3> SUFFICES ASSUME NEW i \in Job, NEW k \in Job, k = Next(i), dispatch'[k] # "none"
                 PROVE  dispatch'[i] = "failed"
      OBVIOUS
    <3>1. CASE i = j
      BY <2>1, <3>1
    <3>2. CASE i # j
      <4>1. k # Next(j)
        BY <2>3, <3>2
      <4>2. dispatch[k] # "none"
        BY <2>1, <4>1
      <4>3. dispatch[i] = "failed"
        BY <4>2 DEF TriesInOrder, Next
      <4>4. i # Next(j)
        BY <2>2, <4>3
      <4> QED
        BY <2>1, <3>2, <4>3, <4>4
    <3> QED
      BY <3>1, <3>2
  <2> QED
    BY <1>4, <2>4, <2>5, <2>6 DEF TriesInOrder, Next
<1>9. ASSUME NEW m \in Match, NEW v \in Video, Upload(m, v), dispatch' = dispatch
      PROVE  TriesInOrder'
  <2>1. jobs' = jobs /\ uploads' = [uploads EXCEPT ![m] = @ + 1]
    BY <1>9 DEF Upload
  <2>2. ASSUME NEW k \in Job, dispatch[k] # "none"
        PROVE  k.upload <= uploads'[k.match]
    <3>1. k.match \in Match /\ k.upload \in Nat /\ k.upload <= uploads[k.match]
      BY <2>2, CallbackAssumptions DEF Job, TriesInOrder
    <3>2. uploads'[k.match] = IF k.match = m THEN uploads[m] + 1 ELSE uploads[k.match]
      BY <2>1, <3>1 DEF JobsTypeOK
    <3> QED
      BY <1>1, <3>1, <3>2
  <2> QED
    BY <1>4, <1>9, <2>1, <2>2 DEF TriesInOrder
<1>10. \/ UNCHANGED <<dispatch, uploads>>
       \/ \E m \in Match, v \in Video : Upload(m, v)
       \/ \E j \in Job : SendJob(j) \/ SendDispatchStatus(j) \/ DispatchFails(j)
  BY DEF JobsNext, JobsStep, DispatchStep, QueueStep, VisibilityTimeout, Overrun,
         Reappear, Redrive, ReceiveMessage, WorkerStep, WorkerFault,
         CheckMarker, SendProcessing, Download, WriteItem, StoreItem, EventsRejected,
         PutMarker, SendCompleted, SendFailed, TryFails, FailsOutsideTry, DeleteSkipped,
         DeleteJob, SendFailedFails, Crash, jobsVars
<1> QED
  BY <1>5, <1>6, <1>7, <1>8, <1>9, <1>10

(* No step takes up a dispatch that has failed or finished.                  *)
LEMMA DispatchesStay ==
  ASSUME JobsTypeOK, TriesInOrder, [JobsNext]_jobsVars, NEW j \in Job,
         dispatch[j] \in {"done", "failed"}
  PROVE  dispatch'[j] = dispatch[j]
<1>1. CASE dispatch' = dispatch
  BY <1>1
<1>2. ASSUME NEW m \in Match, NEW v \in Video, Upload(m, v)
      PROVE  dispatch'[j] = dispatch[j]
  <2> DEFINE k == [match |-> m, upload |-> uploads[m] + 1, try |-> 1]
  <2>1. dispatch' = dispatch \/ dispatch' = [dispatch EXCEPT ![k] = "pending"]
    BY <1>2 DEF Upload
  <2>2. dispatch[k] = "none" /\ k \in Job
    BY <1>2, NextUploadIsNew DEF Upload
  <2> HIDE DEF k
  <2> QED
    BY <2>1, <2>2 DEF JobsTypeOK
<1>3. ASSUME NEW k \in Job, SendJob(k) \/ SendDispatchStatus(k)
      PROVE  dispatch'[j] = dispatch[j]
  BY <1>3 DEF SendJob, SendDispatchStatus, JobsTypeOK
<1>4. ASSUME NEW k \in Job, DispatchFails(k)
      PROVE  dispatch'[j] = dispatch[j]
  <2>1. j # k /\ j # [k EXCEPT !.try = @ + 1]
    BY <1>4, NextTryIsNew DEF DispatchFails
  <2> QED
    BY <1>4, <2>1 DEF DispatchFails
<1>5. \/ dispatch' = dispatch
      \/ \E m \in Match, v \in Video : Upload(m, v)
      \/ \E k \in Job : SendJob(k) \/ SendDispatchStatus(k) \/ DispatchFails(k)
  BY DEF JobsNext, JobsStep, DispatchStep, QueueStep, VisibilityTimeout, Overrun,
      Reappear, Redrive, ReceiveMessage, WorkerStep, WorkerFault,
      CheckMarker, SendProcessing, Download, WriteItem, StoreItem, EventsRejected,
      PutMarker, SendCompleted, SendFailed, TryFails, FailsOutsideTry, DeleteSkipped,
      DeleteJob, SendFailedFails, Crash, jobsVars
<1> QED
  BY <1>1, <1>2, <1>3, <1>4, <1>5

Settled(j) == jobs[j].place \in {"deleted", "dlq"}

(* No retry, race or expired receipt revives a message that was deleted or  *)
(* dead-lettered, and no failed or finished dispatch is taken up again: an  *)
(* upload that has settled in the sense of EveryUploadSettles stays so.     *)
THEOREM SettledStaysSettled ==
  JobsSafetySpec =>
    [][/\ \A j \in Job : Settled(j) => Settled(j)'
       /\ \A j \in Job : dispatch[j] \in {"done", "failed"} => dispatch'[j] = dispatch[j]]_jobsVars
<1> DEFINE Stays == /\ \A j \in Job : Settled(j) => Settled(j)'
                    /\ \A j \in Job : dispatch[j] \in {"done", "failed"} => dispatch'[j] = dispatch[j]
<1>1. JobsInit => TriesInOrder
  BY DEF JobsInit, TriesInOrder, IdleTask
<1>2. ASSUME JobsTypeOK, TriesInOrder, [JobsNext]_jobsVars
      PROVE  [Stays]_jobsVars
  <2>1. ASSUME NEW j \in Job, Settled(j)
        PROVE  Settled(j)'
    <3>1. ~SendJob(j)
      BY <1>2, <2>1 DEF SendJob, Settled, TriesInOrder
    <3>2. ASSUME NEW t \in Task, task[t].pc # "idle", DeleteWithReceipt(t)
          PROVE  jobs'[j].place \in {jobs[j].place, "deleted"}
      BY <1>2, <3>2, DeletePlaces
    <3> QED
      BY <1>2, <2>1, <3>1, <3>2, OnlySentMessagesMove DEF Settled
  <2>2. ASSUME NEW j \in Job, dispatch[j] \in {"done", "failed"}
        PROVE  dispatch'[j] = dispatch[j]
    BY <1>2, <2>2, DispatchesStay
  <2> QED
    BY <2>1, <2>2
<1>3. JobsSafetySpec => [](JobsTypeOK /\ TriesInOrder)
  BY <1>1, JobsTypeCorrect, TriesInOrderStep, PTL DEF JobsSafetySpec
<1> HIDE DEF Stays
<1>4. JobsSafetySpec => [][Stays]_jobsVars
  BY <1>2, <1>3, PTL DEF JobsSafetySpec
<1> QED
  BY <1>4 DEF Stays
-----------------------------------------------------------------------------
(* What is reported has happened.                                            *)

ReportsEarned ==
  /\ \A j \in Job : dispatch[j] \in {"jobSent", "done"} => jobs[j].place # "unsent"
  /\ \A t \in Task : task[t].pc # "idle" => task[t].receipt <= jobs[task[t].job].receives
  /\ \A c \in callbacks :
       jobs[c.job].place # "unsent" /\ c.attempt <= jobs[c.job].receives

(* A message stays sent, and its receive count only grows. *)
LEMMA JobsAdvance ==
  ASSUME JobsTypeOK, [JobsNext]_jobsVars, NEW k \in Job
  PROVE  /\ jobs[k].place # "unsent" => jobs'[k].place # "unsent"
         /\ jobs'[k].receives \in {jobs[k].receives, jobs[k].receives + 1}
<1>1. jobs[k].place # "unsent" => jobs'[k].place # "unsent"
  <2>1. SendJob(k) => jobs'[k].place # "unsent"
    BY DEF SendJob, JobsTypeOK
  <2>2. ASSUME NEW t \in Task, task[t].pc # "idle", DeleteWithReceipt(t)
        PROVE  jobs'[k].place \in {jobs[k].place, "deleted"}
    BY <2>2, DeletePlaces
  <2> QED
    BY <2>1, <2>2, OnlySentMessagesMove
<1>2. ASSUME NEW t \in Task, DeleteSkipped(t) \/ DeleteJob(t)
      PROVE  jobs'[k].receives = jobs[k].receives
  <2>1. task[t].pc # "idle" /\ DeleteWithReceipt(t)
    BY <1>2 DEF DeleteSkipped, DeleteJob
  <2>2. \/ jobs' = jobs
        \/ jobs' = [jobs EXCEPT ![task[t].job].place = "deleted"]
    BY <2>1, DeleteType
  <2> QED
    BY <2>2 DEF JobsTypeOK
<1>3. ASSUME NEW j \in Job, SendJob(j) \/ Reappear(j) \/ Redrive(j)
      PROVE  jobs'[k].receives = jobs[k].receives
  <2>1. PICK place : jobs' = [jobs EXCEPT ![j].place = place]
    BY <1>3 DEF SendJob, Reappear, Redrive
  <2> QED
    BY <2>1 DEF JobsTypeOK
<1>4. ASSUME NEW j \in Job, NEW t \in Task, ReceiveMessage(t, j)
      PROVE  jobs'[k].receives \in {jobs[k].receives, jobs[k].receives + 1}
  BY <1>4 DEF ReceiveMessage, JobsTypeOK
<1>5. \/ jobs' = jobs
      \/ \E j \in Job : SendJob(j) \/ Reappear(j) \/ Redrive(j)
      \/ \E j \in Job, t \in Task : ReceiveMessage(t, j)
      \/ \E t \in Task : DeleteSkipped(t) \/ DeleteJob(t)
  BY DEF JobsNext, JobsStep, DispatchStep, QueueStep, VisibilityTimeout, Overrun,
         WorkerStep, WorkerFault, Upload, SendDispatchStatus, DispatchFails,
         CheckMarker, SendProcessing, Download, WriteItem, StoreItem, EventsRejected,
         PutMarker, SendCompleted, SendFailed, TryFails, FailsOutsideTry,
         SendFailedFails, Crash, jobsVars
<1> QED
  BY <1>1, <1>2, <1>3, <1>4, <1>5

(* A step sends no callback, or one by the dispatcher or a busy task.        *)
LEMMA OneReportPerStep ==
  ASSUME [JobsNext]_jobsVars
  PROVE  \/ callbacks' = callbacks
         \/ \E j \in Job : SendDispatchStatus(j)
         \/ \E t \in Task, s \in CallbackStatus :
              task[t].pc # "idle" /\ jobs' = jobs /\ dispatch' = dispatch
              /\ Send(StatusCallback(task[t].job, task[t].receipt, s))
<1>1. ASSUME NEW t \in Task, SendProcessing(t) \/ SendCompleted(t) \/ SendFailed(t)
      PROVE  \E s \in CallbackStatus :
               task[t].pc # "idle" /\ jobs' = jobs /\ dispatch' = dispatch
               /\ Send(StatusCallback(task[t].job, task[t].receipt, s))
  BY <1>1 DEF SendProcessing, SendCompleted, SendFailed, CallbackStatus
<1>2. \/ callbacks' = callbacks
      \/ \E j \in Job : SendDispatchStatus(j)
      \/ \E t \in Task : SendProcessing(t) \/ SendCompleted(t) \/ SendFailed(t)
  BY DEF JobsNext, JobsStep, DispatchStep, QueueStep, VisibilityTimeout, Overrun,
         Reappear, Redrive, ReceiveMessage, Upload, SendJob, DispatchFails,
         WorkerStep, WorkerFault, CheckMarker, DeleteSkipped, Download, WriteItem,
         StoreItem, EventsRejected, PutMarker, DeleteJob, TryFails, FailsOutsideTry,
         SendFailedFails, Crash, jobsVars
<1> QED
  BY <1>1, <1>2

LEMMA ReportsEarnedStep ==
  ASSUME JobsTypeOK, TriesInOrder, ReportsEarned, [JobsNext]_jobsVars
  PROVE  ReportsEarned'
<1>0. ASSUME NEW k \in Job, NEW n \in Nat, n <= jobs[k].receives
      PROVE  n <= jobs'[k].receives
  <2>1. jobs[k].receives \in Nat
    BY CallbackAssumptions DEF JobsTypeOK
  <2>2. CASE jobs'[k].receives = jobs[k].receives
    BY <1>0, <2>2
  <2>3. CASE jobs'[k].receives = jobs[k].receives + 1
    BY <1>0, <2>1, <2>3
  <2> QED
    BY <2>2, <2>3, JobsAdvance
<1>1. ASSUME NEW j \in Job, dispatch'[j] \in {"jobSent", "done"}
      PROVE  jobs'[j].place # "unsent"
  <2>1. ASSUME NEW k \in Job, SendJob(k)
        PROVE  dispatch[j] \in {"jobSent", "done"} \/ jobs'[j].place # "unsent"
    BY <1>1, <2>1 DEF SendJob, JobsTypeOK
  <2>2. ASSUME NEW k \in Job, SendDispatchStatus(k) \/ DispatchFails(k)
        PROVE  dispatch[j] \in {"jobSent", "done"}
    BY <1>1, <2>2 DEF SendDispatchStatus, DispatchFails, JobsTypeOK
  <2>3. ASSUME NEW m \in Match, NEW v \in Video, Upload(m, v)
        PROVE  dispatch[j] \in {"jobSent", "done"}
    BY <1>1, <2>3 DEF Upload, JobsTypeOK
  <2>4. \/ dispatch' = dispatch
        \/ \E k \in Job : SendJob(k) \/ SendDispatchStatus(k) \/ DispatchFails(k)
        \/ \E m \in Match, v \in Video : Upload(m, v)
    BY DEF JobsNext, JobsStep, DispatchStep, QueueStep, VisibilityTimeout, Overrun,
           Reappear, Redrive, ReceiveMessage, WorkerStep, WorkerFault, CheckMarker,
           DeleteSkipped, SendProcessing, Download, WriteItem, StoreItem,
           EventsRejected, PutMarker, SendCompleted, DeleteJob, SendFailed, TryFails,
           FailsOutsideTry, SendFailedFails, Crash, jobsVars
  <2>5. dispatch[j] \in {"jobSent", "done"} \/ jobs'[j].place # "unsent"
    BY <1>1, <2>1, <2>2, <2>3, <2>4
  <2> QED
    BY <2>5, JobsAdvance DEF ReportsEarned
<1>2. ASSUME NEW t \in Task, task'[t].pc # "idle"
      PROVE  task'[t].receipt <= jobs'[task'[t].job].receives
  <2>1. CASE task[t].pc # "idle" /\ SameJob(t)
    <3>1. task[t].job \in Job /\ task[t].receipt \in Nat
      BY <2>1, WorkingTasks
    <3>2. task[t].receipt <= jobs[task[t].job].receives
      BY <2>1 DEF ReportsEarned
    <3> QED
      BY <1>0, <2>1, <3>1, <3>2 DEF SameJob
  <2>2. CASE JustReceived(t)
    <3>1. jobs'[task'[t].job].receives \in Nat
      BY <2>2, TypeStep, CallbackAssumptions DEF JustReceived, JobsTypeOK
    <3> QED
      BY <2>2, <3>1 DEF JustReceived
  <2> QED
    BY <1>2, <2>1, <2>2, TasksKeepJobs
<1>3. ASSUME NEW c \in callbacks
      PROVE  jobs'[c.job].place # "unsent" /\ c.attempt <= jobs'[c.job].receives
  <2>1. c.job \in Job /\ c.attempt \in Nat
    BY CallbackAssumptions DEF JobsTypeOK, Callback
  <2> QED
    BY <1>0, <2>1, JobsAdvance DEF ReportsEarned
<1>4. ASSUME NEW j \in Job, SendDispatchStatus(j), NEW c \in callbacks'
      PROVE  c \in callbacks \/
               (jobs'[c.job].place # "unsent" /\ c.attempt <= jobs'[c.job].receives)
  <2>1. c \in callbacks \/ (c.job = j /\ c.attempt = 0)
    BY <1>4 DEF SendDispatchStatus, StatusCallback, Send
  <2>2. jobs[j].place # "unsent" /\ 0 <= jobs[j].receives
    BY <1>4, CallbackAssumptions DEF SendDispatchStatus, ReportsEarned, JobsTypeOK
  <2>3. jobs' = jobs
    BY <1>4 DEF SendDispatchStatus
  <2> QED
    BY <2>1, <2>2, <2>3
<1>5. ASSUME NEW t \in Task, NEW s \in CallbackStatus, task[t].pc # "idle", jobs' = jobs,
             Send(StatusCallback(task[t].job, task[t].receipt, s)), NEW c \in callbacks'
      PROVE  c \in callbacks \/
               (jobs'[c.job].place # "unsent" /\ c.attempt <= jobs'[c.job].receives)
  <2>1. c \in callbacks \/ (c.job = task[t].job /\ c.attempt = task[t].receipt)
    BY <1>5 DEF StatusCallback, Send
  <2>2. task[t].receipt <= jobs[task[t].job].receives
    BY <1>5 DEF ReportsEarned
  <2>3. jobs[task[t].job].place # "unsent"
    BY <1>5 DEF TriesInOrder
  <2> QED
    BY <1>5, <2>1, <2>2, <2>3
<1>6. \A c \in callbacks' :
        jobs'[c.job].place # "unsent" /\ c.attempt <= jobs'[c.job].receives
  BY <1>3, <1>4, <1>5, OneReportPerStep
<1> QED
  BY <1>1, <1>2, <1>6 DEF ReportsEarned

LEMMA AlwaysReportsEarned ==
  JobsSafetySpec => [](JobsTypeOK /\ TriesInOrder /\ ReportsEarned)
<1>1. JobsInit => TriesInOrder /\ ReportsEarned
  BY DEF JobsInit, TriesInOrder, ReportsEarned, IdleTask
<1>2. JobsTypeOK /\ TriesInOrder /\ ReportsEarned /\ [JobsNext]_jobsVars =>
        TriesInOrder' /\ ReportsEarned'
  BY TriesInOrderStep, ReportsEarnedStep
<1> QED
  BY <1>1, <1>2, JobsTypeCorrect, PTL DEF JobsSafetySpec

(* Behind every callback there is what it reports on: a job that was sent    *)
(* for an upload that took place, received at least as often as the number   *)
(* of the attempt says.                                                      *)
THEOREM ReportsAreOfAttempts ==
  JobsSafetySpec => []\A c \in callbacks :
    /\ jobs[c.job].place # "unsent"
    /\ c.job.upload <= uploads[c.job.match]
    /\ c.attempt <= jobs[c.job].receives
<1>1. ASSUME JobsTypeOK, TriesInOrder, ReportsEarned, NEW c \in callbacks
      PROVE  /\ jobs[c.job].place # "unsent"
             /\ c.job.upload <= uploads[c.job.match]
             /\ c.attempt <= jobs[c.job].receives
  <2>1. c.job \in Job
    BY <1>1 DEF JobsTypeOK, Callback
  <2>2. jobs[c.job].place # "unsent" /\ c.attempt <= jobs[c.job].receives
    BY <1>1 DEF ReportsEarned
  <2>3. dispatch[c.job] # "none"
    BY <1>1, <2>1, <2>2 DEF TriesInOrder
  <2> QED
    BY <1>1, <2>1, <2>2, <2>3 DEF TriesInOrder
<1>2. JobsTypeOK /\ TriesInOrder /\ ReportsEarned =>
        \A c \in callbacks : /\ jobs[c.job].place # "unsent"
                             /\ c.job.upload <= uploads[c.job.match]
                             /\ c.attempt <= jobs[c.job].receives
  BY <1>1
<1> QED
  BY <1>2, AlwaysReportsEarned, PTL
-----------------------------------------------------------------------------
(* No callback is sent twice.                                                *)

(* What the attempt of a task at pc may have to report yet. *)
StillToSend(pc) ==
  CASE pc \in {"received", "setup"}                -> CallbackStatus
    [] pc \in {"download", "writing", "announce"}  -> {"completed", "failed"}
    [] pc \in {"delete", "failing"}                -> {"failed"}
    [] pc \in {"idle", "skip"}                     -> {}

Busy(t) == task[t].pc # "idle"

Unreported ==
  /\ \A j \in Job : StatusCallback(j, 0, "processing") \in callbacks => dispatch[j] = "done"
  /\ \A t, u \in Task :
       /\ Busy(t) /\ Busy(u)
       /\ task[t].job = task[u].job /\ task[t].receipt = task[u].receipt
       => t = u
  /\ \A t \in Task : Busy(t) => \A s \in StillToSend(task[t].pc) :
       StatusCallback(task[t].job, task[t].receipt, s) \notin callbacks

(* An attempt never gets back to where it has more to report. *)
LEMMA ReportsDwindle ==
  ASSUME JobsTypeOK, [JobsNext]_jobsVars, NEW t \in Task, Busy(t), Busy(t)'
  PROVE  StillToSend(task'[t].pc) \subseteq StillToSend(task[t].pc)
<1>1. CASE task'[t] = task[t]
  BY <1>1
<1>2. ASSUME NEW u \in Task, NEW pc, Goto(u, pc),
             u = t => StillToSend(pc) \subseteq StillToSend(task[t].pc)
      PROVE  StillToSend(task'[t].pc) \subseteq StillToSend(task[t].pc)
  <2>1. task[t] \in WorkingTask
    BY WorkingTasks DEF Busy
  <2>2. task'[t].pc = IF u = t THEN pc ELSE task[t].pc
    BY <1>2, <2>1 DEF Goto, JobsTypeOK, WorkingTask
  <2> QED
    BY <1>2, <2>2
<1>3. ASSUME NEW u \in Task,
             \/ CheckMarker(u) \/ SendProcessing(u) \/ PutMarker(u) \/ SendCompleted(u)
             \/ TryFails(u) \/ (task[u].pc = "writing" /\ EventsRejected(u))
      PROVE  \E pc : Goto(u, pc) /\ StillToSend(pc) \subseteq StillToSend(task[u].pc)
  BY <1>3
  DEF CheckMarker, SendProcessing, PutMarker, SendCompleted, TryFails, EventsRejected,
      CallsInTry, SendsInTry, StillToSend, CallbackStatus
<1>4. ASSUME NEW u \in Task, ToIdle(u)
      PROVE  task'[t] = task[t]
  BY <1>4 DEF ToIdle, JobsTypeOK, Busy, IdleTask
<1>5. ASSUME NEW u \in Task, Download(u)
      PROVE  StillToSend(task'[t].pc) \subseteq StillToSend(task[t].pc)
  <2>1. task[t] \in WorkingTask
    BY WorkingTasks DEF Busy
  <2>2. task'[t].pc = IF u = t THEN "writing" ELSE task[t].pc
    BY <1>5, <2>1 DEF Download, JobsTypeOK, WorkingTask
  <2>3. u = t => task[t].pc = "download"
    BY <1>5 DEF Download
  <2> QED
    BY <2>2, <2>3 DEF StillToSend
<1>6. ASSUME NEW u \in Task, StoreItem(u)
      PROVE  task'[t].pc = task[t].pc
  <2>1. task[t] \in WorkingTask
    BY WorkingTasks DEF Busy
  <2>2. PICK i : task' = [task EXCEPT ![u].todo = @ \ {i}]
    BY <1>6 DEF StoreItem
  <2> QED
    BY <2>1, <2>2 DEF JobsTypeOK, WorkingTask
<1>7. ASSUME NEW u \in Task, NEW j \in Job, ReceiveMessage(u, j)
      PROVE  task'[t] = task[t]
  BY <1>7 DEF ReceiveMessage, Busy, JobsTypeOK
<1>8. \/ task' = task
      \/ \E u \in Task, j \in Job : ReceiveMessage(u, j)
      \/ \E u \in Task :
           \/ CheckMarker(u) \/ SendProcessing(u) \/ PutMarker(u) \/ SendCompleted(u)
           \/ TryFails(u) \/ (task[u].pc = "writing" /\ EventsRejected(u))
      \/ \E u \in Task : ToIdle(u) \/ Download(u) \/ StoreItem(u)
  BY DEF JobsNext, JobsStep, DispatchStep, QueueStep, VisibilityTimeout, Overrun,
         Upload, SendJob, SendDispatchStatus, DispatchFails, Reappear, Redrive,
         WorkerStep, WorkerFault, WriteItem, DeleteSkipped, DeleteJob, SendFailed,
         FailsOutsideTry, SendFailedFails, Crash, jobsVars
<1> QED
  BY <1>1, <1>2, <1>3, <1>4, <1>5, <1>6, <1>7, <1>8

(* A worker sends what its attempt had still to report, and then has it not. *)
LEMMA WorkerReports ==
  ASSUME JobsTypeOK, NEW t \in Task,
         SendProcessing(t) \/ SendCompleted(t) \/ SendFailed(t)
  PROVE  Busy(t) /\ \E s \in StillToSend(task[t].pc) :
           /\ Send(StatusCallback(task[t].job, task[t].receipt, s))
           /\ s \notin StillToSend(task'[t].pc)
<1>1. CASE SendProcessing(t)
  <2>1. task[t].pc = "setup" /\ task'[t].pc = "download"
    BY <1>1 DEF SendProcessing, Goto, JobsTypeOK, WorkingTask, IdleTask
  <2>2. Send(StatusCallback(task[t].job, task[t].receipt, "processing"))
    BY <1>1 DEF SendProcessing
  <2> QED
    BY <2>1, <2>2 DEF StillToSend, CallbackStatus, Busy
<1>2. CASE SendCompleted(t)
  <2>1. task[t].pc = "announce" /\ task'[t].pc = "delete"
    BY <1>2 DEF SendCompleted, Goto, JobsTypeOK, WorkingTask, IdleTask
  <2>2. Send(StatusCallback(task[t].job, task[t].receipt, "completed"))
    BY <1>2 DEF SendCompleted
  <2> QED
    BY <2>1, <2>2 DEF StillToSend, Busy
<1>3. CASE SendFailed(t)
  <2>1. task[t].pc = "failing" /\ task'[t].pc = "idle"
    BY <1>3 DEF SendFailed, ToIdle, JobsTypeOK, IdleTask
  <2>2. Send(StatusCallback(task[t].job, task[t].receipt, "failed"))
    BY <1>3 DEF SendFailed
  <2> QED
    BY <2>1, <2>2 DEF StillToSend, Busy
<1> QED
  BY <1>1, <1>2, <1>3

(* What is sent in a step: nothing, the dispatcher's report, or a worker's. *)
LEMMA SenderOfStep ==
  ASSUME [JobsNext]_jobsVars
  PROVE  \/ callbacks' = callbacks
         \/ \E j \in Job : SendDispatchStatus(j)
         \/ \E t \in Task : SendProcessing(t) \/ SendCompleted(t) \/ SendFailed(t)
BY DEF JobsNext, JobsStep, DispatchStep, QueueStep, VisibilityTimeout, Overrun,
       Reappear, Redrive, ReceiveMessage, Upload, SendJob, DispatchFails,
       WorkerStep, WorkerFault, CheckMarker, DeleteSkipped, Download, WriteItem,
       StoreItem, EventsRejected, PutMarker, DeleteJob, TryFails, FailsOutsideTry,
       SendFailedFails, Crash, jobsVars

LEMMA UnreportedStep ==
  ASSUME JobsTypeOK, TriesInOrder, ReportsEarned, Unreported, [JobsNext]_jobsVars
  PROVE  Unreported'
<1>1. \A t \in Task : Busy(t) =>
        task[t].job \in Job /\ task[t].receipt \in Nat \ {0}
  BY WorkingTasks, CallbackAssumptions DEF Busy, WorkingTask
<1>2. ASSUME NEW t \in Task, JustReceived(t)
      PROVE  /\ ~Busy(t) /\ callbacks' = callbacks
             /\ \A u \in Task \ {t} : task'[u] = task[u]
             /\ task'[t].job \in Job
             /\ jobs[task'[t].job].receives \in Nat
             /\ task'[t].receipt = jobs[task'[t].job].receives + 1
  <2> DEFINE j == task'[t].job
  <2>1. j \in Job /\ ReceiveMessage(t, j)
    BY <1>2 DEF JustReceived
  <2> HIDE DEF j
  <2>2. /\ ~Busy(t) /\ callbacks' = callbacks
        /\ \A u \in Task \ {t} : task'[u] = task[u]
        /\ task'[t].receipt = jobs[j].receives + 1
    BY <2>1 DEF ReceiveMessage, Busy, JobsTypeOK, IdleTask
  <2>3. jobs[j].receives \in Nat
    BY <2>1, CallbackAssumptions DEF JobsTypeOK
  <2> QED
    BY <2>1, <2>2, <2>3 DEF j
<1>3. \A t \in Task : Busy(t)' => (Busy(t) /\ SameJob(t)) \/ JustReceived(t)
  BY TasksKeepJobs DEF Busy
<1>4. ASSUME NEW j \in Job, StatusCallback(j, 0, "processing") \in callbacks'
      PROVE  dispatch'[j] = "done"
  <2>1. CASE StatusCallback(j, 0, "processing") \in callbacks
    BY <2>1, DispatchesStay DEF Unreported
  <2>2. ASSUME NEW k \in Job, SendDispatchStatus(k),
               StatusCallback(j, 0, "processing") \notin callbacks
        PROVE  dispatch'[j] = "done"
    <3>1. k = j
      BY <1>4, <2>2 DEF SendDispatchStatus, Send, StatusCallback
    <3> QED
      BY <2>2, <3>1 DEF SendDispatchStatus, JobsTypeOK
  <2>3. ASSUME NEW t \in Task, SendProcessing(t) \/ SendCompleted(t) \/ SendFailed(t)
        PROVE  StatusCallback(j, 0, "processing") \in callbacks
    <3>1. Busy(t) /\ \E s : Send(StatusCallback(task[t].job, task[t].receipt, s))
      BY <2>3, WorkerReports
    <3> QED
      BY <1>1, <1>4, <3>1 DEF Send, StatusCallback
  <2> QED
    BY <1>4, <2>1, <2>2, <2>3, SenderOfStep
<1>5. ASSUME NEW t \in Task, NEW u \in Task, t # u, Busy(t)', JustReceived(u),
             task'[t].job = task'[u].job, task'[t].receipt = task'[u].receipt
      PROVE  FALSE
  <2>1. Busy(t) /\ task'[t] = task[t]
    BY <1>2, <1>5 DEF Busy
  <2>2. task[t].receipt <= jobs[task[t].job].receives
    BY <2>1 DEF ReportsEarned, Busy
  <2> QED
    BY <1>1, <1>2, <1>5, <2>1, <2>2
<1>6. ASSUME NEW t \in Task, NEW u \in Task, Busy(t)', Busy(u)',
             task'[t].job = task'[u].job, task'[t].receipt = task'[u].receipt
      PROVE  t = u
  BY <1>3, <1>5, <1>6 DEF SameJob, Unreported
<1>7. ASSUME NEW t \in Task, Busy(t)', NEW s \in StillToSend(task'[t].pc)
      PROVE  StatusCallback(task'[t].job, task'[t].receipt, s) \notin callbacks'
  <2> DEFINE c == StatusCallback(task'[t].job, task'[t].receipt, s)
  <2>1. CASE JustReceived(t)
    <3>1. c \notin callbacks
      <4>1. c.job = task'[t].job /\ c.attempt = task'[t].receipt
        BY DEF StatusCallback
      <4>2. ~(c.attempt <= jobs[c.job].receives)
        BY <1>2, <2>1, <4>1
      <4> QED
        BY <4>2 DEF ReportsEarned
    <3> QED
      BY <1>2, <2>1, <3>1
  <2>2. CASE Busy(t) /\ SameJob(t)
    <3>1. /\ c.job = task[t].job /\ c.attempt = task[t].receipt /\ c.status = s
          /\ c.attempt \in Nat \ {0}
      BY <1>1, <2>2 DEF StatusCallback, SameJob
    <3>2. c \notin callbacks
      <4>1. s \in StillToSend(task[t].pc)
        BY <1>7, <2>2, ReportsDwindle
      <4> QED
        BY <2>2, <4>1 DEF Unreported, SameJob
    <3>3. ASSUME NEW j \in Job, SendDispatchStatus(j) PROVE c \notin callbacks'
      BY <3>1, <3>2, <3>3 DEF SendDispatchStatus, Send, StatusCallback
    <3>4. ASSUME NEW u \in Task, SendProcessing(u) \/ SendCompleted(u) \/ SendFailed(u)
          PROVE  c \notin callbacks'
      <4>1. PICK q \in StillToSend(task[u].pc) :
              /\ Send(StatusCallback(task[u].job, task[u].receipt, q))
              /\ q \notin StillToSend(task'[u].pc)
        BY <3>4, WorkerReports
      <4>2. Busy(u)
        BY <3>4, WorkerReports
      <4>3. StatusCallback(task[u].job, task[u].receipt, q) # c
        <5> SUFFICES ASSUME StatusCallback(task[u].job, task[u].receipt, q) = c
                     PROVE  FALSE
          OBVIOUS
        <5>1. task[u].job = task[t].job /\ task[u].receipt = task[t].receipt /\ q = s
          BY <3>1 DEF StatusCallback
        <5>2. u = t
          BY <2>2, <4>2, <5>1 DEF Unreported
        <5> QED
          BY <1>7, <4>1, <5>1, <5>2
      <4> QED
        BY <3>2, <4>1, <4>3 DEF Send
    <3> QED
      BY <3>2, <3>3, <3>4, SenderOfStep
  <2> QED
    BY <1>3, <1>7, <2>1, <2>2
<1> QED
  BY <1>4, <1>6, <1>7 DEF Unreported, Busy

(* The steps that send a callback. *)
Sends ==
  \/ \E j \in Job : SendDispatchStatus(j)
  \/ \E t \in Task : SendProcessing(t) \/ SendCompleted(t) \/ SendFailed(t)

(* Nobody sends a callback that was sent before, whatever attempts of one   *)
(* job run side by side and however often the dispatcher is run again: every*)
(* sending step adds to callbacks, which may therefore be a set of messages.*)
THEOREM EachCallbackOnce == JobsSafetySpec => [][Sends => callbacks' # callbacks]_jobsVars
<1>1. ASSUME JobsTypeOK, TriesInOrder, Unreported, Sends
      PROVE  callbacks' # callbacks
  <2>1. ASSUME NEW j \in Job, SendDispatchStatus(j)
        PROVE  callbacks' # callbacks
    <3>1. StatusCallback(j, 0, "processing") \notin callbacks
      BY <1>1, <2>1 DEF SendDispatchStatus, Unreported
    <3> QED
      BY <2>1, <3>1 DEF SendDispatchStatus, Send
  <2>2. ASSUME NEW t \in Task, SendProcessing(t) \/ SendCompleted(t) \/ SendFailed(t)
        PROVE  callbacks' # callbacks
    <3>1. PICK s \in StillToSend(task[t].pc) :
            Busy(t) /\ Send(StatusCallback(task[t].job, task[t].receipt, s))
      BY <1>1, <2>2, WorkerReports
    <3>2. StatusCallback(task[t].job, task[t].receipt, s) \notin callbacks
      BY <1>1, <3>1 DEF Unreported
    <3> QED
      BY <3>1, <3>2 DEF Send
  <2> QED
    BY <1>1, <2>1, <2>2 DEF Sends
<1>2. JobsInit => Unreported
  BY DEF JobsInit, Unreported, Busy, IdleTask
<1>3. JobsTypeOK /\ TriesInOrder /\ ReportsEarned /\ Unreported /\ [JobsNext]_jobsVars =>
        Unreported'
  BY UnreportedStep
<1>4. JobsSafetySpec => [](JobsTypeOK /\ TriesInOrder /\ ReportsEarned)
  BY AlwaysReportsEarned
<1>5. JobsSafetySpec => []Unreported
  BY <1>2, <1>3, <1>4, PTL DEF JobsSafetySpec
<1>6. JobsTypeOK /\ TriesInOrder /\ ReportsEarned /\ Unreported /\ [JobsNext]_jobsVars =>
        [Sends => callbacks' # callbacks]_jobsVars
  BY <1>1
<1> QED
  BY <1>4, <1>5, <1>6, PTL DEF JobsSafetySpec
-----------------------------------------------------------------------------
(* Two settings of the deployment that the analysis does not survive.        *)

NoEventWritten == \A m \in Match, e \in EventId : <<"event", e>> \notin written[m]

(* The matches that are done hold the results of an uneventful video. *)
DoneUneventful ==
  \A m \in marker : \E v \in Video : ItemsOf(v) \subseteq written[m] /\ EventsOf[v] = {}

LEMMA NoEventWrittenStep ==
  ASSUME JobsTypeOK, ~FloatsAccepted, NoEventWritten, [JobsNext]_jobsVars
  PROVE  NoEventWritten'
<1>1. CASE written' = written
  BY <1>1 DEF NoEventWritten
<1>2. ASSUME NEW t \in Task, StoreItem(t)
      PROVE  NoEventWritten'
  <2>1. PICK i : /\ i[1] # "event"
                 /\ written' = [written EXCEPT ![task[t].job.match] = @ \cup {i}]
    BY <1>2 DEF StoreItem
  <2>2. \A m \in Match : written'[m] \subseteq written[m] \cup {i}
    BY <2>1 DEF JobsTypeOK
  <2>3. \A e \in EventId : i # <<"event", e>>
    BY <2>1
  <2> QED
    BY <2>2, <2>3 DEF NoEventWritten
<1>3. written' = written \/ \E t \in Task : StoreItem(t)
  BY DEF JobsNext, JobsStep, DispatchStep, QueueStep, VisibilityTimeout, Overrun,
         Reappear, Redrive, ReceiveMessage, Upload, SendJob, SendDispatchStatus,
         DispatchFails, WorkerStep, WorkerFault, CheckMarker, DeleteSkipped,
         SendProcessing, Download, WriteItem, EventsRejected, PutMarker, SendCompleted,
         DeleteJob, SendFailed, TryFails, FailsOutsideTry, SendFailedFails, Crash, jobsVars
<1> QED
  BY <1>1, <1>2, <1>3

(* The finding of JobsFloats for every workload: as long as put_item takes  *)
(* no floats, no event is ever listed, and the only matches that are done   *)
(* hold the results of a video in which nothing happened.                   *)
THEOREM FloatsLoseEvents ==
  ~FloatsAccepted => (JobsSafetySpec => [](NoEventWritten /\ DoneUneventful))
<1> SUFFICES ASSUME ~FloatsAccepted
             PROVE  JobsSafetySpec => [](NoEventWritten /\ DoneUneventful)
  OBVIOUS
<1>1. JobsInit => NoEventWritten
  BY DEF JobsInit, NoEventWritten
<1>2. JobsTypeOK /\ NoEventWritten /\ [JobsNext]_jobsVars => NoEventWritten'
  BY NoEventWrittenStep
<1>3. ASSUME JobsInv, NoEventWritten
      PROVE  DoneUneventful
  <2> SUFFICES ASSUME NEW m \in marker
               PROVE  \E v \in Video : ItemsOf(v) \subseteq written[m] /\ EventsOf[v] = {}
    BY DEF DoneUneventful
  <2>1. PICK v \in Video : ItemsOf(v) \subseteq written[m]
    BY <1>3 DEF JobsInv, MarkerAfterResults
  <2>2. m \in Match
    BY <1>3 DEF JobsInv, JobsTypeOK
  <2>3. \A e \in EventsOf[v] : e \in EventId /\ <<"event", e>> \in ItemsOf(v)
    BY VideoJobsAssumptions DEF ItemsOf
  <2>4. EventsOf[v] = {}
    BY <1>3, <2>1, <2>2, <2>3 DEF NoEventWritten
  <2> QED
    BY <2>1, <2>4
<1>4. JobsSafetySpec => []NoEventWritten
  BY <1>1, <1>2, JobsTypeCorrect, PTL DEF JobsSafetySpec
<1> QED
  BY <1>3, <1>4, JobsInvariant, PTL

Untouched ==
  /\ dispatch = [j \in Job |-> "none"]
  /\ \A j \in Job : jobs[j].place = "unsent"
  /\ \A t \in Task : task[t].pc = "idle"
  /\ marker = {}
  /\ written = [m \in Match |-> {}]
  /\ callbacks = {}

(* With the filter_prefix of s3-event-trigger.tf, which is compared with the *)
(* team id that a key starts with, nothing that is uploaded is ever          *)
(* dispatched, analysed or reported.                                        *)
THEOREM PrefixDispatchesNothing ==
  NotificationFilter = "prefix" => (JobsSafetySpec => []Untouched)
<1> SUFFICES ASSUME NotificationFilter = "prefix"
             PROVE  JobsSafetySpec => []Untouched
  OBVIOUS
<1>1. JobsInit => Untouched
  BY DEF JobsInit, Untouched, IdleTask
<1>2. ASSUME Untouched, [JobsNext]_jobsVars
      PROVE  Untouched'
  <2>1. CASE UNCHANGED jobsVars
    BY <1>2, <2>1 DEF Untouched, jobsVars
  <2>2. ASSUME NEW m \in Match, NEW v \in Video, Upload(m, v)
        PROVE  Untouched'
    <3>1. ~NotificationMatches(RawVideoKey(m))
      BY DEF NotificationMatches, RawVideoKey
    <3> QED
      BY <1>2, <2>2, <3>1 DEF Upload, Untouched
  <2>3. ASSUME NEW j \in Job
        PROVE  /\ ~SendJob(j) /\ ~SendDispatchStatus(j) /\ ~DispatchFails(j)
               /\ ~Reappear(j) /\ ~Redrive(j) /\ \A t \in Task : ~ReceiveMessage(t, j)
    <3>1. dispatch[j] = "none" /\ jobs[j].place = "unsent"
      BY <1>2 DEF Untouched
    <3> QED
      BY <3>1
      DEF SendJob, SendDispatchStatus, DispatchFails, Reappear, Redrive,
          ReceiveMessage, JobReceivable
  <2>4. ASSUME NEW t \in Task
        PROVE  ~WorkerStep(t) /\ ~WorkerFault(t)
    <3>1. task[t].pc = "idle"
      BY <1>2 DEF Untouched
    <3> QED
      BY <3>1
      DEF WorkerStep, WorkerFault, CheckMarker, DeleteSkipped, SendProcessing, Download,
          WriteItem, PutMarker, SendCompleted, DeleteJob, SendFailed, TryFails,
          FailsOutsideTry, SendFailedFails, Crash, CallsInTry, SendsInTry
  <2> QED
    BY <1>2, <2>1, <2>2, <2>3, <2>4
    DEF JobsNext, JobsStep, DispatchStep, QueueStep, VisibilityTimeout, Overrun
<1> QED
  BY <1>1, <1>2, PTL DEF JobsSafetySpec
=============================================================================

------------------------------ MODULE Pipeline ------------------------------
(* The whole upload-to-highlights pipeline: VideoJobs and MatchRows share   *)
(* the callbacks; a presigned URL of the backend is what lets a client      *)
(* upload.  Every step is a step of one side that leaves the other alone.   *)
EXTENDS VideoJobs, MatchRows

jobsOnly == <<uploads, rawVideo, dispatch, jobs, task, marker, written>>
rowsOnly == <<matches, backendVars, updaterVars>>

pipelineVars == <<jobsOnly, rowsOnly, callbacks>>

PipelineInit == JobsInit /\ RowsInit

(* Mutant: anyone may PUT, whether or not the backend handed out a URL. *)
ClientUploadWithoutUrl(m, v) == Upload(m, v) /\ UNCHANGED rowsOnly

ClientUpload(m, v) == m \in uploadUrls /\ Upload(m, v) /\ UNCHANGED rowsOnly

(* S3 notifies when the object is written, the client confirms afterwards:  *)
(* only "lateConfirm" lets the dispatcher win that race.                    *)
Confirmed(j) == "lateConfirm" \in Faults \/ matches[j.match].status # "pending"

Dispatch(j) == Confirmed(j) /\ DispatchStep(j) /\ UNCHANGED rowsOnly

Queue(j) == QueueStep(j) /\ UNCHANGED rowsOnly

Receive(j) == (\E t \in Task : ReceiveMessage(t, j)) /\ UNCHANGED rowsOnly

Work(t) == WorkerStep(t) /\ UNCHANGED rowsOnly

JobsFault ==
  /\ \/ \E j \in Job : DispatchFails(j) \/ Overrun(j)
     \/ \E t \in Task : WorkerFault(t)
  /\ UNCHANGED rowsOnly

RowsSide == RowsStep /\ UNCHANGED jobsOnly

PipelineNext ==
  \/ \E m \in Match, v \in Video : ClientUpload(m, v)
  \/ \E j \in Job : Dispatch(j) \/ Queue(j) \/ Receive(j)
  \/ \E t \in Task : Work(t)
  \/ JobsFault
  \/ RowsSide

PipelineSafetySpec == PipelineInit /\ [][PipelineNext]_pipelineVars

(* The fairness of both sides. *)
PipelineFairness ==
  /\ \A j \in Job : /\ WF_pipelineVars(Dispatch(j))
                    /\ WF_pipelineVars(Queue(j))
                    /\ WF_pipelineVars(Receive(j))
  /\ \A t \in Task : WF_pipelineVars(Work(t))
  /\ WF_pipelineVars((\E i \in Invocation : ReceiveBatch(i)) /\ UNCHANGED jobsOnly)
  /\ \A i \in Invocation : WF_pipelineVars(InvocationStep(i) /\ UNCHANGED jobsOnly)
  /\ WF_pipelineVars((\E c \in Callback : RedriveCallback(c)) /\ UNCHANGED jobsOnly)

PipelineSpec == PipelineSafetySpec /\ PipelineFairness
-----------------------------------------------------------------------------
(* Properties.                                                               *)

(* What RDS calls completed has its marker in DynamoDB, and every item of a *)
(* video was written before: the two stores are linked by nothing but a     *)
(* callback.                                                                *)
CompletedMeansMarker ==
  \A m \in Match : matches[m].status = "completed" =>
    m \in marker /\ \E v \in Video : ItemsOf(v) \subseteq written[m]

(* Seen from the table, dispatcher and workers are the environment that     *)
(* MatchRows assumes: what they send is about a match that has a row.       *)
ImplementsMatchRows == RowsSafetySpec

(* The queue is done with a final callback only when it counted: its match  *)
(* has a final status, or the report that should have preceded it is dead.  *)
(* An invalid transition is answered with success, so a final callback that *)
(* meets an uploaded row is lost; dispatcher and worker both report         *)
(* processing so that none does.  That is enough on a queue that keeps the  *)
(* callbacks of a match in order, which ReceiveBatch has it do unless       *)
(* "reorder" is among the Faults; a standard queue does not promise it.     *)
AckedFinalsCount ==
  \A c \in acked : c.status \in TerminalStatus =>
    \/ matches[c.job.match].status \in TerminalStatus
    \/ \E d \in dead : d.job.match = c.job.match /\ d.status = "processing"

(* failed is the word for a job that used up its retries.                   *)
FailedAfterLastRetry ==
  \A m \in Match : matches[m].status = "failed" =>
    \E j \in Job : j.match = m /\ jobs[j].place = "dlq"

(* A confirmed upload reaches a final status, unless a report about it ends *)
(* in the callbacks' dead letter queue.                                     *)
AnalysisConcludes ==
  \A m \in Match :
    uploads[m] > 0 /\ matches[m].status = "uploaded"
      ~> \/ matches[m].status \in TerminalStatus
         \/ \E c \in dead : c.job.match = m

(* Once its analysis is finished, a match in processing becomes completed.  *)
FinishedBecomesCompleted ==
  \A m \in Match :
    m \in marker /\ matches[m].status = "processing"
      ~> matches[m].status = "completed"
=============================================================================

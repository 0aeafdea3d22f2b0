--------------------------- MODULE PipelineProofs ---------------------------
(* Proofs about the composed pipeline, out of the invariants of its sides.  *)
EXTENDS Pipeline, VideoJobsProofs, MatchRowsProofs

(* Every step of the pipeline is a step of the analysis side or none of it. *)
LEMMA JobsSideSteps == [PipelineNext]_pipelineVars => [JobsNext]_jobsVars
<1>1. ASSUME NEW m \in Match, NEW v \in Video, ClientUpload(m, v)
      PROVE  JobsNext
  BY <1>1 DEF ClientUpload, JobsNext
<1>2. ASSUME NEW j \in Job, Dispatch(j) \/ Queue(j) \/ Receive(j)
      PROVE  JobsNext
  BY <1>2 DEF Dispatch, Queue, Receive, JobsNext, JobsStep
<1>3. ASSUME NEW t \in Task, Work(t)
      PROVE  JobsNext
  BY <1>3 DEF Work, JobsNext, JobsStep
<1>4. ASSUME JobsFault
      PROVE  JobsNext
  BY <1>4 DEF JobsFault, JobsNext, JobsStep
<1>5. ASSUME RowsSide
      PROVE  UNCHANGED jobsVars
  <2>1. callbacks' = callbacks
    BY <1>5
    DEF RowsSide, RowsStep, BackendStep, RequestStep, UpdaterStep, InvocationStep,
        Create, ExpireUrl, Guard, CreateUploadUrl, ConfirmRead, ConfirmWrite,
        RemoveRead, RemoveWrite, RequestAborts, ReceiveBatch, UpdateStatus, AckBatch,
        InvocationFails, RedriveCallback
  <2> QED
    BY <1>5, <2>1 DEF RowsSide, jobsOnly, jobsVars
<1>6. UNCHANGED pipelineVars => UNCHANGED jobsVars
  BY DEF pipelineVars, jobsOnly, jobsVars
<1> QED
  BY <1>1, <1>2, <1>3, <1>4, <1>5, <1>6 DEF PipelineNext

(* Callbacks stay sent. *)
LEMMA CallbacksGrow == [JobsNext]_jobsVars => callbacks \subseteq callbacks'
<1>1. ASSUME NEW j \in Job,
             DispatchStep(j) \/ DispatchFails(j) \/ QueueStep(j) \/ Overrun(j)
      PROVE  callbacks \subseteq callbacks'
  BY <1>1 DEF DispatchStep, SendJob, SendDispatchStatus, DispatchFails, QueueStep,
              VisibilityTimeout, Redrive, Overrun, Reappear, Send
<1>2. ASSUME NEW t \in Task, WorkerStep(t)
      PROVE  callbacks \subseteq callbacks'
  BY <1>2 DEF WorkerStep, CheckMarker, DeleteSkipped, SendProcessing, Download,
              WriteItem, StoreItem, EventsRejected, PutMarker, SendCompleted,
              DeleteJob, SendFailed, Send
<1>3. ASSUME NEW t \in Task, WorkerFault(t)
      PROVE  callbacks \subseteq callbacks'
  BY <1>3 DEF WorkerFault, TryFails, FailsOutsideTry, SendFailedFails, Crash
<1>4. ASSUME NEW t \in Task, NEW j \in Job, ReceiveMessage(t, j)
      PROVE  callbacks \subseteq callbacks'
  BY <1>4 DEF ReceiveMessage
<1>5. ASSUME NEW m \in Match, NEW v \in Video, Upload(m, v)
      PROVE  callbacks \subseteq callbacks'
  BY <1>5 DEF Upload
<1>6. UNCHANGED jobsVars => callbacks \subseteq callbacks'
  BY DEF jobsVars
<1> QED
  BY <1>1, <1>2, <1>3, <1>4, <1>5, <1>6 DEF JobsNext, JobsStep

(* To the table a step of the pipeline is one of its own, or it only adds   *)
(* callbacks.                                                               *)
LEMMA RowsSideSteps ==
  ASSUME [PipelineNext]_pipelineVars
  PROVE  [RowsNext]_rowsVars \/ UNCHANGED rowsOnly
BY DEF PipelineNext, ClientUpload, Dispatch, Queue, Receive, Work, JobsFault, RowsSide,
       RowsNext, pipelineVars

(* Both invariants hold of the composed system. *)
PipelineInv == JobsInv /\ RowsInv

LEMMA PipelineStep ==
  ASSUME PipelineInv, [PipelineNext]_pipelineVars
  PROVE  PipelineInv'
<1>1. JobsInv'
  BY JobsSideSteps, InvStep DEF PipelineInv
<1>2. CASE [RowsNext]_rowsVars
  BY <1>1, <1>2, RowsTypeStep, BatchesReceivedStep, RowConsistentStep,
     StatusWasReportedStep
  DEF PipelineInv, RowsInv
<1>3. CASE UNCHANGED rowsOnly
  <2>1. /\ callbacks \subseteq callbacks'
        /\ callbacks' \subseteq Callback
    BY <1>1, JobsSideSteps, CallbacksGrow DEF JobsInv, JobsTypeOK
  <2>2. /\ UNCHANGED <<matches, requests, uploadUrls>>
        /\ UNCHANGED <<invocation, receives, acked, dead>>
    BY <1>3 DEF rowsOnly, backendVars, updaterVars
  <2>3. RowsTypeOK' /\ RowConsistent'
    BY <2>1, <2>2 DEF PipelineInv, RowsInv, RowsTypeOK, RowConsistent
  <2>4. BatchesReceived'
    BY <2>1, <2>2 DEF PipelineInv, RowsInv, BatchesReceived
  <2>5. StatusWasReported'
    BY <2>1, <2>2 DEF PipelineInv, RowsInv, StatusWasReported
  <2> QED
    BY <1>1, <2>3, <2>4, <2>5 DEF PipelineInv, RowsInv
<1> QED
  BY <1>2, <1>3, RowsSideSteps

(* The pipeline keeps what each side keeps on its own. *)
THEOREM PipelineInvariant == PipelineSafetySpec => []PipelineInv
<1>1. PipelineInit => PipelineInv
  <2> SUFFICES ASSUME PipelineInit PROVE JobsInv /\ RowsInv
    BY DEF PipelineInv
  <2>1. RowsInv
    BY RowsInvInit DEF PipelineInit
  <2> QED
    BY <2>1, InvInit DEF PipelineInit
<1>2. PipelineInv /\ [PipelineNext]_pipelineVars => PipelineInv'
  BY PipelineStep
<1> QED
  BY <1>1, <1>2, PTL DEF PipelineSafetySpec

(* A match that the table calls completed is marked as completed in         *)
(* DynamoDB, and everything found in some video of it was written: the chain *)
(* from the marker over the callback to the row, for every interleaving of  *)
(* attempts, batches and requests.                                          *)
THEOREM CompletedIsEarned == PipelineSafetySpec => []CompletedMeansMarker
<1>1. PipelineInv => CompletedMeansMarker
  <2> SUFFICES ASSUME PipelineInv, NEW m \in Match, matches[m].status = "completed"
               PROVE  m \in marker /\ \E v \in Video : ItemsOf(v) \subseteq written[m]
    BY DEF CompletedMeansMarker
  <2>1. PICK c \in callbacks : c.job.match = m /\ c.status = "completed"
    BY DEF PipelineInv, RowsInv, StatusWasReported, CallbackStatus
  <2>2. m \in marker
    BY <2>1 DEF PipelineInv, JobsInv, CompletedOnce
  <2> QED
    BY <2>2 DEF PipelineInv, JobsInv, MarkerAfterResults
<1> QED
  BY <1>1, PipelineInvariant, PTL
-----------------------------------------------------------------------------
(* The refinement.  Nothing is uploaded, and so nothing reported, of a match *)
(* without a row: a URL is handed out for a row that exists, and rows stay.  *)
UploadsHaveRows ==
  /\ \A m \in Match : m \in uploadUrls \/ uploads[m] > 0 => Exists(m)
  /\ \A r \in Request : requests[r].at # "idle" => Exists(requests[r].match)

LinkedInv == PipelineInv /\ UploadsHaveRows

LEMMA RowsRemain ==
  ASSUME RowsInv, [RowsNext]_rowsVars, NEW m \in Match, Exists(m)
  PROVE  Exists(m)'
<1>1. matches[m] \in Row
  BY DEF RowsInv, RowsTypeOK
<1>2. RowChange(m)
  BY RowChanges DEF RowsInv
<1>3. ASSUME NEW i \in Invocation, NEW c \in invocation[i].todo
      PROVE  Updated(matches[m], c).status # "INIT"
  <2>1. c \in Callback
    BY DEF RowsInv, RowsTypeOK
  <2>2. c.status # "INIT"
    BY <2>1 DEF Callback, CallbackStatus
  <2> QED
    BY <1>1, <2>2 DEF Updated, Row, Exists
<1> QED
  BY <1>1, <1>2, <1>3 DEF RowChange, Exists, Row

(* What the backend does with requests and URLs is about matches with a row. *)
LEMMA RequestsHaveRows ==
  ASSUME RowsInv, UploadsHaveRows, RowsStep
  PROVE  /\ \A m \in uploadUrls' : m \in Match /\ Exists(m)
         /\ \A r \in Request : requests'[r].at # "idle" =>
              requests'[r].match \in Match /\ Exists(requests'[r].match)
<1>0. /\ RowsTypeOK /\ uploadUrls \subseteq Match
      /\ \A r \in Request : requests[r].at # "idle" => requests[r].match \in Match
  BY RequestType DEF RowsInv, RowsTypeOK
<1>1. ASSUME NEW q \in Request, CreateUploadUrl(q)
      PROVE  \A m \in uploadUrls' : m \in Match /\ Exists(m)
  BY <1>0, <1>1 DEF CreateUploadUrl, UploadsHaveRows
<1>2. \/ \E q \in Request : CreateUploadUrl(q)
      \/ uploadUrls' \subseteq uploadUrls
  BY DEF RowsStep, BackendStep, RequestStep, UpdaterStep, InvocationStep, Create,
         ExpireUrl, Guard, ConfirmRead, ConfirmWrite, RemoveRead, RemoveWrite,
         RequestAborts, ReceiveBatch, UpdateStatus, AckBatch, InvocationFails,
         RedriveCallback, backendVars
<1>3. ASSUME NEW r \in Request, requests'[r].at # "idle"
      PROVE  requests'[r].match \in Match /\ Exists(requests'[r].match)
  <2>1. ASSUME NEW q \in Request, Finish(q) \/ ConfirmRead(q) \/ RemoveRead(q)
        PROVE  requests'[r].match = requests[r].match /\ requests[r].at # "idle"
    <3>1. CASE q # r
      BY <1>0, <1>3, <2>1, <3>1 DEF Finish, ConfirmRead, RemoveRead, RowsTypeOK
    <3>2. CASE q = r
      <4>1. ~Finish(q)
        BY <1>0, <1>3, <3>2 DEF Finish, RowsTypeOK, IdleRequest
      <4>2. requests[q] \in ActiveRequest
        BY <1>0, <2>1, <4>1, RequestType DEF ConfirmRead, RemoveRead
      <4> QED
        BY <1>0, <1>3, <2>1, <3>2, <4>1, <4>2
        DEF ConfirmRead, RemoveRead, RowsTypeOK, IdleRequest, ActiveRequest
    <3> QED
      BY <3>1, <3>2
  <2>2. ASSUME NEW q \in Request, NEW m \in Match, NEW handler \in Endpoints,
               Guard(q, m, handler)
        PROVE  requests'[r].match \in Match /\ Exists(requests'[r].match)
    <3>1. CASE q = r
      BY <1>0, <2>2, <3>1 DEF Guard, Visible, RowsTypeOK
    <3>2. CASE q # r
      BY <1>0, <1>3, <2>2, <3>2 DEF Guard, RowsTypeOK, UploadsHaveRows
    <3> QED
      BY <3>1, <3>2
  <2>3. \/ requests' = requests
        \/ \E q \in Request : Finish(q) \/ ConfirmRead(q) \/ RemoveRead(q)
        \/ \E q \in Request, m \in Match, handler \in Endpoints : Guard(q, m, handler)
    BY DEF RowsStep, BackendStep, RequestStep, UpdaterStep, InvocationStep, Create,
           ExpireUrl, CreateUploadUrl, ConfirmWrite, RemoveWrite, RequestAborts,
           ReceiveBatch, UpdateStatus, AckBatch, InvocationFails, RedriveCallback,
           backendVars
  <2> QED
    BY <1>0, <1>3, <2>1, <2>2, <2>3 DEF UploadsHaveRows
<1> QED
  BY <1>0, <1>1, <1>2, <1>3 DEF UploadsHaveRows

(* Only an upload counts uploads. *)
LEMMA UploadsCounted ==
  ASSUME [PipelineNext]_pipelineVars
  PROVE  \/ uploads' = uploads
         \/ \E m \in uploadUrls : uploads' = [uploads EXCEPT ![m] = @ + 1]
<1>1. JobsStep => uploads' = uploads
  <2>1. ASSUME NEW j \in Job,
               DispatchStep(j) \/ DispatchFails(j) \/ QueueStep(j) \/ Overrun(j)
        PROVE  uploads' = uploads
    BY <2>1 DEF DispatchStep, SendJob, SendDispatchStatus, DispatchFails, QueueStep,
                VisibilityTimeout, Redrive, Overrun, Reappear
  <2>2. ASSUME NEW t \in Task, WorkerStep(t)
        PROVE  uploads' = uploads
    BY <2>2 DEF WorkerStep, CheckMarker, DeleteSkipped, SendProcessing, Download,
                WriteItem, StoreItem, EventsRejected, PutMarker, SendCompleted,
                DeleteJob, SendFailed
  <2>3. ASSUME NEW t \in Task, WorkerFault(t)
        PROVE  uploads' = uploads
    BY <2>3 DEF WorkerFault, TryFails, FailsOutsideTry, SendFailedFails, Crash
  <2>4. ASSUME NEW t \in Task, NEW j \in Job, ReceiveMessage(t, j)
        PROVE  uploads' = uploads
    BY <2>4 DEF ReceiveMessage
  <2> QED
    BY <2>1, <2>2, <2>3, <2>4 DEF JobsStep
<1>2. ASSUME NEW m \in Match, NEW v \in Video, ClientUpload(m, v)
      PROVE  m \in uploadUrls /\ uploads' = [uploads EXCEPT ![m] = @ + 1]
  BY <1>2 DEF ClientUpload, Upload
<1>3. \/ JobsStep \/ UNCHANGED uploads
      \/ \E m \in Match, v \in Video : ClientUpload(m, v)
  BY DEF PipelineNext, Dispatch, Queue, Receive, Work, JobsFault, RowsSide, JobsStep,
         pipelineVars, jobsOnly
<1> QED
  BY <1>1, <1>2, <1>3

LEMMA LinkedStep ==
  ASSUME LinkedInv, [PipelineNext]_pipelineVars
  PROVE  LinkedInv'
<1>0. RowsInv /\ UploadsHaveRows /\ uploads \in [Match -> 0..MaxUploads]
      /\ uploadUrls \subseteq Match
  BY DEF LinkedInv, PipelineInv, JobsInv, JobsTypeOK, RowsInv, RowsTypeOK
<1>1. ASSUME NEW m \in Match, Exists(m)
      PROVE  Exists(m)'
  <2>1. CASE [RowsNext]_rowsVars
    BY <1>0, <1>1, <2>1, RowsRemain
  <2>2. CASE UNCHANGED rowsOnly
    BY <1>1, <2>2 DEF rowsOnly, Exists
  <2> QED
    BY <2>1, <2>2, RowsSideSteps
<1>2. \A m \in Match : uploads'[m] > 0 => Exists(m)
  BY <1>0, UploadsCounted DEF UploadsHaveRows
<1>3. /\ \A m \in uploadUrls' : m \in Match /\ Exists(m)
      /\ \A r \in Request : requests'[r].at # "idle" =>
           requests'[r].match \in Match /\ Exists(requests'[r].match)
  <2>1. CASE RowsStep
    BY <1>0, <2>1, RequestsHaveRows
  <2>2. CASE uploadUrls' = uploadUrls /\ requests' = requests
    <3>1. \A r \in Request : requests[r].at # "idle" => requests[r].match \in Match
      BY <1>0, RequestType DEF RowsInv
    <3> QED
      BY <1>0, <2>2, <3>1 DEF UploadsHaveRows
  <2>3. RowsStep \/ (uploadUrls' = uploadUrls /\ requests' = requests)
    BY DEF PipelineNext, ClientUpload, Dispatch, Queue, Receive, Work, JobsFault,
           RowsSide, rowsOnly, backendVars, pipelineVars
  <2> QED
    BY <2>1, <2>2, <2>3
<1>4. UploadsHaveRows'
  BY <1>1, <1>2, <1>3 DEF UploadsHaveRows
<1> QED
  BY <1>4, PipelineStep DEF LinkedInv

(* Dispatcher and workers report on matches that were uploaded.              *)
LEMMA ReportsAreOfUploads ==
  ASSUME JobsInv, [JobsNext]_jobsVars
  PROVE  \/ callbacks' = callbacks
         \/ \E c \in Callback :
              c.job.match \in Match /\ uploads[c.job.match] > 0 /\ Send(c)
<1>0. JobsTypeOK /\ NothingBeforeUpload
  BY DEF JobsInv
<1>1. ASSUME NEW j \in Job, SendDispatchStatus(j)
      PROVE  \E c \in Callback :
               c.job.match \in Match /\ uploads[c.job.match] > 0 /\ Send(c)
  <2> DEFINE c == StatusCallback(j, 0, "processing")
  <2>1. c \in Callback /\ c.job = j /\ j.match \in Match
    BY DEF StatusCallback, Callback, Job
  <2>2. uploads[j.match] > 0
    BY <1>0, <1>1 DEF SendDispatchStatus, NothingBeforeUpload
  <2> QED
    BY <1>1, <2>1, <2>2 DEF SendDispatchStatus
<1>2. ASSUME NEW t \in Task, NEW status \in CallbackStatus, task[t].pc # "idle",
             Send(StatusCallback(task[t].job, task[t].receipt, status))
      PROVE  \E c \in Callback :
               c.job.match \in Match /\ uploads[c.job.match] > 0 /\ Send(c)
  <2> DEFINE c == StatusCallback(task[t].job, task[t].receipt, status)
  <2>1. task[t] \in WorkingTask
    BY <1>0, <1>2 DEF JobsTypeOK, IdleTask
  <2>2. c \in Callback /\ c.job = task[t].job /\ c.job.match \in Match
    BY <2>1 DEF WorkingTask, StatusCallback, Callback, Job
  <2>3. uploads[task[t].job.match] > 0
    BY <1>0, <1>2 DEF NothingBeforeUpload
  <2> QED
    BY <1>2, <2>2, <2>3
<1>3. ASSUME NEW t \in Task, WorkerStep(t)
      PROVE  \/ callbacks' = callbacks
             \/ \E status \in CallbackStatus :
                  /\ task[t].pc # "idle"
                  /\ Send(StatusCallback(task[t].job, task[t].receipt, status))
  BY <1>3 DEF WorkerStep, CheckMarker, DeleteSkipped, SendProcessing, Download,
              WriteItem, StoreItem, EventsRejected, PutMarker, SendCompleted,
              DeleteJob, SendFailed, CallbackStatus
<1>4. ASSUME NEW j \in Job, DispatchStep(j) \/ DispatchFails(j) \/ QueueStep(j) \/ Overrun(j)
      PROVE  SendDispatchStatus(j) \/ callbacks' = callbacks
  BY <1>4 DEF DispatchStep, SendJob, DispatchFails, QueueStep, VisibilityTimeout,
              Redrive, Overrun, Reappear
<1>5. ASSUME NEW t \in Task, WorkerFault(t)
      PROVE  callbacks' = callbacks
  BY <1>5 DEF WorkerFault, TryFails, FailsOutsideTry, SendFailedFails, Crash
<1>6. ASSUME NEW t \in Task, NEW j \in Job, ReceiveMessage(t, j)
      PROVE  callbacks' = callbacks
  BY <1>6 DEF ReceiveMessage
<1>7. ASSUME NEW m \in Match, NEW v \in Video, Upload(m, v)
      PROVE  callbacks' = callbacks
  BY <1>7 DEF Upload
<1>8. UNCHANGED jobsVars => callbacks' = callbacks
  BY DEF jobsVars
<1> QED
  BY <1>1, <1>2, <1>3, <1>4, <1>5, <1>6, <1>7, <1>8 DEF JobsNext, JobsStep

(* Seen from the table, dispatcher, queue and workers are an environment     *)
(* that now and then has a callback arrive about a match with a row: what is *)
(* proved of MatchRows alone holds in the pipeline.                          *)
THEOREM PipelineImplementsRows == PipelineSafetySpec => ImplementsMatchRows
<1>1. PipelineInit => LinkedInv /\ RowsInit
  <2> SUFFICES ASSUME PipelineInit PROVE PipelineInv /\ UploadsHaveRows
    BY DEF LinkedInv, PipelineInit
  <2>1. PipelineInv
    BY InvInit, RowsInvInit DEF PipelineInit, PipelineInv
  <2>2. UploadsHaveRows
    BY DEF PipelineInit, JobsInit, RowsInit, UploadsHaveRows, IdleRequest
  <2> QED
    BY <2>1, <2>2
<1>2. LinkedInv /\ [PipelineNext]_pipelineVars => LinkedInv'
  BY LinkedStep
<1>3. ASSUME LinkedInv, [PipelineNext]_pipelineVars
      PROVE  [RowsNext]_rowsVars
  <2>1. CASE UNCHANGED rowsOnly
    <3>1. \/ callbacks' = callbacks
          \/ \E c \in Callback :
               c.job.match \in Match /\ uploads[c.job.match] > 0 /\ Send(c)
      BY <1>3, JobsSideSteps, ReportsAreOfUploads DEF LinkedInv, PipelineInv
    <3>2. CASE callbacks' = callbacks
      BY <2>1, <3>2 DEF rowsOnly, rowsVars, backendVars, updaterVars
    <3>3. ASSUME NEW c \in Callback, c.job.match \in Match,
                 uploads[c.job.match] > 0, Send(c)
          PROVE  [RowsNext]_rowsVars
      <4>1. Exists(c.job.match)
        BY <1>3, <3>3 DEF LinkedInv, UploadsHaveRows
      <4>2. UNCHANGED <<matches, backendVars, updaterVars>>
        BY <2>1 DEF rowsOnly
      <4>3. CASE c \in callbacks
        BY <3>2, <3>3, <4>3 DEF Send
      <4>4. CASE c \notin callbacks
        BY <3>3, <4>1, <4>2, <4>4 DEF CallbackArrives, RowsNext
      <4> QED
        BY <4>3, <4>4
    <3> QED
      BY <3>1, <3>2, <3>3
  <2> QED
    BY <1>3, <2>1, RowsSideSteps
<1> QED
  BY <1>1, <1>2, <1>3, PTL DEF PipelineSafetySpec, ImplementsMatchRows, RowsSafetySpec
-----------------------------------------------------------------------------
(* What is proved of the two sides, in the composition.                      *)

(* The backend and the callbacks' consumers do not disturb the analysis.     *)
THEOREM PipelineImplementsJobs == PipelineSafetySpec => JobsSafetySpec
<1>1. PipelineInit => JobsInit
  BY DEF PipelineInit
<1> QED
  BY <1>1, JobsSideSteps, PTL DEF PipelineSafetySpec, JobsSafetySpec

(* What readers of the items are promised, they are promised of the whole    *)
(* pipeline: no upload, request or callback gets in between.                 *)
THEOREM PipelineImplementsResults == PipelineSafetySpec => ImplementsHighlightResults
BY PipelineImplementsJobs, AnalysisImplementsResults

(* From upload to highlights, with every race, retry and redelivery, a row   *)
(* lives the life that docs/database-schema.md draws, one documented step    *)
(* at a time: only overlapping confirms of a client can leave it.            *)
THEOREM PipelineImplementsLifecycle ==
  ASSUME "overlap" \notin Faults
  PROVE  PipelineSafetySpec => ImplementsMatchLifecycle
BY PipelineImplementsRows, RowsImplementLifecycle DEF ImplementsMatchRows

LEMMA AlwaysLinked == PipelineSafetySpec => [](LinkedInv /\ TriesInOrder /\ ReportsEarned)
<1>1. PipelineInit => LinkedInv
  <2> SUFFICES ASSUME PipelineInit PROVE PipelineInv /\ UploadsHaveRows
    BY DEF LinkedInv
  <2>1. PipelineInv
    BY InvInit, RowsInvInit DEF PipelineInit, PipelineInv
  <2>2. UploadsHaveRows
    BY DEF PipelineInit, JobsInit, RowsInit, UploadsHaveRows, IdleRequest
  <2> QED
    BY <2>1, <2>2
<1>2. LinkedInv /\ [PipelineNext]_pipelineVars => LinkedInv'
  BY LinkedStep
<1> QED
  BY <1>1, <1>2, PipelineImplementsJobs, AlwaysReportsEarned, PTL DEF PipelineSafetySpec

(* A status past uploaded has a cause on the analysis side, although the two *)
(* share nothing but callbacks: a job that was sent for an upload of the     *)
(* match, and that a worker has received when the status is a final one.     *)
StatusHasCause(m) ==
  matches[m].status \in CallbackStatus =>
    \E j \in Job : /\ j.match = m
                  /\ j.upload <= uploads[m]
                  /\ jobs[j].place # "unsent"
                  /\ matches[m].status # "processing" => jobs[j].receives > 0

THEOREM StatusesHaveCauses == PipelineSafetySpec => []\A m \in Match : StatusHasCause(m)
<1>1. ASSUME LinkedInv, TriesInOrder, ReportsEarned, NEW m \in Match
      PROVE  StatusHasCause(m)
  <2> SUFFICES ASSUME matches[m].status \in CallbackStatus
               PROVE  \E j \in Job :
                        /\ j.match = m
                        /\ j.upload <= uploads[m]
                        /\ jobs[j].place # "unsent"
                        /\ matches[m].status # "processing" => jobs[j].receives > 0
    BY DEF StatusHasCause
  <2>1. PICK c \in callbacks : c.job.match = m /\ c.status = matches[m].status
    BY <1>1 DEF LinkedInv, PipelineInv, RowsInv, StatusWasReported
  <2>2. c \in Callback /\ c.job \in Job /\ jobs[c.job].receives \in Nat
    BY <1>1, CallbackAssumptions
    DEF LinkedInv, PipelineInv, JobsInv, JobsTypeOK, Callback
  <2>3. jobs[c.job].place # "unsent" /\ c.attempt <= jobs[c.job].receives
    BY <1>1 DEF ReportsEarned
  <2>4. c.job.upload <= uploads[m]
    BY <1>1, <2>1, <2>2, <2>3 DEF TriesInOrder
  <2>5. c.status # "processing" => c.attempt \in Nat \ {0}
    BY <2>2, CallbackAssumptions DEF Callback
  <2>6. c.status # "processing" => jobs[c.job].receives > 0
    BY <2>2, <2>3, <2>5
  <2> QED
    BY <2>1, <2>2, <2>3, <2>4, <2>6
<1>2. LinkedInv /\ TriesInOrder /\ ReportsEarned => \A m \in Match : StatusHasCause(m)
  BY <1>1
<1> QED
  BY <1>2, AlwaysLinked, PTL

(* The analysis side knows nothing of a match. *)
Unknown(m) ==
  /\ \A j \in Job : j.match = m => jobs[j].place = "unsent"
  /\ \A t \in Task : task[t].pc # "idle" => task[t].job.match # m
  /\ \A c \in callbacks : c.job.match # m
  /\ m \notin marker
  /\ written[m] = {}

(* Queue, tables and buckets never hold anything of a match that has no row: *)
(* no foreign key spans PostgreSQL, DynamoDB and S3.                         *)
THEOREM NoOrphans ==
  PipelineSafetySpec =>
    []\A m \in Match : ~Exists(m) => Unknown(m) /\ uploads[m] = 0 /\ m \notin uploadUrls
<1>1. ASSUME LinkedInv, ReportsEarned, NEW m \in Match, ~Exists(m)
      PROVE  Unknown(m) /\ uploads[m] = 0 /\ m \notin uploadUrls
  <2>1. JobsTypeOK /\ NothingBeforeUpload
    BY <1>1 DEF LinkedInv, PipelineInv, JobsInv
  <2>2. uploads[m] = 0 /\ m \notin uploadUrls
    BY <1>1, <2>1, CallbackAssumptions DEF LinkedInv, UploadsHaveRows, JobsTypeOK
  <2>3. \A j \in Job : j.match = m => jobs[j].place = "unsent"
    BY <2>1, <2>2 DEF NothingBeforeUpload
  <2>4. \A c \in callbacks : c.job \in Job /\ jobs[c.job].place # "unsent"
    BY <1>1, <2>1 DEF ReportsEarned, JobsTypeOK, Callback
  <2>5. \A t \in Task : task[t].pc # "idle" => task[t].job.match # m
    BY <2>1, <2>2 DEF NothingBeforeUpload
  <2>6. m \notin marker /\ written[m] = {}
    BY <2>1, <2>2 DEF NothingBeforeUpload
  <2> QED
    BY <2>2, <2>3, <2>4, <2>5, <2>6 DEF Unknown
<1>2. LinkedInv /\ TriesInOrder /\ ReportsEarned =>
        \A m \in Match : ~Exists(m) => Unknown(m) /\ uploads[m] = 0 /\ m \notin uploadUrls
  BY <1>1
<1> QED
  BY <1>2, AlwaysLinked, PTL

(* Only sending a job of it makes a match known. *)
LEMMA UnknownStays ==
  ASSUME JobsTypeOK, TriesInOrder, ReportsEarned, [JobsNext]_jobsVars,
         NEW m \in Match, Unknown(m), \A j \in Job : j.match = m => ~SendJob(j)
  PROVE  Unknown(m)'
<1>1. ASSUME NEW j \in Job, j.match = m
      PROVE  jobs'[j].place = "unsent"
  <2>1. jobs[j].place = "unsent" /\ ~SendJob(j)
    BY <1>1 DEF Unknown
  <2>2. \A t \in Task : ~(task[t].pc # "idle" /\ task[t].job = j)
    BY <1>1 DEF Unknown
  <2> QED
    BY <2>1, <2>2, OnlySentMessagesMove
<1>2. ASSUME NEW t \in Task, task'[t].pc # "idle"
      PROVE  task'[t].job.match # m
  <2>1. CASE task[t].pc # "idle" /\ SameJob(t)
    BY <2>1 DEF SameJob, Unknown
  <2>2. CASE JustReceived(t)
    BY <1>1, <2>2 DEF JustReceived
  <2> QED
    BY <1>2, <2>1, <2>2, TasksKeepJobs
<1>3. \A c \in callbacks' : c.job.match # m
  <2>1. ASSUME NEW j \in Job, SendDispatchStatus(j), NEW c \in callbacks'
        PROVE  c.job.match # m
    <3>1. c \in callbacks \/ c.job = j
      BY <2>1 DEF SendDispatchStatus, Send, StatusCallback
    <3>2. jobs[j].place # "unsent"
      BY <2>1 DEF SendDispatchStatus, ReportsEarned
    <3> QED
      BY <3>1, <3>2 DEF Unknown
  <2>2. ASSUME NEW t \in Task, NEW s \in CallbackStatus, task[t].pc # "idle",
               Send(StatusCallback(task[t].job, task[t].receipt, s)), NEW c \in callbacks'
        PROVE  c.job.match # m
    <3>1. c \in callbacks \/ c.job = task[t].job
      BY <2>2 DEF Send, StatusCallback
    <3> QED
      BY <2>2, <3>1 DEF Unknown
  <2>3. callbacks' = callbacks => \A c \in callbacks' : c.job.match # m
    BY DEF Unknown
  <2> QED
    BY <2>1, <2>2, <2>3, OneReportPerStep
<1>4. m \notin marker' /\ written'[m] = {}
  <2>1. ASSUME NEW t \in Task, PutMarker(t)
        PROVE  m \notin marker' /\ written'[m] = {}
    BY <2>1 DEF PutMarker, Unknown
  <2>2. ASSUME NEW t \in Task, task[t].pc = "writing", StoreItem(t)
        PROVE  m \notin marker' /\ written'[m] = {}
    <3>1. task[t].job.match # m
      BY <2>2 DEF Unknown
    <3> QED
      BY <2>2, <3>1 DEF StoreItem, Unknown, JobsTypeOK
  <2>3. \/ UNCHANGED <<marker, written>>
        \/ \E t \in Task : PutMarker(t)
        \/ \E t \in Task : task[t].pc = "writing" /\ StoreItem(t)
    BY DEF JobsNext, JobsStep, DispatchStep, QueueStep, VisibilityTimeout, Overrun,
           Reappear, Redrive, ReceiveMessage, Upload, SendJob, SendDispatchStatus,
           DispatchFails, WorkerStep, WorkerFault, CheckMarker, DeleteSkipped,
           SendProcessing, Download, WriteItem, EventsRejected, SendCompleted,
           DeleteJob, SendFailed, TryFails, FailsOutsideTry, SendFailedFails, Crash,
           jobsVars
  <2> QED
    BY <2>1, <2>2, <2>3 DEF Unknown
<1> QED
  BY <1>1, <1>2, <1>3, <1>4 DEF Unknown

(* In the pipeline a job is sent by Dispatch, and by nothing else.           *)
LEMMA SendsAreConfirmed ==
  ASSUME JobsTypeOK, [PipelineNext]_pipelineVars, NEW j \in Job, SendJob(j)
  PROVE  Confirmed(j) /\ UNCHANGED rowsOnly
<1>0. dispatch[j] = "pending" /\ dispatch'[j] = "jobSent"
  BY DEF SendJob, JobsTypeOK
<1>1. ASSUME NEW k \in Job, Dispatch(k)
      PROVE  k = j
  BY <1>0, <1>1 DEF Dispatch, DispatchStep, SendJob, SendDispatchStatus, JobsTypeOK
<1>2. ASSUME NEW k \in Job, DispatchFails(k)
      PROVE  FALSE
  BY <1>0, <1>2 DEF DispatchFails
<1>3. ASSUME NEW m \in Match, NEW v \in Video, ClientUpload(m, v)
      PROVE  FALSE
  BY <1>0, <1>3 DEF ClientUpload, Upload, JobsTypeOK
<1>4. \/ dispatch' = dispatch
      \/ \E k \in Job : Dispatch(k)
      \/ \E k \in Job : DispatchFails(k)
      \/ \E m \in Match, v \in Video : ClientUpload(m, v)
  BY DEF PipelineNext, Queue, QueueStep, VisibilityTimeout, Overrun, Reappear, Redrive,
         Receive, ReceiveMessage, Work, WorkerStep, JobsFault, WorkerFault, CheckMarker,
         DeleteSkipped, SendProcessing, Download, WriteItem, StoreItem, EventsRejected,
         PutMarker, SendCompleted, DeleteJob, SendFailed, TryFails, FailsOutsideTry,
         SendFailedFails, Crash, RowsSide, jobsOnly, pipelineVars
<1> QED
  BY <1>0, <1>1, <1>2, <1>3, <1>4 DEF Dispatch

Unconfirmed(m) == matches[m].status \in {"INIT", "pending"}

UnconfirmedUnknown == \A m \in Match : Unconfirmed(m) => Unknown(m)

(* A row that was confirmed never counts as unconfirmed again. *)
LEMMA ConfirmedForGood ==
  ASSUME RowsInv, [PipelineNext]_pipelineVars, NEW m \in Match, ~Unconfirmed(m)
  PROVE  ~Unconfirmed(m)'
<1>0. matches[m] \in Row /\ RowsTypeOK
  BY DEF RowsInv, RowsTypeOK
<1>1. CASE [RowsNext]_rowsVars
  <2>1. RowChange(m)
    BY <1>0, <1>1, RowChanges
  <2>2. ASSUME NEW i \in Invocation, NEW c \in invocation[i].todo
        PROVE  Updated(matches[m], c).status \notin {"INIT", "pending"}
    <3>1. c.status \in CallbackStatus
      BY <1>0, <2>2 DEF RowsTypeOK, Callback, CallbackStatus
    <3> QED
      BY <1>0, <3>1 DEF Updated, Row, Unconfirmed, CallbackStatus
  <2> QED
    BY <1>0, <2>1, <2>2 DEF RowChange, Unconfirmed, Row
<1>2. CASE UNCHANGED rowsOnly
  BY <1>2 DEF rowsOnly, Unconfirmed
<1> QED
  BY <1>1, <1>2, RowsSideSteps

(* Where Dispatch waits for the confirm, nothing of a match that is not      *)
(* confirmed is queued, analysed, written or reported: what that assumption  *)
(* means for the callbacks, in the form FinalCallbacksCount needs.           *)
LEMMA ConfirmedFirst ==
  ASSUME "lateConfirm" \notin Faults
  PROVE  PipelineSafetySpec => []UnconfirmedUnknown
<1>1. PipelineInit => UnconfirmedUnknown
  BY DEF PipelineInit, JobsInit, UnconfirmedUnknown, Unknown, IdleTask
<1>2. ASSUME LinkedInv, TriesInOrder, ReportsEarned, UnconfirmedUnknown,
             [PipelineNext]_pipelineVars
      PROVE  UnconfirmedUnknown'
  <2> SUFFICES ASSUME NEW m \in Match, Unconfirmed(m)' PROVE Unknown(m)'
    BY DEF UnconfirmedUnknown
  <2>1. JobsTypeOK /\ NothingBeforeUpload /\ RowsInv
    BY <1>2 DEF LinkedInv, PipelineInv, JobsInv
  <2>2. Unconfirmed(m) /\ Unknown(m)
    BY <1>2, <2>1, ConfirmedForGood DEF UnconfirmedUnknown
  <2>3. ASSUME NEW j \in Job, j.match = m, SendJob(j)
        PROVE  FALSE
    <3>1. Confirmed(j)
      BY <1>2, <2>1, <2>3, SendsAreConfirmed
    <3>2. matches[m].status = "INIT"
      BY <2>2, <2>3, <3>1 DEF Confirmed, Unconfirmed
    <3>3. uploads[m] > 0
      BY <2>1, <2>3 DEF SendJob, NothingBeforeUpload
    <3> QED
      BY <1>2, <3>2, <3>3 DEF LinkedInv, UploadsHaveRows, Exists
  <2> QED
    BY <1>2, <2>1, <2>2, <2>3, JobsSideSteps, UnknownStays
<1>3. PipelineSafetySpec => [](LinkedInv /\ TriesInOrder /\ ReportsEarned)
  BY AlwaysLinked
<1> QED
  BY <1>1, <1>2, <1>3, PTL DEF PipelineSafetySpec
-----------------------------------------------------------------------------
(* What becomes of a final callback.  It is acted on when the row has        *)
(* started; it is sent after a processing callback of its match, batches     *)
(* keep that order, and a processing callback that was applied shows.        *)

(* The places from which a final callback may be sent, and the way there. *)
Reporting == {"download", "writing", "announce", "delete", "failing"}

ProcessingOf(m, d) == d.job.match = m /\ d.status = "processing"

ProcessingFirst ==
  /\ \A t \in Task : task[t].pc \in Reporting =>
       \E d \in callbacks : ProcessingOf(task[t].job.match, d)
  /\ \A c \in callbacks : c.status # "processing" => \E d \in callbacks : Overtakes(c, d)

(* A task is on its way to a final callback since it has sent processing.    *)
LEMMA ReportingTasks ==
  ASSUME "notify" \notin Faults, JobsTypeOK, [JobsNext]_jobsVars, NEW t \in Task,
         task'[t].pc \in Reporting
  PROVE  \/ task[t].pc \in Reporting /\ task'[t].job = task[t].job
         \/ SendProcessing(t) /\ task'[t].job = task[t].job
<1>1. ASSUME NEW u \in Task, NEW j \in Job, ReceiveMessage(u, j)
      PROVE  task'[t] = task[t]
  BY <1>1 DEF ReceiveMessage, JobsTypeOK, IdleTask, Reporting
<1>2. ASSUME NEW u \in Task, NEW pc, Goto(u, pc)
      PROVE  task'[t] = task[t] \/ (t = u /\ task'[t].pc = pc /\ task'[t].job = task[t].job)
  BY <1>2 DEF Goto, JobsTypeOK, IdleTask, WorkingTask
<1>3. ASSUME NEW u \in Task, ToIdle(u)
      PROVE  task'[t] = task[t]
  BY <1>3 DEF ToIdle, JobsTypeOK, IdleTask, Reporting
<1>4. ASSUME NEW u \in Task, CheckMarker(u)
      PROVE  task'[t] = task[t]
  BY <1>2, <1>4 DEF CheckMarker, Reporting
<1>5. ASSUME NEW u \in Task, SendProcessing(u)
      PROVE  task'[t] = task[t] \/ (t = u /\ task'[t].job = task[t].job)
  BY <1>2, <1>5 DEF SendProcessing
<1>6. ASSUME NEW u \in Task, PutMarker(u) \/ SendCompleted(u) \/ TryFails(u)
                             \/ (task[u].pc = "writing" /\ EventsRejected(u))
      PROVE  /\ task'[t] = task[t] \/ (t = u /\ task'[t].job = task[t].job)
             /\ task[u].pc \in Reporting
  <2>1. task[u].pc \in Reporting
    BY <1>6 DEF PutMarker, SendCompleted, TryFails, CallsInTry, Reporting
  <2>2. \E pc : Goto(u, pc)
    BY <1>6 DEF PutMarker, SendCompleted, TryFails, EventsRejected
  <2> QED
    BY <1>2, <2>1, <2>2
<1>7. ASSUME NEW u \in Task, Download(u) \/ (task[u].pc = "writing" /\ StoreItem(u))
      PROVE  task[t].pc \in Reporting /\ task'[t].job = task[t].job
  <2>1. task[u].pc \in Reporting /\ task[u].pc # "idle"
    BY <1>7 DEF Download, Reporting
  <2>2. task[u] \in WorkingTask
    BY <2>1, WorkingTasks
  <2>3. task'[u].job = task[u].job
    <3>1. CASE Download(u)
      BY <2>2, <3>1 DEF Download, JobsTypeOK, WorkingTask
    <3>2. CASE StoreItem(u)
      BY <2>2, <3>2 DEF StoreItem, JobsTypeOK, WorkingTask
    <3> QED
      BY <1>7, <3>1, <3>2
  <2>4. t # u => task'[t] = task[t]
    BY <1>7 DEF Download, StoreItem, JobsTypeOK
  <2> QED
    BY <2>1, <2>3, <2>4
<1>8. ASSUME NEW u \in Task, \/ DeleteSkipped(u) \/ DeleteJob(u) \/ SendFailed(u)
                             \/ FailsOutsideTry(u) \/ SendFailedFails(u) \/ Crash(u)
      PROVE  task'[t] = task[t]
  BY <1>3, <1>8
  DEF DeleteSkipped, DeleteJob, SendFailed, FailsOutsideTry, SendFailedFails, Crash
<1>9. ASSUME NEW u \in Task, WorkerStep(u) \/ WorkerFault(u)
      PROVE  \/ task'[t] = task[t]
             \/ task[t].pc \in Reporting /\ task'[t].job = task[t].job
             \/ SendProcessing(t) /\ task'[t].job = task[t].job
  BY <1>4, <1>5, <1>6, <1>7, <1>8, <1>9 DEF WorkerStep, WorkerFault, WriteItem
<1>10. \/ task' = task
       \/ \E u \in Task, j \in Job : ReceiveMessage(u, j)
       \/ \E u \in Task : WorkerStep(u) \/ WorkerFault(u)
  BY DEF JobsNext, JobsStep, DispatchStep, QueueStep, VisibilityTimeout, Overrun,
         Upload, SendJob, SendDispatchStatus, DispatchFails, Reappear, Redrive, jobsVars
<1> QED
  BY <1>1, <1>9, <1>10

LEMMA ProcessingFirstStep ==
  ASSUME "notify" \notin Faults, JobsTypeOK, ProcessingFirst, [JobsNext]_jobsVars
  PROVE  ProcessingFirst'
<1>1. callbacks \subseteq callbacks'
  BY CallbacksGrow
<1>2. ASSUME NEW t \in Task, task'[t].pc \in Reporting
      PROVE  \E d \in callbacks' : ProcessingOf(task'[t].job.match, d)
  <2>1. CASE task[t].pc \in Reporting /\ task'[t].job = task[t].job
    BY <1>1, <2>1 DEF ProcessingFirst
  <2>2. CASE SendProcessing(t) /\ task'[t].job = task[t].job
    <3> DEFINE d == StatusCallback(task[t].job, task[t].receipt, "processing")
    <3>1. d \in callbacks'
      BY <2>2 DEF SendProcessing, Send
    <3>2. ProcessingOf(task'[t].job.match, d)
      BY <2>2 DEF StatusCallback, ProcessingOf
    <3> QED
      BY <3>1, <3>2
  <2> QED
    BY <1>2, <2>1, <2>2, ReportingTasks
<1>3. ASSUME NEW c \in callbacks', c.status # "processing"
      PROVE  c \in callbacks \/ \E t \in Task : task[t].pc \in Reporting /\ c.job = task[t].job
  <2>1. ASSUME NEW j \in Job, SendDispatchStatus(j)
        PROVE  c \in callbacks
    BY <1>3, <2>1 DEF SendDispatchStatus, Send, StatusCallback
  <2>2. ASSUME NEW t \in Task, SendProcessing(t)
        PROVE  c \in callbacks
    BY <1>3, <2>2 DEF SendProcessing, Send, StatusCallback
  <2>3. ASSUME NEW t \in Task, SendCompleted(t) \/ SendFailed(t)
        PROVE  c \in callbacks \/ (task[t].pc \in Reporting /\ c.job = task[t].job)
    BY <1>3, <2>3 DEF SendCompleted, SendFailed, Send, StatusCallback, Reporting
  <2>4. \/ callbacks' = callbacks
        \/ \E j \in Job : SendDispatchStatus(j)
        \/ \E t \in Task : SendProcessing(t) \/ SendCompleted(t) \/ SendFailed(t)
    BY DEF JobsNext, JobsStep, DispatchStep, QueueStep, VisibilityTimeout, Overrun,
           Reappear, Redrive, ReceiveMessage, Upload, SendJob, DispatchFails,
           WorkerStep, WorkerFault, CheckMarker, DeleteSkipped, Download, WriteItem,
           StoreItem, EventsRejected, PutMarker, DeleteJob, TryFails, FailsOutsideTry,
           SendFailedFails, Crash, jobsVars
  <2> QED
    BY <2>1, <2>2, <2>3, <2>4
<1>4. ASSUME NEW c \in callbacks', c.status # "processing"
      PROVE  \E d \in callbacks' : Overtakes(c, d)
  BY <1>1, <1>3, <1>4 DEF ProcessingFirst, ProcessingOf, Overtakes
<1> QED
  BY <1>2, <1>4 DEF ProcessingFirst

(* An invocation has applied the callback, or the batch was acknowledged.    *)
Applied(c) ==
  c \in acked \/ \E i \in Invocation : c \in invocation[i].batch \ invocation[i].todo

(* An applied processing callback shows in the row. *)
ProcessingApplied ==
  \A d \in Callback : d.status = "processing" /\ Applied(d) =>
    matches[d.job.match].status \notin {"INIT", "pending", "uploaded"}

(* A final callback in a batch is not ahead of all processing callbacks. *)
BatchesInOrder ==
  \A i \in Invocation : \A c \in invocation[i].batch : c.status # "processing" =>
    \E d \in Callback :
      Overtakes(c, d) /\ d \in acked \cup dead \cup invocation[i].batch

Counted(c) ==
  \/ matches[c.job.match].status \in TerminalStatus
  \/ \E d \in dead : Overtakes(c, d)

FinalsApplied == \A c \in Callback : c.status # "processing" /\ Applied(c) => Counted(c)

FinalsInv == ProcessingFirst /\ ProcessingApplied /\ BatchesInOrder /\ FinalsApplied

(* What the queue and the invocations do in a step. *)
LEMMA UpdaterChanges ==
  ASSUME RowsTypeOK, [PipelineNext]_pipelineVars
  PROVE  /\ acked \subseteq acked' /\ dead \subseteq dead'
         /\ \/ \E i \in Invocation : \/ ReceiveBatch(i) \/ UpdateStatus(i)
                                       \/ AckBatch(i) \/ InvocationFails(i)
            \/ invocation' = invocation /\ acked' = acked
BY DEF PipelineNext, ClientUpload, Dispatch, Queue, Receive, Work, JobsFault, RowsSide,
       RowsStep, BackendStep, RequestStep, UpdaterStep, InvocationStep, Create, ExpireUrl,
       Guard, CreateUploadUrl, ConfirmRead, ConfirmWrite, RemoveRead, RemoveWrite,
       RequestAborts, ReceiveBatch, UpdateStatus, AckBatch, InvocationFails,
       RedriveCallback, rowsOnly, updaterVars, pipelineVars

(* A callback gets applied by UpdateStatus, in its turn. *)
LEMMA AppliedInTurn ==
  ASSUME "reorder" \notin Faults, RowsTypeOK, [PipelineNext]_pipelineVars,
         NEW c \in Callback, Applied(c)'
  PROVE  \/ Applied(c)
         \/ \E i \in Invocation :
              /\ c \in invocation[i].todo /\ c \in invocation[i].batch
              /\ \A d \in invocation[i].todo : ~Overtakes(c, d)
              /\ matches' = [matches EXCEPT ![c.job.match] = Updated(@, c)]
<1>1. ASSUME NEW i \in Invocation, ReceiveBatch(i)
      PROVE  Applied(c)
  <2>1. PICK batch : invocation' = [invocation EXCEPT ![i] = [batch |-> batch, todo |-> batch]]
    BY <1>1 DEF ReceiveBatch
  <2>2. acked' = acked
    BY <1>1 DEF ReceiveBatch
  <2>3. \A j \in Invocation : invocation'[j] = invocation[j]
                             \/ invocation'[j].batch \ invocation'[j].todo = {}
    BY <2>1 DEF RowsTypeOK
  <2> QED
    BY <2>2, <2>3 DEF Applied
<1>2. ASSUME NEW i \in Invocation, UpdateStatus(i)
      PROVE  \/ Applied(c)
             \/ /\ c \in invocation[i].todo /\ c \in invocation[i].batch
                /\ \A d \in invocation[i].todo : ~Overtakes(c, d)
                /\ matches' = [matches EXCEPT ![c.job.match] = Updated(@, c)]
  <2>1. PICK e \in invocation[i].todo :
          /\ \A d \in invocation[i].todo : ~Overtakes(e, d)
          /\ matches' = [matches EXCEPT ![e.job.match] = Updated(@, e)]
          /\ invocation' = [invocation EXCEPT ![i].todo = @ \ {e}]
    BY <1>2 DEF UpdateStatus
  <2>2. acked' = acked
    BY <1>2 DEF UpdateStatus
  <2>3. \A j \in Invocation :
          /\ invocation'[j].batch = invocation[j].batch
          /\ j # i => invocation'[j].todo = invocation[j].todo
    BY <2>1 DEF RowsTypeOK
  <2>4. invocation'[i].todo = invocation[i].todo \ {e}
    BY <2>1 DEF RowsTypeOK
  <2>5. Applied(c) \/ (c = e /\ c \in invocation[i].batch)
    BY <2>2, <2>3, <2>4 DEF Applied
  <2> QED
    BY <2>1, <2>5
<1>3. ASSUME NEW i \in Invocation, AckBatch(i)
      PROVE  Applied(c)
  <2>1. \A j \in Invocation : invocation'[j] = invocation[j] \/ invocation'[j] = IdleInvocation
    BY <1>3 DEF AckBatch, RowsTypeOK
  <2>2. acked' = acked \cup invocation[i].batch /\ invocation[i].todo = {}
    BY <1>3 DEF AckBatch
  <2> QED
    BY <2>1, <2>2 DEF Applied, IdleInvocation
<1>4. ASSUME NEW i \in Invocation, InvocationFails(i)
      PROVE  Applied(c)
  <2>1. \A j \in Invocation : invocation'[j] = invocation[j] \/ invocation'[j] = IdleInvocation
    BY <1>4 DEF InvocationFails, RowsTypeOK
  <2>2. acked' = acked
    BY <1>4 DEF InvocationFails
  <2> QED
    BY <2>1, <2>2 DEF Applied, IdleInvocation
<1>5. CASE invocation' = invocation /\ acked' = acked
  BY <1>5 DEF Applied
<1> QED
  BY <1>1, <1>2, <1>3, <1>4, <1>5, UpdaterChanges

LEMMA BatchesInOrderStep ==
  ASSUME "reorder" \notin Faults, RowsTypeOK, ProcessingFirst, BatchesInOrder,
         [PipelineNext]_pipelineVars
  PROVE  BatchesInOrder'
<1> SUFFICES ASSUME NEW j \in Invocation, NEW c \in invocation'[j].batch,
                    c.status # "processing"
             PROVE  \E d \in Callback :
                      Overtakes(c, d) /\ d \in acked' \cup dead' \cup invocation'[j].batch
  BY DEF BatchesInOrder, Overtakes
<1>0. acked \subseteq acked' /\ dead \subseteq dead'
  BY UpdaterChanges
<1>1. CASE invocation'[j].batch = invocation[j].batch
  BY <1>0, <1>1 DEF BatchesInOrder
<1>2. ASSUME NEW i \in Invocation, ReceiveBatch(i), invocation'[j].batch # invocation[j].batch
      PROVE  \E d \in Callback :
               Overtakes(c, d) /\ d \in acked' \cup dead' \cup invocation'[j].batch
  <2>1. PICK batch \in SUBSET {e \in callbacks : CallbackReceivable(e)} :
          /\ \A e \in batch, d \in callbacks : Overtakes(e, d) /\ Unsettled(d) => d \in batch
          /\ invocation' = [invocation EXCEPT ![i] = [batch |-> batch, todo |-> batch]]
    BY <1>2 DEF ReceiveBatch
  <2>2. invocation'[j].batch = batch
    BY <1>2, <2>1 DEF RowsTypeOK
  <2>3. c \in batch /\ c \in callbacks
    BY <2>1, <2>2
  <2>4. PICK d \in callbacks : Overtakes(c, d)
    BY <2>3 DEF ProcessingFirst
  <2>5. d \in acked \cup dead \cup batch
    BY <2>1, <2>3, <2>4 DEF Unsettled
  <2>6. d \in Callback
    BY <2>4 DEF RowsTypeOK
  <2> QED
    BY <1>0, <2>2, <2>4, <2>5, <2>6
<1>3. ASSUME NEW i \in Invocation, UpdateStatus(i)
      PROVE  invocation'[j].batch = invocation[j].batch
  <2>1. PICK e : invocation' = [invocation EXCEPT ![i].todo = @ \ {e}]
    BY <1>3 DEF UpdateStatus
  <2> QED
    BY <2>1 DEF RowsTypeOK
<1>4. ASSUME NEW i \in Invocation, AckBatch(i) \/ InvocationFails(i)
      PROVE  invocation'[j].batch = invocation[j].batch
  BY <1>4 DEF AckBatch, InvocationFails, IdleInvocation, RowsTypeOK
<1> QED
  BY <1>1, <1>2, <1>3, <1>4, UpdaterChanges

(* Rows that have started stay started, and settled ones settled. *)
LEMMA StatusesAdvance ==
  ASSUME LifecycleInv, [PipelineNext]_pipelineVars, NEW m \in Match
  PROVE  /\ matches[m].status \notin {"INIT", "pending", "uploaded"} =>
              matches'[m].status \notin {"INIT", "pending", "uploaded"}
         /\ matches[m].status \in TerminalStatus => matches'[m].status \in TerminalStatus
<1>1. \/ matches[m].status = matches'[m].status
      \/ assertValidTransition(matches[m].status, matches'[m].status)
  <2>1. CASE UNCHANGED rowsOnly
    BY <2>1 DEF rowsOnly
  <2> QED
    BY <2>1, RowsSideSteps, StatusSteps
<1>2. matches[m].status \in TransitionState
  BY DEF LifecycleInv, RowsTypeOK, Row
<1> QED
  BY <1>1, <1>2
  DEF assertValidTransition, ALLOWED_TRANSITIONS, TransitionState, MatchStatus, TerminalStatus

LEMMA ProcessingAppliedStep ==
  ASSUME "reorder" \notin Faults, LinkedInv, LifecycleInv, UnconfirmedUnknown,
         ProcessingApplied, [PipelineNext]_pipelineVars
  PROVE  ProcessingApplied'
<1> SUFFICES ASSUME NEW d \in Callback, d.status = "processing", Applied(d)'
             PROVE  matches'[d.job.match].status \notin {"INIT", "pending", "uploaded"}
  BY DEF ProcessingApplied
<1>0. d.job.match \in Match /\ RowsTypeOK /\ BatchesReceived
  BY DEF Callback, Job, LinkedInv, PipelineInv, RowsInv
<1>1. CASE Applied(d)
  <2>1. matches[d.job.match].status \notin {"INIT", "pending", "uploaded"}
    BY <1>1 DEF ProcessingApplied
  <2> QED
    BY <1>0, <2>1, StatusesAdvance
<1>2. ASSUME NEW i \in Invocation, d \in invocation[i].todo,
             matches' = [matches EXCEPT ![d.job.match] = Updated(@, d)]
      PROVE  matches'[d.job.match].status \notin {"INIT", "pending", "uploaded"}
  <2>1. d \in callbacks
    BY <1>0, <1>2 DEF BatchesReceived
  <2>2. matches[d.job.match].status \notin {"INIT", "pending"}
    BY <1>0, <2>1 DEF UnconfirmedUnknown, Unconfirmed, Unknown
  <2>3. matches'[d.job.match] = Updated(matches[d.job.match], d)
    BY <1>0, <1>2 DEF RowsTypeOK
  <2>4. matches[d.job.match] \in Row
    BY <1>0 DEF RowsTypeOK
  <2>5. CASE matches[d.job.match].status = "uploaded"
    <3>1. is_valid_transition(matches[d.job.match].status, d.status)
      BY <2>5 DEF is_valid_transition, LAMBDA_TRANSITIONS
    <3> QED
      BY <2>3, <2>4, <3>1 DEF Updated, Row
  <2>6. CASE matches[d.job.match].status # "uploaded"
    BY <1>0, <2>2, <2>6, StatusesAdvance
  <2> QED
    BY <2>5, <2>6
<1> QED
  BY <1>0, <1>1, <1>2, AppliedInTurn

LEMMA FinalsAppliedStep ==
  ASSUME "reorder" \notin Faults, LifecycleInv, ProcessingApplied, BatchesInOrder,
         FinalsApplied, [PipelineNext]_pipelineVars
  PROVE  FinalsApplied'
<1> SUFFICES ASSUME NEW c \in Callback, c.status # "processing", Applied(c)'
             PROVE  \/ matches'[c.job.match].status \in TerminalStatus
                    \/ \E d \in dead' : Overtakes(c, d)
  BY DEF FinalsApplied, Counted, Overtakes
<1>0. c.job.match \in Match /\ RowsTypeOK
  BY DEF Callback, Job, LifecycleInv
<1>1. dead \subseteq dead'
  BY <1>0, UpdaterChanges
<1>2. CASE Applied(c)
  <2>1. Counted(c)
    BY <1>2 DEF FinalsApplied
  <2> QED
    BY <1>0, <1>1, <2>1, StatusesAdvance DEF Counted
<1>3. ASSUME NEW i \in Invocation, c \in invocation[i].batch,
             \A d \in invocation[i].todo : ~Overtakes(c, d),
             matches' = [matches EXCEPT ![c.job.match] = Updated(@, c)]
      PROVE  \/ matches'[c.job.match].status \in TerminalStatus
             \/ \E d \in dead' : Overtakes(c, d)
  <2>1. PICK d \in Callback :
          Overtakes(c, d) /\ d \in acked \cup dead \cup invocation[i].batch
    BY <1>3 DEF BatchesInOrder
  <2>2. CASE d \in dead
    BY <1>1, <2>1, <2>2
  <2>3. CASE d \notin dead
    <3>1. Applied(d)
      BY <1>3, <2>1, <2>3 DEF Applied
    <3>2. matches[c.job.match].status \in {"processing", "completed", "failed"}
      <4>1. d.job.match = c.job.match /\ d.status = "processing"
        BY <2>1 DEF Overtakes
      <4>2. matches[c.job.match].status \notin {"INIT", "pending", "uploaded"}
        BY <3>1, <4>1 DEF ProcessingApplied
      <4>3. matches[c.job.match].status \in TransitionState
        BY <1>0 DEF RowsTypeOK, Row
      <4> QED
        BY <4>2, <4>3 DEF TransitionState, MatchStatus
    <3>3. CASE matches[c.job.match].status = "processing"
      <4>1. c.status \in {"completed", "failed"}
        BY DEF Callback, CallbackStatus
      <4>2. is_valid_transition(matches[c.job.match].status, c.status)
        BY <3>3, <4>1 DEF is_valid_transition, LAMBDA_TRANSITIONS
      <4>3. matches'[c.job.match] = Updated(matches[c.job.match], c)
        BY <1>0, <1>3 DEF RowsTypeOK
      <4>4. matches[c.job.match] \in Row
        BY <1>0 DEF RowsTypeOK
      <4> QED
        BY <4>1, <4>2, <4>3, <4>4 DEF Updated, Row, TerminalStatus
    <3>4. CASE matches[c.job.match].status \in TerminalStatus
      BY <1>0, <3>4, StatusesAdvance
    <3> QED
      BY <3>2, <3>3, <3>4 DEF TerminalStatus
  <2> QED
    BY <2>2, <2>3
<1> QED
  BY <1>0, <1>2, <1>3, AppliedInTurn

(* The queue is done with a final callback only when it counted.  Each of    *)
(* the four hypotheses is needed; a Lambda that fails, redeliveries, crashes *)
(* of workers and removed matches are all allowed.  An invalid transition is *)
(* answered with success, so a final callback that came too early is lost    *)
(* for good: nothing but the order of the reports protects it.               *)
THEOREM FinalCallbacksCount ==
  ASSUME "reorder" \notin Faults, "lateConfirm" \notin Faults,
         "overlap" \notin Faults, "notify" \notin Faults
  PROVE  PipelineSafetySpec => []AckedFinalsCount
<1>1. PipelineInit => FinalsInv
  BY DEF PipelineInit, JobsInit, RowsInit, FinalsInv, ProcessingFirst, ProcessingApplied,
         BatchesInOrder, FinalsApplied, Applied, IdleTask, IdleInvocation, Reporting
<1>2. ASSUME LinkedInv, LifecycleInv, UnconfirmedUnknown, FinalsInv,
             [PipelineNext]_pipelineVars
      PROVE  FinalsInv'
  <2>1. JobsTypeOK /\ RowsTypeOK
    BY <1>2 DEF LinkedInv, PipelineInv, JobsInv, RowsInv
  <2>2. ProcessingFirst'
    BY <1>2, <2>1, JobsSideSteps, ProcessingFirstStep DEF FinalsInv
  <2>3. ProcessingApplied'
    BY <1>2, ProcessingAppliedStep DEF FinalsInv
  <2>4. BatchesInOrder'
    BY <1>2, <2>1, BatchesInOrderStep DEF FinalsInv
  <2>5. FinalsApplied'
    BY <1>2, FinalsAppliedStep DEF FinalsInv
  <2> QED
    BY <2>2, <2>3, <2>4, <2>5 DEF FinalsInv
<1>3. RowsTypeOK /\ FinalsInv => AckedFinalsCount
  BY DEF AckedFinalsCount, FinalsInv, FinalsApplied, Applied, Counted, Overtakes,
         RowsTypeOK, TerminalStatus
<1>4. PipelineSafetySpec => [](LinkedInv /\ TriesInOrder /\ ReportsEarned)
  BY AlwaysLinked
<1>5. PipelineSafetySpec => []LifecycleInv
  BY PipelineImplementsRows, AlwaysLifecycleInv DEF ImplementsMatchRows
<1>6. PipelineSafetySpec => []UnconfirmedUnknown
  BY ConfirmedFirst
<1>7. LinkedInv => RowsTypeOK
  BY DEF LinkedInv, PipelineInv, RowsInv
<1> QED
  BY <1>1, <1>2, <1>3, <1>4, <1>5, <1>6, <1>7, PTL DEF PipelineSafetySpec
=============================================================================

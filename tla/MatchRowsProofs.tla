-------------------------- MODULE MatchRowsProofs --------------------------
(* Proofs about MatchRows, for every number of matches, requests and        *)
(* invocations, every batch size and every set of faults.                   *)
EXTENDS MatchRows, TLAPS

(* What a status callback makes of a row is a row. *)
LEMMA UpdatedType ==
  ASSUME NEW row \in Row, NEW c \in Callback
  PROVE  Updated(row, c) \in Row
<1>1. c.status \in CallbackStatus
  BY DEF Callback, CallbackStatus
<1>2. c.status \in TransitionState
  BY <1>1 DEF CallbackStatus, TransitionState, MatchStatus
<1> QED
  BY <1>2 DEF Updated, Row

(* So is what confirmUpload makes of it. *)
LEMMA ConfirmedType ==
  ASSUME NEW row \in Row
  PROVE  [row EXCEPT !.status = "uploaded", !.video_s3_key = TRUE] \in Row
<1>1. "uploaded" \in TransitionState
  BY DEF TransitionState, MatchStatus
<1> QED
  BY <1>1 DEF Row

(* The status of a request between two statements is a request's state. *)
LEMMA RequestType ==
  ASSUME RowsTypeOK, NEW r \in Request, requests[r].at # "idle"
  PROVE  requests[r] \in ActiveRequest /\ requests[r].match \in Match
  BY DEF RowsTypeOK, IdleRequest, ActiveRequest

(* A request that finishes keeps the requests' type. *)
LEMMA FinishType ==
  ASSUME RowsTypeOK, NEW r \in Request, Finish(r)
  PROVE  requests' \in [Request -> ActiveRequest \cup {IdleRequest}]
  BY DEF RowsTypeOK, Finish

(* The types hold at the start. *)
LEMMA RowsTypeInit == RowsInit => RowsTypeOK
<1> SUFFICES ASSUME RowsInit PROVE RowsTypeOK
  OBVIOUS
<1>1. NoRow \in Row
  BY DEF NoRow, Row, TransitionState
<1>2. IdleInvocation \in [batch : SUBSET Callback, todo : SUBSET Callback]
  BY DEF IdleInvocation
<1> QED
  BY <1>1, <1>2, CallbackAssumptions DEF RowsInit, RowsTypeOK

(* Every request step keeps the types. *)
LEMMA BackendTypes ==
  ASSUME RowsTypeOK, BackendStep
  PROVE  RowsTypeOK'
<1>1. ASSUME NEW m \in Match, Create(m)
      PROVE  RowsTypeOK'
  <2>1. [matches[m] EXCEPT !.status = "pending"] \in Row
    BY DEF RowsTypeOK, Row, TransitionState, MatchStatus
  <2> QED
    BY <1>1, <2>1 DEF RowsTypeOK, Create, backendVars, updaterVars
<1>2. ASSUME NEW m \in Match, ExpireUrl(m)
      PROVE  RowsTypeOK'
  BY <1>2 DEF RowsTypeOK, ExpireUrl, updaterVars
<1>3. ASSUME NEW r \in Request, NEW m \in Match, NEW handler \in Endpoints,
             Guard(r, m, handler)
      PROVE  RowsTypeOK'
  <2> DEFINE seen == handler = "uploadUrl" /\ matches[m].status = "pending"
  <2>1. seen \in BOOLEAN
    BY DEF RowsTypeOK, Row, TransitionState
  <2>2. [at |-> handler, match |-> m, seen |-> seen] \in ActiveRequest
    BY <2>1, MatchRowsAssumptions DEF ActiveRequest
  <2> QED
    BY <1>3, <2>2 DEF RowsTypeOK, Guard, updaterVars
<1>4. ASSUME NEW r \in Request, CreateUploadUrl(r)
      PROVE  RowsTypeOK'
  <2>1. requests[r].match \in Match
    BY <1>4, RequestType DEF CreateUploadUrl
  <2> QED
    BY <1>4, <2>1, FinishType DEF RowsTypeOK, CreateUploadUrl, updaterVars
<1>5. ASSUME NEW r \in Request, ConfirmRead(r)
      PROVE  RowsTypeOK'
  <2>1. [requests[r] EXCEPT !.at = "confirmWrite"] \in ActiveRequest
    BY <1>5, RequestType DEF ConfirmRead, ActiveRequest
  <2>2. requests' \in [Request -> ActiveRequest \cup {IdleRequest}]
    BY <1>5, <2>1 DEF RowsTypeOK, ConfirmRead
  <2>3. UNCHANGED <<matches, uploadUrls, updaterVars, callbacks>>
    BY <1>5 DEF ConfirmRead
  <2> QED
    BY <2>2, <2>3 DEF RowsTypeOK, updaterVars
<1>6. ASSUME NEW r \in Request, ConfirmWrite(r)
      PROVE  RowsTypeOK'
  <2> DEFINE m == requests[r].match
  <2>1. m \in Match
    BY <1>6, RequestType DEF ConfirmWrite
  <2> HIDE DEF m
  <2>2. [matches[m] EXCEPT !.status = "uploaded", !.video_s3_key = TRUE] \in Row
    BY <2>1, ConfirmedType DEF RowsTypeOK
  <2>3. matches' \in [Match -> Row]
    BY <1>6, <2>1, <2>2 DEF RowsTypeOK, ConfirmWrite, m
  <2> QED
    BY <1>6, <2>3, FinishType DEF RowsTypeOK, ConfirmWrite, updaterVars
<1>7. ASSUME NEW r \in Request, RemoveRead(r)
      PROVE  RowsTypeOK'
  <2>1. [requests[r] EXCEPT !.at = "removeWrite"] \in ActiveRequest
    BY <1>7, RequestType DEF RemoveRead, ActiveRequest
  <2>2. requests' \in [Request -> ActiveRequest \cup {IdleRequest}]
    BY <1>7, <2>1 DEF RowsTypeOK, RemoveRead
  <2>3. UNCHANGED <<matches, uploadUrls, updaterVars, callbacks>>
    BY <1>7 DEF RemoveRead
  <2> QED
    BY <2>2, <2>3 DEF RowsTypeOK, updaterVars
<1>8. ASSUME NEW r \in Request, RemoveWrite(r)
      PROVE  RowsTypeOK'
  <2> DEFINE m == requests[r].match
  <2>1. m \in Match
    BY <1>8, RequestType DEF RemoveWrite
  <2> HIDE DEF m
  <2>2. [matches[m] EXCEPT !.deleted = TRUE] \in Row
    BY <2>1 DEF RowsTypeOK, Row
  <2>3. matches' \in [Match -> Row]
    BY <1>8, <2>1, <2>2 DEF RowsTypeOK, RemoveWrite, m
  <2> QED
    BY <1>8, <2>3, FinishType DEF RowsTypeOK, RemoveWrite, updaterVars
<1>9. ASSUME NEW r \in Request, RequestAborts(r)
      PROVE  RowsTypeOK'
  BY <1>9, FinishType DEF RowsTypeOK, RequestAborts, updaterVars
<1> QED
  BY <1>1, <1>2, <1>3, <1>4, <1>5, <1>6, <1>7, <1>8, <1>9
  DEF BackendStep, RequestStep

(* So does every step of the Lambda and its queue; a receive below the      *)
(* limit is what bounds the receive counts.                                 *)
LEMMA UpdaterTypes ==
  ASSUME RowsTypeOK, UpdaterStep
  PROVE  RowsTypeOK'
<1>1. ASSUME NEW i \in Invocation, ReceiveBatch(i)
      PROVE  RowsTypeOK'
  <2>1. PICK batch \in SUBSET {c \in callbacks : CallbackReceivable(c)} :
          /\ invocation' = [invocation EXCEPT ![i] = [batch |-> batch, todo |-> batch]]
          /\ receives' = [c \in Callback |->
               IF c \in batch THEN receives[c] + 1 ELSE receives[c]]
    BY <1>1 DEF ReceiveBatch
  <2>2. batch \in SUBSET Callback
    BY <2>1 DEF RowsTypeOK
  <2>3. \A c \in batch : receives[c] + 1 \in 0..MaxCallbackReceives
    BY <2>1, <2>2, CallbackAssumptions DEF RowsTypeOK, CallbackReceivable
  <2>4. receives' \in [Callback -> 0..MaxCallbackReceives]
    BY <2>1, <2>3 DEF RowsTypeOK
  <2> QED
    BY <1>1, <2>1, <2>2, <2>4 DEF RowsTypeOK, ReceiveBatch, backendVars
<1>2. ASSUME NEW i \in Invocation, UpdateStatus(i)
      PROVE  RowsTypeOK'
  <2>1. PICK c \in invocation[i].todo :
          /\ matches' = [matches EXCEPT ![c.job.match] = Updated(@, c)]
          /\ invocation' = [invocation EXCEPT ![i].todo = @ \ {c}]
    BY <1>2 DEF UpdateStatus
  <2>2. c \in Callback /\ c.job.match \in Match
    BY <2>1 DEF RowsTypeOK, Callback, Job
  <2>3. matches' \in [Match -> Row]
    BY <2>1, <2>2, UpdatedType DEF RowsTypeOK
  <2>4. invocation' \in [Invocation -> [batch : SUBSET Callback, todo : SUBSET Callback]]
    BY <2>1 DEF RowsTypeOK
  <2> QED
    BY <1>2, <2>3, <2>4 DEF RowsTypeOK, UpdateStatus, backendVars
<1>3. ASSUME NEW i \in Invocation, AckBatch(i)
      PROVE  RowsTypeOK'
  BY <1>3 DEF RowsTypeOK, AckBatch, IdleInvocation, backendVars
<1>4. ASSUME NEW i \in Invocation, InvocationFails(i)
      PROVE  RowsTypeOK'
  BY <1>4 DEF RowsTypeOK, InvocationFails, IdleInvocation, backendVars
<1>5. ASSUME NEW c \in Callback, RedriveCallback(c)
      PROVE  RowsTypeOK'
  BY <1>5 DEF RowsTypeOK, RedriveCallback, backendVars
<1> QED
  BY <1>1, <1>2, <1>3, <1>4, <1>5 DEF UpdaterStep, InvocationStep

(* And so does an arriving callback, or no step at all. *)
LEMMA RowsTypeStep ==
  ASSUME RowsTypeOK, [RowsNext]_rowsVars
  PROVE  RowsTypeOK'
<1>1. ASSUME NEW c \in Callback, CallbackArrives(c)
      PROVE  RowsTypeOK'
  BY <1>1 DEF RowsTypeOK, CallbackArrives, Send, backendVars, updaterVars
<1>2. ASSUME UNCHANGED rowsVars
      PROVE  RowsTypeOK'
  BY <1>2 DEF RowsTypeOK, rowsVars
<1> QED
  BY <1>1, <1>2, BackendTypes, UpdaterTypes DEF RowsNext, RowsStep

(* The variables of MatchRows keep their types, and no callback is ever     *)
(* received more often than maxReceiveCount.                                *)
THEOREM RowsTypeCorrect == RowsSafetySpec => []RowsTypeOK
<1>1. RowsInit => RowsTypeOK
  BY RowsTypeInit
<1>2. RowsTypeOK /\ [RowsNext]_rowsVars => RowsTypeOK'
  BY RowsTypeStep
<1> QED
  BY <1>1, <1>2, PTL DEF RowsSafetySpec
-----------------------------------------------------------------------------
(* The ways a row changes in one step; all that follows about rows rests on *)
(* this case distinction.                                                   *)
RowChange(m) ==
  \/ matches'[m] = matches[m]
  \/ /\ matches[m].status = "INIT"
     /\ matches'[m] = [matches[m] EXCEPT !.status = "pending"]
  \/ matches'[m] = [matches[m] EXCEPT !.status = "uploaded", !.video_s3_key = TRUE]
  \/ matches'[m] = [matches[m] EXCEPT !.deleted = TRUE]
  \/ \E i \in Invocation : \E c \in invocation[i].todo :
       c.job.match = m /\ matches'[m] = Updated(matches[m], c)

LEMMA RowChanges ==
  ASSUME RowsTypeOK, [RowsNext]_rowsVars, NEW m \in Match
  PROVE  RowChange(m)
<1>1. ASSUME NEW n \in Match, Create(n)
      PROVE  RowChange(m)
  <2>1. matches[n].status = "INIT"
    <3>1. matches[n].status \in TransitionState
      BY DEF RowsTypeOK, Row
    <3> QED
      BY <1>1, <3>1
      DEF Create, assertValidTransition, ALLOWED_TRANSITIONS, TransitionState, MatchStatus
  <2>2. matches' = [matches EXCEPT ![n].status = "pending"]
    BY <1>1 DEF Create
  <2> QED
    BY <2>1, <2>2 DEF RowChange, RowsTypeOK
<1>2. ASSUME NEW r \in Request, ConfirmWrite(r)
      PROVE  RowChange(m)
  BY <1>2 DEF ConfirmWrite, RowChange, RowsTypeOK
<1>3. ASSUME NEW r \in Request, RemoveWrite(r)
      PROVE  RowChange(m)
  BY <1>3 DEF RemoveWrite, RowChange, RowsTypeOK
<1>4. ASSUME NEW i \in Invocation, UpdateStatus(i)
      PROVE  RowChange(m)
  <2>1. PICK c \in invocation[i].todo :
          matches' = [matches EXCEPT ![c.job.match] = Updated(@, c)]
    BY <1>4 DEF UpdateStatus
  <2>2. CASE c.job.match = m
    BY <2>1, <2>2 DEF RowChange, RowsTypeOK
  <2>3. CASE c.job.match # m
    BY <2>1, <2>3 DEF RowChange, RowsTypeOK
  <2> QED
    BY <2>2, <2>3
<1>5. ASSUME matches' = matches
      PROVE  RowChange(m)
  BY <1>5 DEF RowChange
<1>6. \/ \E n \in Match : Create(n)
      \/ \E r \in Request : ConfirmWrite(r) \/ RemoveWrite(r)
      \/ \E i \in Invocation : UpdateStatus(i)
      \/ matches' = matches
  BY DEF RowsNext, RowsStep, BackendStep, RequestStep, UpdaterStep, InvocationStep,
         ExpireUrl, Guard, CreateUploadUrl, ConfirmRead, RemoveRead, RequestAborts,
         ReceiveBatch, AckBatch, InvocationFails, RedriveCallback, CallbackArrives,
         rowsVars
<1> QED
  BY <1>1, <1>2, <1>3, <1>4, <1>5, <1>6

(* Callbacks stay sent, and what was received stays received. *)
LEMMA ReceivedForGood ==
  ASSUME RowsTypeOK, [RowsNext]_rowsVars
  PROVE  /\ callbacks \subseteq callbacks'
         /\ \A c \in Callback : receives[c] > 0 => receives'[c] > 0
<1>1. ASSUME NEW i \in Invocation, ReceiveBatch(i)
      PROVE  /\ callbacks' = callbacks
             /\ \A c \in Callback : receives[c] > 0 => receives'[c] > 0
  BY <1>1, CallbackAssumptions DEF ReceiveBatch, RowsTypeOK
<1>2. \/ \E i \in Invocation : ReceiveBatch(i)
      \/ receives' = receives /\ callbacks \subseteq callbacks'
  BY DEF RowsNext, RowsStep, BackendStep, RequestStep, UpdaterStep, InvocationStep,
         Create, ExpireUrl, Guard, CreateUploadUrl, ConfirmRead, ConfirmWrite, RemoveRead,
         RemoveWrite, RequestAborts, UpdateStatus, AckBatch, InvocationFails,
         RedriveCallback, CallbackArrives, Send, rowsVars, updaterVars
<1> QED
  BY <1>1, <1>2

(* What an invocation still has to apply was sent, and received.            *)
BatchesReceived ==
  \A i \in Invocation : \A c \in invocation[i].todo :
    c \in callbacks /\ receives[c] > 0

LEMMA BatchesReceivedStep ==
  ASSUME RowsTypeOK, BatchesReceived, [RowsNext]_rowsVars
  PROVE  BatchesReceived'
<1> SUFFICES ASSUME NEW j \in Invocation, NEW c \in invocation'[j].todo
             PROVE  c \in callbacks' /\ receives'[c] > 0
  BY DEF BatchesReceived
<1>1. ASSUME NEW i \in Invocation, ReceiveBatch(i), c \notin invocation[j].todo
      PROVE  c \in callbacks' /\ receives'[c] > 0
  <2>1. PICK batch \in SUBSET {d \in callbacks : CallbackReceivable(d)} :
          /\ invocation' = [invocation EXCEPT ![i] = [batch |-> batch, todo |-> batch]]
          /\ receives' = [d \in Callback |->
               IF d \in batch THEN receives[d] + 1 ELSE receives[d]]
    BY <1>1 DEF ReceiveBatch
  <2>2. c \in batch
    BY <1>1, <2>1 DEF RowsTypeOK
  <2>3. c \in callbacks /\ c \in Callback
    BY <2>2 DEF RowsTypeOK
  <2> QED
    BY <1>1, <2>1, <2>2, <2>3, CallbackAssumptions DEF RowsTypeOK, ReceiveBatch
<1>2. ASSUME c \in invocation[j].todo
      PROVE  c \in callbacks' /\ receives'[c] > 0
  <2>1. c \in Callback /\ c \in callbacks /\ receives[c] > 0
    BY <1>2 DEF BatchesReceived, RowsTypeOK
  <2> QED
    BY <2>1, ReceivedForGood
<1>3. ASSUME NEW i \in Invocation, UpdateStatus(i)
      PROVE  c \in invocation[j].todo
  <2>1. PICK d \in invocation[i].todo :
          invocation' = [invocation EXCEPT ![i].todo = @ \ {d}]
    BY <1>3 DEF UpdateStatus
  <2> QED
    BY <2>1 DEF RowsTypeOK
<1>4. ASSUME NEW i \in Invocation, AckBatch(i) \/ InvocationFails(i)
      PROVE  c \in invocation[j].todo
  BY <1>4 DEF AckBatch, InvocationFails, IdleInvocation, RowsTypeOK
<1>5. \/ \E i \in Invocation : \/ ReceiveBatch(i) \/ UpdateStatus(i)
                                \/ AckBatch(i) \/ InvocationFails(i)
      \/ invocation' = invocation
  BY DEF RowsNext, RowsStep, BackendStep, RequestStep, UpdaterStep, InvocationStep,
         Create, ExpireUrl, Guard, CreateUploadUrl, ConfirmRead, ConfirmWrite, RemoveRead,
         RemoveWrite, RequestAborts, RedriveCallback, CallbackArrives, rowsVars,
         updaterVars
<1> QED
  BY <1>1, <1>2, <1>3, <1>4, <1>5
-----------------------------------------------------------------------------
(* Rows agree with themselves: inductive with the types, because every      *)
(* statement writes the columns its status calls for.                       *)
LEMMA RowConsistentStep ==
  ASSUME RowsTypeOK, RowConsistent, [RowsNext]_rowsVars
  PROVE  RowConsistent'
<1> SUFFICES ASSUME NEW m \in Match
             PROVE  LET row == matches'[m] IN
                    /\ row.video_s3_key <=> row.status \notin {"INIT", "pending"}
                    /\ row.status = "completed" => row.duration_sec
                    /\ row.status = "failed" => row.error_message
  BY DEF RowConsistent
<1>1. /\ matches[m] \in Row
      /\ matches[m].video_s3_key <=> matches[m].status \notin {"INIT", "pending"}
      /\ matches[m].status = "completed" => matches[m].duration_sec
      /\ matches[m].status = "failed" => matches[m].error_message
  BY DEF RowsTypeOK, RowConsistent
<1>2. CASE matches'[m] = matches[m]
  BY <1>1, <1>2
<1>3. CASE /\ matches[m].status = "INIT"
           /\ matches'[m] = [matches[m] EXCEPT !.status = "pending"]
  BY <1>1, <1>3 DEF Row
<1>4. CASE matches'[m] = [matches[m] EXCEPT !.status = "uploaded", !.video_s3_key = TRUE]
  BY <1>1, <1>4 DEF Row
<1>5. CASE matches'[m] = [matches[m] EXCEPT !.deleted = TRUE]
  BY <1>1, <1>5 DEF Row
<1>6. ASSUME NEW i \in Invocation, NEW c \in invocation[i].todo,
             matches'[m] = Updated(matches[m], c)
      PROVE  LET row == matches'[m] IN
             /\ row.video_s3_key <=> row.status \notin {"INIT", "pending"}
             /\ row.status = "completed" => row.duration_sec
             /\ row.status = "failed" => row.error_message
  <2>1. CASE is_valid_transition(matches[m].status, c.status)
    <3>1. \/ matches[m].status = "uploaded" /\ c.status = "processing"
          \/ matches[m].status = "processing" /\ c.status \in {"completed", "failed"}
      BY <2>1 DEF is_valid_transition, LAMBDA_TRANSITIONS
    <3>2. matches'[m] =
            [matches[m] EXCEPT !.status = c.status,
                               !.error_message = @ \/ c.status = "failed",
                               !.duration_sec = @ \/ c.status = "completed"]
      BY <1>6, <2>1 DEF Updated
    <3> QED
      BY <1>1, <3>1, <3>2 DEF Row
  <2>2. CASE ~is_valid_transition(matches[m].status, c.status)
    BY <1>1, <1>6, <2>2 DEF Updated
  <2> QED
    BY <2>1, <2>2
<1> QED
  BY <1>2, <1>3, <1>4, <1>5, <1>6, RowChanges DEF RowChange

(* A status past uploaded was reported: it is written only while its        *)
(* callback is in a batch, and callbacks are never unsent.                  *)
LEMMA StatusWasReportedStep ==
  ASSUME RowsTypeOK, BatchesReceived, StatusWasReported, [RowsNext]_rowsVars
  PROVE  StatusWasReported'
<1> DEFINE Reported(m, s) ==
      \E c \in callbacks : c.job.match = m /\ c.status = s /\ receives[c] > 0
<1> SUFFICES ASSUME NEW m \in Match, matches'[m].status \in CallbackStatus
             PROVE  \E c \in callbacks' :
                      /\ c.job.match = m /\ c.status = matches'[m].status
                      /\ receives'[c] > 0
  BY DEF StatusWasReported
<1>1. matches[m] \in Row
  BY DEF RowsTypeOK
<1>2. Reported(m, matches'[m].status)
  <2>1. CASE matches'[m].status = matches[m].status
    BY <2>1 DEF StatusWasReported
  <2>2. ASSUME NEW i \in Invocation, NEW c \in invocation[i].todo,
               c.job.match = m, matches'[m] = Updated(matches[m], c),
               matches'[m].status # matches[m].status
        PROVE  Reported(m, matches'[m].status)
    <3>1. c \in callbacks /\ receives[c] > 0
      BY DEF BatchesReceived
    <3>2. matches'[m].status = c.status
      BY <1>1, <2>2 DEF Updated, Row
    <3> QED
      BY <2>2, <3>1, <3>2
  <2>3. \/ matches'[m].status = matches[m].status
        \/ matches'[m].status \in {"pending", "uploaded"}
        \/ \E i \in Invocation : \E c \in invocation[i].todo :
             c.job.match = m /\ matches'[m] = Updated(matches[m], c)
    BY <1>1, RowChanges DEF RowChange, Row
  <2> QED
    BY <2>1, <2>2, <2>3 DEF CallbackStatus
<1>3. callbacks \subseteq Callback
  BY DEF RowsTypeOK
<1> QED
  BY <1>2, <1>3, ReceivedForGood
-----------------------------------------------------------------------------
(* The inductive invariant. *)
RowsInv == RowsTypeOK /\ BatchesReceived /\ RowConsistent /\ StatusWasReported

(* It holds at the start... *)
LEMMA RowsInvInit == RowsInit => RowsInv
<1> SUFFICES ASSUME RowsInit PROVE BatchesReceived /\ RowConsistent /\ StatusWasReported
  BY RowsTypeInit DEF RowsInv
<1>1. BatchesReceived
  BY DEF RowsInit, BatchesReceived, IdleInvocation
<1>2. RowConsistent /\ StatusWasReported
  BY DEF RowsInit, RowConsistent, StatusWasReported, NoRow, CallbackStatus
<1> QED
  BY <1>1, <1>2

(* ...and in every reachable state. *)
THEOREM RowsInvariant == RowsSafetySpec => []RowsInv
<1>1. RowsInit => RowsInv
  BY RowsInvInit
<1>2. RowsInv /\ [RowsNext]_rowsVars => RowsInv'
  BY RowsTypeStep, BatchesReceivedStep, RowConsistentStep, StatusWasReportedStep
  DEF RowsInv
<1> QED
  BY <1>1, <1>2, PTL DEF RowsSafetySpec

(* The columns of a row agree with its status in every run: also with       *)
(* overlapping confirms, any batching and any redelivery.                   *)
THEOREM RowsAreConsistent == RowsSafetySpec => []RowConsistent
<1>1. RowsInv => RowConsistent
  BY DEF RowsInv
<1> QED
  BY <1>1, RowsInvariant, PTL

(* The Lambda never makes a status up: what a row shows was reported by a   *)
(* callback that an invocation received.                                    *)
THEOREM StatusesAreReported == RowsSafetySpec => []StatusWasReported
<1>1. RowsInv => StatusWasReported
  BY DEF RowsInv
<1> QED
  BY <1>1, RowsInvariant, PTL

(* No step of backend or Lambda takes deleted_at back.                      *)
THEOREM DeletedForGood == RowsSafetySpec => SoftDeleteSticks
<1>1. RowsTypeOK /\ [RowsNext]_rowsVars =>
        [\A m \in Match : matches[m].deleted => matches'[m].deleted]_matches
  <2> SUFFICES ASSUME RowsTypeOK, [RowsNext]_rowsVars, NEW m \in Match,
                      matches[m].deleted
               PROVE  matches'[m].deleted
    OBVIOUS
  <2>1. matches[m] \in Row
    BY DEF RowsTypeOK
  <2> QED
    BY <2>1, RowChanges DEF RowChange, Updated, Row
<1> QED
  BY <1>1, RowsTypeCorrect, PTL DEF RowsSafetySpec, SoftDeleteSticks
-----------------------------------------------------------------------------
(* The refinement.  What the two statements of a confirm rely on: the match  *)
(* has a row, no other confirm of it is in progress, and the row is still    *)
(* pending when the update comes.                                            *)
Confirming == {"confirm", "confirmWrite"}

ConfirmsAlone ==
  \A q, r \in Request :
    /\ requests[q].at \in Confirming /\ requests[r].at \in Confirming
    /\ requests[q].match = requests[r].match
    => q = r

RequestsTimely ==
  \A r \in Request : requests[r].at # "idle" =>
    /\ matches[requests[r].match].status # "INIT"
    /\ requests[r].at = "confirmWrite" =>
         matches[requests[r].match].status = "pending"

LifecycleInv == RowsTypeOK /\ ConfirmsAlone /\ RequestsTimely

(* Which requests a step leaves in progress, and what they remember.         *)
RequestKept(r) ==
  /\ requests[r].at # "idle"
  /\ requests'[r].match = requests[r].match
  /\ requests'[r].at \in Confirming => requests[r].at \in Confirming
  /\ requests'[r].at = "confirmWrite" =>
       requests[r].at = "confirmWrite" \/ matches[requests[r].match].status = "pending"

RequestNew(r) ==
  /\ Visible(requests'[r].match)
  /\ requests'[r].match \in Match
  /\ requests'[r].at \in Handler
  /\ requests'[r].at = "confirm" =>
       \A q \in Request :
         requests[q].match = requests'[r].match => requests[q].at \notin Confirming
  /\ \A q \in Request : q # r => requests'[q] = requests[q]

LEMMA PendingOnly ==
  ASSUME NEW s \in TransitionState, assertValidTransition(s, "uploaded")
  PROVE  s = "pending"
BY DEF assertValidTransition, ALLOWED_TRANSITIONS, TransitionState, MatchStatus

LEMMA RequestChanges ==
  ASSUME RowsTypeOK, "overlap" \notin Faults, [RowsNext]_rowsVars,
         NEW r \in Request, requests'[r].at # "idle"
  PROVE  RequestKept(r) \/ (RequestNew(r) /\ matches' = matches)
<1>1. ASSUME NEW q \in Request, Finish(q)
      PROVE  RequestKept(r)
  BY <1>1 DEF Finish, RequestKept, RowsTypeOK, IdleRequest
<1>2. CASE requests' = requests
  BY <1>2 DEF RequestKept
<1>3. ASSUME NEW q \in Request, NEW m \in Match, NEW handler \in Endpoints,
             Guard(q, m, handler)
      PROVE  RequestKept(r) \/ (RequestNew(r) /\ matches' = matches)
  <2>1. CASE q = r
    <3>1. requests'[r].at = handler /\ requests'[r].match = m /\ matches' = matches
      BY <1>3, <2>1 DEF Guard, RowsTypeOK
    <3>2. handler \in Handler
      BY MatchRowsAssumptions
    <3>3. \A p \in Request : p # r => requests'[p] = requests[p]
      BY <1>3, <2>1 DEF Guard, RowsTypeOK
    <3> QED
      BY <1>3, <2>1, <3>1, <3>2, <3>3 DEF Guard, RequestNew, Confirming
  <2>2. CASE q # r
    BY <1>3, <2>2 DEF Guard, RequestKept, RowsTypeOK
  <2> QED
    BY <2>1, <2>2
<1>4. ASSUME NEW q \in Request, ConfirmRead(q)
      PROVE  RequestKept(r)
  <2> DEFINE m == requests[q].match
  <2>1. requests[q] \in ActiveRequest /\ m \in Match
    BY <1>4, RequestType DEF ConfirmRead
  <2>2. matches[m].status \in TransitionState
    BY <2>1 DEF RowsTypeOK, Row
  <2>3. CASE q = r
    <3>1. /\ matches[m].status = "pending"
          /\ requests'[r] = [requests[r] EXCEPT !.at = "confirmWrite"]
      BY <1>4, <2>2, <2>3, PendingOnly DEF ConfirmRead, RowsTypeOK, IdleRequest
    <3> QED
      BY <1>4, <2>1, <2>3, <3>1 DEF ConfirmRead, RequestKept, ActiveRequest, Confirming
  <2>4. CASE q # r
    BY <1>4, <2>4 DEF ConfirmRead, RequestKept, RowsTypeOK
  <2> QED
    BY <2>3, <2>4
<1>5. ASSUME NEW q \in Request, RemoveRead(q)
      PROVE  RequestKept(r)
  <2>1. requests[q] \in ActiveRequest
    BY <1>5, RequestType DEF RemoveRead
  <2>2. CASE q = r
    <3>1. requests'[r] = [requests[r] EXCEPT !.at = "removeWrite"]
      BY <1>5, <2>2 DEF RemoveRead, RowsTypeOK, IdleRequest
    <3> QED
      BY <1>5, <2>1, <2>2, <3>1 DEF RemoveRead, RequestKept, ActiveRequest, Confirming
  <2>3. CASE q # r
    BY <1>5, <2>3 DEF RemoveRead, RequestKept, RowsTypeOK
  <2> QED
    BY <2>2, <2>3
<1>6. \/ requests' = requests
      \/ \E q \in Request : Finish(q) \/ ConfirmRead(q) \/ RemoveRead(q)
      \/ \E q \in Request, m \in Match, handler \in Endpoints : Guard(q, m, handler)
  BY DEF RowsNext, RowsStep, BackendStep, RequestStep, UpdaterStep, InvocationStep,
         Create, ExpireUrl, CreateUploadUrl, ConfirmWrite, RemoveWrite, RequestAborts,
         ReceiveBatch, UpdateStatus, AckBatch, InvocationFails, RedriveCallback,
         CallbackArrives, rowsVars, backendVars
<1> QED
  BY <1>1, <1>2, <1>3, <1>4, <1>5, <1>6

(* A row never goes back to none, and stays pending unless a confirm ends.   *)
LEMMA RowStays ==
  ASSUME LifecycleInv, [RowsNext]_rowsVars, NEW m \in Match,
         matches[m].status # "INIT"
  PROVE  /\ matches'[m].status # "INIT"
         /\ \/ matches[m].status = "pending" => matches'[m].status = "pending"
            \/ \E r \in Request : /\ requests[r].at = "confirmWrite"
                                 /\ requests[r].match = m
                                 /\ Finish(r)
<1>0. matches[m] \in Row
  BY DEF LifecycleInv, RowsTypeOK
<1>1. ASSUME NEW r \in Request, ConfirmWrite(r)
      PROVE  /\ matches'[m].status # "INIT"
             /\ \/ matches[m].status = "pending" => matches'[m].status = "pending"
                \/ requests[r].at = "confirmWrite" /\ requests[r].match = m /\ Finish(r)
  BY <1>0, <1>1 DEF ConfirmWrite, LifecycleInv, RowsTypeOK, Row
<1>2. ASSUME NEW r \in Request, RemoveWrite(r)
      PROVE  matches'[m].status = matches[m].status
  BY <1>0, <1>2 DEF RemoveWrite, LifecycleInv, RowsTypeOK, Row
<1>3. ASSUME NEW n \in Match, Create(n)
      PROVE  matches'[m].status = matches[m].status
  <2>1. matches[n].status \in TransitionState
    BY DEF LifecycleInv, RowsTypeOK, Row
  <2>2. n # m
    BY <1>3, <2>1
    DEF Create, assertValidTransition, ALLOWED_TRANSITIONS, TransitionState, MatchStatus
  <2> QED
    BY <1>0, <1>3, <2>2 DEF Create, LifecycleInv, RowsTypeOK
<1>4. ASSUME NEW i \in Invocation, UpdateStatus(i)
      PROVE  /\ matches'[m].status # "INIT"
             /\ matches[m].status = "pending" => matches'[m].status = "pending"
  <2>1. PICK c \in invocation[i].todo :
          matches' = [matches EXCEPT ![c.job.match] = Updated(@, c)]
    BY <1>4 DEF UpdateStatus
  <2>2. matches'[m] = matches[m] \/ matches'[m] = Updated(matches[m], c)
    BY <2>1 DEF LifecycleInv, RowsTypeOK
  <2>3. CASE is_valid_transition(matches[m].status, c.status)
    <3>1. /\ matches[m].status \in {"uploaded", "processing"}
          /\ c.status \in {"processing", "completed", "failed"}
      BY <2>3 DEF is_valid_transition, LAMBDA_TRANSITIONS
    <3> QED
      BY <1>0, <2>2, <2>3, <3>1 DEF Updated, Row
  <2> QED
    BY <2>2, <2>3 DEF Updated
<1>5. \/ matches' = matches
      \/ \E n \in Match : Create(n)
      \/ \E r \in Request : ConfirmWrite(r) \/ RemoveWrite(r)
      \/ \E i \in Invocation : UpdateStatus(i)
  BY DEF RowsNext, RowsStep, BackendStep, RequestStep, UpdaterStep, InvocationStep,
         ExpireUrl, Guard, CreateUploadUrl, ConfirmRead, RemoveRead, RequestAborts,
         ReceiveBatch, AckBatch, InvocationFails, RedriveCallback, CallbackArrives,
         rowsVars
<1> QED
  BY <1>1, <1>2, <1>3, <1>4, <1>5

LEMMA LifecycleInvStep ==
  ASSUME LifecycleInv, "overlap" \notin Faults, [RowsNext]_rowsVars
  PROVE  LifecycleInv'
<1>1. RowsTypeOK'
  BY RowsTypeStep DEF LifecycleInv
<1>2. ConfirmsAlone'
  <2> SUFFICES ASSUME NEW q \in Request, NEW r \in Request, q # r,
                      requests'[q].at \in Confirming, requests'[r].at \in Confirming,
                      requests'[q].match = requests'[r].match
               PROVE  FALSE
    BY DEF ConfirmsAlone
  <2>1. /\ RequestKept(q) \/ RequestNew(q)
        /\ RequestKept(r) \/ RequestNew(r)
    BY RequestChanges DEF LifecycleInv, Confirming
  <2>2. CASE RequestKept(q) /\ RequestKept(r)
    BY <2>2 DEF RequestKept, LifecycleInv, ConfirmsAlone
  <2>3. CASE RequestNew(q)
    BY <2>3 DEF RequestNew, Confirming, Handler
  <2>4. CASE RequestNew(r)
    BY <2>4 DEF RequestNew, Confirming, Handler
  <2> QED
    BY <2>1, <2>2, <2>3, <2>4
<1>3. RequestsTimely'
  <2> SUFFICES ASSUME NEW r \in Request, requests'[r].at # "idle"
               PROVE  /\ matches'[requests'[r].match].status # "INIT"
                      /\ requests'[r].at = "confirmWrite" =>
                           matches'[requests'[r].match].status = "pending"
    BY DEF RequestsTimely
  <2> DEFINE m == requests[r].match
  <2>1. CASE RequestNew(r) /\ matches' = matches
    BY <2>1 DEF RequestNew, Visible, Exists, Handler
  <2>2. CASE RequestKept(r)
    <3>1. m \in Match /\ requests'[r].match = m /\ matches[m].status # "INIT"
      BY <2>2, RequestType DEF RequestKept, LifecycleInv, RequestsTimely
    <3>2. matches'[m].status # "INIT"
      BY <3>1, RowStays
    <3>3. ASSUME requests'[r].at = "confirmWrite"
          PROVE  matches'[m].status = "pending"
      <4>1. matches[m].status = "pending" /\ requests[r].at \in Confirming
        BY <2>2, <3>3 DEF RequestKept, LifecycleInv, RequestsTimely, Confirming
      <4>2. ASSUME NEW q \in Request, requests[q].at = "confirmWrite",
                   requests[q].match = m, Finish(q)
            PROVE  FALSE
        <5>1. q = r
          BY <4>1, <4>2 DEF LifecycleInv, ConfirmsAlone, Confirming
        <5> QED
          BY <3>3, <4>2, <5>1 DEF Finish, LifecycleInv, RowsTypeOK, IdleRequest
      <4> QED
        BY <3>1, <4>1, <4>2, RowStays
    <3> QED
      BY <3>1, <3>2, <3>3
  <2> QED
    BY <2>1, <2>2, RequestChanges DEF LifecycleInv
<1> QED
  BY <1>1, <1>2, <1>3 DEF LifecycleInv

(* What an update of the Lambda is in the life of the row.                   *)
LEMMA UpdateIsLifecycleStep ==
  ASSUME LifecycleInv, NEW i \in Invocation, UpdateStatus(i)
  PROVE  Lifecycle!Next \/ matches' = matches
<1>1. PICK c \in invocation[i].todo :
        matches' = [matches EXCEPT ![c.job.match] = Updated(@, c)]
  BY DEF UpdateStatus
<1> DEFINE m == c.job.match
           row == matches[m]
<1>2. m \in Match /\ row \in Row /\ c \in Callback
  BY <1>1 DEF LifecycleInv, RowsTypeOK, Callback, Job
<1>3. CASE ~is_valid_transition(row.status, c.status)
  BY <1>1, <1>2, <1>3 DEF Updated, LifecycleInv, RowsTypeOK
<1>4. CASE is_valid_transition(row.status, c.status)
  <2>1. \/ row.status = "uploaded" /\ c.status = "processing"
        \/ row.status = "processing" /\ c.status = "completed"
        \/ row.status = "processing" /\ c.status = "failed"
    BY <1>4 DEF is_valid_transition, LAMBDA_TRANSITIONS
  <2>2. matches' = [matches EXCEPT ![m] =
          [row EXCEPT !.status = c.status,
                      !.error_message = @ \/ c.status = "failed",
                      !.duration_sec = @ \/ c.status = "completed"]]
    BY <1>1, <1>4 DEF Updated
  <2>3. CASE row.status = "uploaded" /\ c.status = "processing"
    <3>1. matches' = [matches EXCEPT ![m] = [row EXCEPT !.status = "processing"]]
      BY <1>2, <2>2, <2>3 DEF Row
    <3> QED
      BY <1>2, <2>3, <3>1 DEF Lifecycle!Next, Lifecycle!StartProcessing, Lifecycle!Move,
        Lifecycle!assertValidTransition, Lifecycle!ALLOWED_TRANSITIONS
  <2>4. CASE row.status = "processing" /\ c.status = "completed"
    <3>1. matches' = [matches EXCEPT ![m] =
            [[row EXCEPT !.duration_sec = TRUE] EXCEPT !.status = "completed"]]
      BY <1>2, <2>2, <2>4 DEF Row
    <3> QED
      BY <1>2, <2>4, <3>1 DEF Lifecycle!Next, Lifecycle!Complete, Lifecycle!Move,
        Lifecycle!assertValidTransition, Lifecycle!ALLOWED_TRANSITIONS
  <2>5. CASE row.status = "processing" /\ c.status = "failed"
    <3>1. matches' = [matches EXCEPT ![m] =
            [[row EXCEPT !.error_message = TRUE] EXCEPT !.status = "failed"]]
      BY <1>2, <2>2, <2>5 DEF Row
    <3> QED
      BY <1>2, <2>5, <3>1 DEF Lifecycle!Next, Lifecycle!Fail, Lifecycle!Move,
        Lifecycle!assertValidTransition, Lifecycle!ALLOWED_TRANSITIONS
  <2> QED
    BY <2>1, <2>3, <2>4, <2>5
<1> QED
  BY <1>3, <1>4

LEMMA RowsStepIsLifecycleStep ==
  ASSUME LifecycleInv, [RowsNext]_rowsVars
  PROVE  [Lifecycle!Next]_matches
<1>1. ASSUME NEW m \in Match, Create(m)
      PROVE  Lifecycle!Next
  <2>1. matches[m].status = "INIT"
    <3>1. matches[m].status \in TransitionState
      BY DEF LifecycleInv, RowsTypeOK, Row
    <3> QED
      BY <1>1, <3>1
      DEF Create, assertValidTransition, ALLOWED_TRANSITIONS, TransitionState, MatchStatus
  <2>2. matches' = [matches EXCEPT ![m] = [matches[m] EXCEPT !.status = "pending"]]
    BY <1>1 DEF Create
  <2> QED
    BY <2>1, <2>2 DEF Lifecycle!Next, Lifecycle!Create, Lifecycle!Move,
      Lifecycle!assertValidTransition, Lifecycle!ALLOWED_TRANSITIONS
<1>2. ASSUME NEW r \in Request, ConfirmWrite(r)
      PROVE  Lifecycle!Next
  <2> DEFINE m == requests[r].match
  <2>1. m \in Match /\ matches[m].status = "pending"
    BY <1>2, RequestType DEF ConfirmWrite, LifecycleInv, RequestsTimely
  <2>2. matches' = [matches EXCEPT ![m] =
          [[matches[m] EXCEPT !.video_s3_key = TRUE] EXCEPT !.status = "uploaded"]]
    BY <1>2, <2>1 DEF ConfirmWrite, LifecycleInv, RowsTypeOK, Row
  <2> QED
    BY <2>1, <2>2 DEF Lifecycle!Next, Lifecycle!ConfirmUpload, Lifecycle!Move,
      Lifecycle!assertValidTransition, Lifecycle!ALLOWED_TRANSITIONS
<1>3. ASSUME NEW r \in Request, RemoveWrite(r)
      PROVE  Lifecycle!Next
  <2> DEFINE m == requests[r].match
  <2>1. m \in Match /\ matches[m].status # "INIT"
    BY <1>3, RequestType DEF RemoveWrite, LifecycleInv, RequestsTimely
  <2> QED
    BY <1>3, <2>1 DEF RemoveWrite, Lifecycle!Next, Lifecycle!Remove
<1>4. \/ matches' = matches
      \/ \E m \in Match : Create(m)
      \/ \E r \in Request : ConfirmWrite(r) \/ RemoveWrite(r)
      \/ \E i \in Invocation : UpdateStatus(i)
  BY DEF RowsNext, RowsStep, BackendStep, RequestStep, UpdaterStep, InvocationStep,
         ExpireUrl, Guard, CreateUploadUrl, ConfirmRead, RemoveRead, RequestAborts,
         ReceiveBatch, AckBatch, InvocationFails, RedriveCallback, CallbackArrives,
         rowsVars
<1> QED
  BY <1>1, <1>2, <1>3, <1>4, UpdateIsLifecycleStep

(* As long as clients do not overlap the confirms of a match, requests and   *)
(* invocations of backend and Lambda, however they interleave, fail and are  *)
(* redelivered, implement the atomic life of a row that the documentation of *)
(* the schema promises.                                                      *)
THEOREM RowsImplementLifecycle ==
  ASSUME "overlap" \notin Faults
  PROVE  RowsSafetySpec => ImplementsMatchLifecycle
<1>1. RowsInit => LifecycleInv /\ Lifecycle!Init
  <2> SUFFICES ASSUME RowsInit
               PROVE  ConfirmsAlone /\ RequestsTimely /\ Lifecycle!Init
    BY RowsTypeInit DEF LifecycleInv
  <2>1. ConfirmsAlone /\ RequestsTimely
    BY DEF RowsInit, ConfirmsAlone, RequestsTimely, IdleRequest, Confirming
  <2> QED
    BY <2>1 DEF RowsInit, Lifecycle!Init, Lifecycle!NoRow, NoRow
<1>2. LifecycleInv /\ [RowsNext]_rowsVars => LifecycleInv'
  BY LifecycleInvStep
<1>3. LifecycleInv /\ [RowsNext]_rowsVars => [Lifecycle!Next]_matches
  BY RowsStepIsLifecycleStep
<1> QED
  BY <1>1, <1>2, <1>3, PTL
  DEF RowsSafetySpec, ImplementsMatchLifecycle, Lifecycle!Spec
-----------------------------------------------------------------------------
(* What follows for statuses when confirms do not overlap.                   *)

LEMMA LambdaTableAgrees ==
  ASSUME NEW s, NEW t, is_valid_transition(s, t)
  PROVE  assertValidTransition(s, t)
BY DEF is_valid_transition, LAMBDA_TRANSITIONS, assertValidTransition, ALLOWED_TRANSITIONS

LEMMA StatusSteps ==
  ASSUME LifecycleInv, [RowsNext]_rowsVars, NEW m \in Match
  PROVE  \/ matches[m].status = matches'[m].status
         \/ assertValidTransition(matches[m].status, matches'[m].status)
<1>0. matches[m] \in Row
  BY DEF LifecycleInv, RowsTypeOK
<1>1. ASSUME NEW n \in Match, Create(n)
      PROVE  \/ matches[m].status = matches'[m].status
             \/ assertValidTransition(matches[m].status, matches'[m].status)
  <2>1. matches'[m].status = IF n = m THEN "pending" ELSE matches[m].status
    BY <1>0, <1>1 DEF Create, LifecycleInv, RowsTypeOK, Row
  <2> QED
    BY <1>1, <2>1 DEF Create
<1>2. ASSUME NEW r \in Request, ConfirmWrite(r)
      PROVE  \/ matches[m].status = matches'[m].status
             \/ assertValidTransition(matches[m].status, matches'[m].status)
  <2>1. matches'[m].status =
          IF requests[r].match = m THEN "uploaded" ELSE matches[m].status
    BY <1>0, <1>2 DEF ConfirmWrite, LifecycleInv, RowsTypeOK, Row
  <2>2. requests[r].match = m => matches[m].status = "pending"
    BY <1>2 DEF ConfirmWrite, LifecycleInv, RequestsTimely
  <2>3. assertValidTransition("pending", "uploaded")
    BY DEF assertValidTransition, ALLOWED_TRANSITIONS
  <2> QED
    BY <2>1, <2>2, <2>3
<1>3. ASSUME NEW r \in Request, RemoveWrite(r)
      PROVE  matches[m].status = matches'[m].status
  BY <1>0, <1>3 DEF RemoveWrite, LifecycleInv, RowsTypeOK, Row
<1>4. ASSUME NEW i \in Invocation, UpdateStatus(i)
      PROVE  \/ matches[m].status = matches'[m].status
             \/ assertValidTransition(matches[m].status, matches'[m].status)
  <2>1. PICK c \in invocation[i].todo :
          matches' = [matches EXCEPT ![c.job.match] = Updated(@, c)]
    BY <1>4 DEF UpdateStatus
  <2>2. matches'[m] = matches[m] \/ matches'[m] = Updated(matches[m], c)
    BY <2>1 DEF LifecycleInv, RowsTypeOK
  <2>3. CASE is_valid_transition(matches[m].status, c.status)
    <3>1. Updated(matches[m], c).status = c.status
      BY <1>0, <2>3 DEF Updated, Row
    <3> QED
      BY <2>2, <2>3, <3>1, LambdaTableAgrees
  <2>4. CASE ~is_valid_transition(matches[m].status, c.status)
    BY <2>2, <2>4 DEF Updated
  <2> QED
    BY <2>3, <2>4
<1>5. \/ matches' = matches
      \/ \E n \in Match : Create(n)
      \/ \E r \in Request : ConfirmWrite(r) \/ RemoveWrite(r)
      \/ \E i \in Invocation : UpdateStatus(i)
  BY DEF RowsNext, RowsStep, BackendStep, RequestStep, UpdaterStep, InvocationStep,
         ExpireUrl, Guard, CreateUploadUrl, ConfirmRead, RemoveRead, RequestAborts,
         ReceiveBatch, AckBatch, InvocationFails, RedriveCallback, CallbackArrives,
         rowsVars
<1> QED
  BY <1>1, <1>2, <1>3, <1>4, <1>5

LEMMA AlwaysLifecycleInv ==
  ASSUME "overlap" \notin Faults
  PROVE  RowsSafetySpec => []LifecycleInv
<1>1. RowsInit => LifecycleInv
  BY RowsTypeInit
  DEF LifecycleInv, RowsInit, ConfirmsAlone, RequestsTimely, IdleRequest, Confirming
<1>2. LifecycleInv /\ [RowsNext]_rowsVars => LifecycleInv'
  BY LifecycleInvStep
<1> QED
  BY <1>1, <1>2, PTL DEF RowsSafetySpec

(* The run RowsStaleConfirm needs two confirms of one match in progress:     *)
(* without them, nothing that requests, aborts, redeliveries and reordering  *)
(* do makes a status change that the table does not allow.                   *)
THEOREM OverlapIsTheOnlyWay ==
  ASSUME "overlap" \notin Faults
  PROVE  RowsSafetySpec => StatusFollowsTransitions
<1>1. LifecycleInv /\ [RowsNext]_rowsVars =>
        [\A m \in Match :
           matches[m].status = matches'[m].status
             \/ assertValidTransition(matches[m].status, matches'[m].status)]_matches
  BY StatusSteps
<1>2. RowsSafetySpec => []LifecycleInv
  BY AlwaysLifecycleInv
<1> QED
  BY <1>1, <1>2, PTL DEF RowsSafetySpec, StatusFollowsTransitions

(* How far a match has come. *)
Progress ==
  [INIT |-> 0, pending |-> 1, uploaded |-> 2, processing |-> 3,
   completed |-> 4, failed |-> 4]

Beyond(m, c) == Progress[matches[m].status] >= Progress[c.status]

LEMMA TransitionsProgress ==
  ASSUME NEW s \in TransitionState, NEW t \in TransitionState, assertValidTransition(s, t)
  PROVE  Progress[s] < Progress[t] /\ Progress[s] \in Nat /\ Progress[t] \in Nat
<1>1. \/ s = "INIT" /\ t = "pending"
      \/ s = "pending" /\ t = "uploaded"
      \/ s = "uploaded" /\ t = "processing"
      \/ s = "processing" /\ t \in {"completed", "failed"}
  BY DEF assertValidTransition, ALLOWED_TRANSITIONS, TransitionState, MatchStatus
<1> QED
  BY <1>1 DEF Progress

LEMMA ProgressType ==
  ASSUME NEW s \in TransitionState
  PROVE  Progress[s] \in Nat
BY DEF Progress, TransitionState, MatchStatus

(* The Lambda runs a whole batch again when one record of it raised, and    *)
(* the queue delivers late and more than once.  From the moment a match is   *)
(* as far as a callback says, for instance because it was applied, that      *)
(* callback never changes the row again: not when it is redelivered, and     *)
(* not when the other final status overtook it.                              *)
THEOREM RedeliveriesAreHarmless ==
  ASSUME "overlap" \notin Faults, NEW m \in Match, NEW c \in Callback
  PROVE  RowsSafetySpec => [](Beyond(m, c) => [](Updated(matches[m], c) = matches[m]))
<1>0. c.status \in TransitionState
  BY DEF Callback, CallbackStatus, TransitionState, MatchStatus
<1>1. ASSUME LifecycleInv, Beyond(m, c)
      PROVE  Updated(matches[m], c) = matches[m]
  <2>1. matches[m].status \in TransitionState
    BY <1>1 DEF LifecycleInv, RowsTypeOK, Row
  <2>2. ~assertValidTransition(matches[m].status, c.status)
    <3>1. ASSUME assertValidTransition(matches[m].status, c.status)
          PROVE  FALSE
      <4>1. /\ Progress[matches[m].status] < Progress[c.status]
            /\ Progress[matches[m].status] \in Nat /\ Progress[c.status] \in Nat
        BY <1>0, <2>1, <3>1, TransitionsProgress
      <4> QED
        BY <1>1, <4>1 DEF Beyond
    <3> QED
      BY <3>1
  <2>3. ~is_valid_transition(matches[m].status, c.status)
    BY <2>2, LambdaTableAgrees
  <2> QED
    BY <2>3 DEF Updated
<1>2. ASSUME LifecycleInv, LifecycleInv', [RowsNext]_rowsVars, Beyond(m, c)
      PROVE  Beyond(m, c)'
  <2>1. matches[m].status \in TransitionState /\ matches'[m].status \in TransitionState
    BY <1>2 DEF LifecycleInv, RowsTypeOK, Row
  <2>2. \/ matches[m].status = matches'[m].status
        \/ assertValidTransition(matches[m].status, matches'[m].status)
    BY <1>2, StatusSteps
  <2>3. Progress[matches[m].status] <= Progress[matches'[m].status]
    BY <2>1, <2>2, TransitionsProgress, ProgressType
  <2>4. /\ Progress[matches[m].status] \in Nat /\ Progress[matches'[m].status] \in Nat
        /\ Progress[c.status] \in Nat
    BY <1>0, <2>1, ProgressType
  <2> QED
    BY <1>2, <2>3, <2>4 DEF Beyond
<1> QED
  BY <1>1, <1>2, AlwaysLifecycleInv, PTL DEF RowsSafetySpec
=============================================================================

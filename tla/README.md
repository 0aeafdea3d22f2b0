# MatchLens in TLA+

MatchLens turns the video of a football match into highlight clips. A NestJS
backend keeps the matches in PostgreSQL and hands out presigned upload URLs; S3,
two SQS queues, three Lambdas and GPU workers do the rest. This directory holds
TLA+ models of the parts whose correctness depends on concurrency, retries and
ordering, the TLC instances that check them, and TLAPS proofs about them.

Paths are relative to the repository (`src/` is its root).

## 1. Inventory

| Component | State | Operations | Modelled in |
|---|---|---|---|
| Backend, matches (`src/backend/src/matches`) | table `matches` | create, upload-url, confirm-upload, remove; list and status only read | `MatchRows` |
| `MatchOwnershipGuard` | row left in the request | canActivate | `MatchRows!Guard` |
| `job_dispatcher` Lambda | none | S3 event -> job + `processing` callback | `VideoJobs` |
| `video-processing-jobs` queue and DLQ | messages, receive counts | send, receive, delete, visibility timeout, redrive | `VideoJobs` |
| Worker (`src/worker/src/main.py`) | attempt in progress | one message at a time: marker check, callback, download, analysis, writes, marker, callback, delete | `VideoJobs` |
| DynamoDB `match-events`, S3 tracking data and raw clips | items and objects | overwriting puts, one conditional put (the marker) | `VideoJobs` (`written`, `marker`) |
| `match-status-callbacks` queue and DLQ | messages | batches of up to 10, redelivery, redrive | `StatusCallbacks`, `MatchRows` |
| `status_updater` Lambda | none; writes `matches` | one `FOR UPDATE` transaction per record | `MatchRows` |
| `EventAnalyzer` | loop state | scores, classification, cooldown, merging | `EventAnalyzer` |
| `VideoDetector`, homography | none kept | decoding, tracking, cutting of clips | only its results |
| `mediaconvert_trigger` Lambda and its bucket | objects, notifications, MediaConvert jobs | one MediaConvert job per raw clip event | `Transcode` |
| Backend, auth (`src/backend/src/auth`) | `users`, `refresh_tokens`, the browsers' cookies | register, login, refresh, logout | `Sessions` |
| Backend, players and teams (`src/backend/src/players`, `teams`) | `players`, `teams` | create, list, update, remove, the team guard | `Rosters` |
| Status polling (`MatchesService.getStatus`) | what the client saw last | guard on the primary, read on the replica | `StatusReads` |
| Read replica (`PrismaService.read`) | lagging copy | asynchronous replay | `Replica`, `BackendReads` |
| Health, configuration, Terraform, CI | - | - | no |

How they interact. A client creates a match, gets a URL, PUTs the video and
confirms. The PUT makes S3 call the dispatcher, which sends a *job* to the
workers and a *callback* to the status updater. A worker sends callbacks too.
The only links between the two databases are these callbacks: the backend never
looks into DynamoDB, the worker never into PostgreSQL. Backend requests and the
status updater write the same rows without knowing of each other, and each has
its own copy of the transition table. The raw clips a worker uploads start
`mediaconvert_trigger`, whose jobs write into the same bucket. Lists, statuses and
the jersey check are read from a replica that lags behind the primary, where all
writes and the guards' reads go. Auth stands apart: the other endpoints only
ask whether the access token's signature and expiry are good.

What is hard here: requests of two statements with no transaction; a standard
queue that repeats and reorders; a worker that may die between any two of its
writes to four services; a message that is redelivered while its first receiver
still works on it; batches that fail as a whole; uploads and confirms that race;
checks on a replica that is behind; a trigger that writes where it listens.
`PROJECT.json` lists each hazard at its line.

What makes the components correct:

* analysis side: an event item comes after the upload of its clip; the marker comes
  after everything else; retries overwrite instead of adding; a job is deleted
  only when its match is done; completed is announced once; every upload gets an
  end;
* table side: the columns of a row agree; no status is invented; deleted stays
  deleted; only transitions of the table are written; every callback leaves its
  queue;
* both: completed in PostgreSQL means complete in DynamoDB and S3; a final callback
  is not used up before its match can take it; an upload that was confirmed reaches a
  final status;
* auth: one account per email, no token handed out twice, a presented token is
  spent for good, browsers do not end each other's sessions;
* rosters: a jersey number once per team, a removed player stays removed, an
  update touches what it was asked to touch;
* polling: a client is never shown an older status than before, unless two confirms
  of its match overlap;
* transcoding: each output is of its own clip, the trigger does not feed itself, no
  clip is forgotten;
* analyzer: the cooldown and the merging give the events they promise.

## 2. Modules

```
MatchStates --- StatusCallbacks --+-- VideoJobs -----+-- Pipeline
                                  +-- MatchRows -----+
Replica --+-- Rosters -----+-- BackendReads
          +-- StatusReads -+      (StatusReads also uses MatchStates)
HighlightResults  <- implemented by VideoJobs
MatchLifecycle    <- implemented by MatchRows
VideoJobs, MatchRows, HighlightResults, MatchLifecycle  <- implemented by Pipeline
Transcode, EventAnalyzer, Sessions   (each on its own)
VideoJobsProofs, MatchRowsProofs, PipelineProofs,
BackendReadsProofs, TranscodeProofs, SessionsProofs, EventAnalyzerProofs, SetSums
MCVideoJobs, MCMatchRows, MCPipeline, MCBackendReads, MCEventAnalyzer, MCSessions
```

**MatchStates** has the two transition tables: the TypeScript one and the
Lambda's Python one.

**StatusCallbacks** has jobs, callbacks, the growing set `callbacks` of those
sent, and the names of the disturbances (`Faults`) a run allows:
`dispatcher`, `raise`, `notify`, `delete`, `silent`, `crash`, `overrun`,
`lambda`, `reorder`, `lateConfirm`, `abort`, `overlap`. Each names one guard; with an empty
set the environment behaves, with the full set it does everything the services
document they may do.

**VideoJobs** is dispatcher, job queue and workers. `dispatch[j]` is where the
dispatcher's run for job `j` is between its two sends, `jobs[j]` the SQS message
with its receive count, `task[t]` the program counter and locals of
`process_message` in task `t`, `written[m]` the keys ever written to S3 and DynamoDB,
`marker` the matches with `MARKER#COMPLETED`. A call to a service is one action.
The keys are deterministic (`make_event_id`, tracking file names), so an item is
its key, and writing it again is no change. The worker's `for` loops are the
order `WriteRank` on items. `TryFails` stands for any call in the `try` raising:
with `raise` the download, the detector or a write, with `notify` a callback, with
`delete` the deletion of the job at its end. `FailsOutsideTry` stands for the marker check or the
delete before it, `SendFailed` for the `except` clause. A receive gives the
message's receive count out as receipt, and `DeleteWithReceipt` with an older
receipt may or may not delete a message that was received again. Which video an
attempt analyses is fixed when it downloads, so a client that uploads again
while a job is queued or running is covered. The detector is taken to be
deterministic: a fresh one is built for each message and the model's weights are
fixed. `written` is a history. Items stay, and tracking files are only archived, but the
bucket deletes what is under `raw-clips/` after seven days (`src/infra/modules/storage/lifecycle-policies.tf:57`,
`src/docs/data-model.md:154`), so what is said of raw clips is that they were uploaded;
their expiry is in `Transcode`, the only reader of raw clips. The raw videos' own
lifecycle rule (an archive after 30 days) is left out as well: a job is in its queue for
4 days at most.

Two constants of `VideoJobs` record facts about the deployment.
`NotificationFilter` is `"suffix"`, what the dispatcher itself filters by, or
`"prefix"`, what `src/infra/modules/messaging/s3-event-trigger.tf:7` configures:
`original.mp4` is a prefix of no key, so with `"prefix"` no upload is ever
dispatched (`PrefixDispatchesNothing`) and nothing is left to check. The runs use `"suffix"`.
`FloatsAccepted` says whether the DynamoDB client takes Python floats. boto3 does
not, and event items contain two (see Findings); with TRUE the runs look at what
the code does once that is mended; `Pipeline` and `JobsFloats` use FALSE, and in
`Pipeline` a video with an event is one that cannot be analysed.

**HighlightResults** is what the analysis side promises readers: items appear,
at some moment a match is done, from then on it holds a complete result, and one
notice is sent. It has no jobs, tasks or retries.

**MatchRows** is the table with its two writers. A request is the statements of
its handler: `Guard` (what `MatchOwnershipGuard` reads), then `ConfirmRead` and
`ConfirmWrite`, `RemoveRead` and `RemoveWrite`, or `CreateUploadUrl`. An
invocation of the Lambda holds a batch, applies its records one by one in any
order (`UpdateStatus`, one transaction), and returns (`AckBatch`) or fails
(`InvocationFails`), which makes the whole batch visible again. `CallbackArrives`
is the environment; in `Pipeline` it is replaced by the workers. Nullable columns
are recorded as set or not set, and of the status the guard read only whether it
was `pending`, which is all that `createUploadUrl` asks.

**MatchLifecycle** is the life of a row with atomic steps, as
`docs/database-schema.md` draws it.

**Pipeline** composes both sides: every step is a step of one side that leaves
the other's variables alone, a client uploads only while it holds a URL, and
without `lateConfirm` the dispatcher is slower than the client's confirm.

**Replica** is PostgreSQL as `PrismaService` sees it: the database after each commit
that the replica has still to replay. `write` is the last of these versions and
`read` the first; a statement commits a new version, `Replay` drops the oldest.
With `MaxLag = 0` both clients see the same, as in the dev environment.

**Rosters** is `PlayersService` on it, each request two statements: the check of a
new player's number is asked of the replica, the look-ups of `update` and `remove`
of the primary, and the second statement writes by id. The partial unique index is
a branch of the write (`Indexed`), as in `Sessions`. `remove` looks the player up
without `deletedAt: null`, as the code does. **StatusReads** is a client polling a
match: the guard sees the primary, `getStatus` the replica. The writers of the row's
status are those of `MatchRows` without their queue: `create`, the Lambda's
`update_status`, and `confirmUpload` in its two statements, the check and the update by
id alone. Two confirms that overlap take a match back, so the history `overlapped` keeps
the matches to which that happened.
**BackendReads** puts the two on one pair of databases.

**Transcode** is what happens to a raw clip: S3's notification, delivered at least
once and repeated by every retry of the worker, `handler` with its prefix filter,
Lambda's retries when it raises (before or after `create_job` has taken effect),
MediaConvert's jobs in any order, the outputs' own notifications, and the lifecycle
rule on raw clips, which is assumed to be slower than retries and jobs. Keys are the
tuples of their parts, and `OutputKey` is what `build_output_prefix` and
MediaConvert make of a key together.

**EventAnalyzer** is the pure algorithm, one step per iteration of its two loops,
so that its loop state can be related to what it has produced. Times are in
frames, scores in 150ths and confidences in thousandths, which makes all
thresholds and the three-place rounding whole numbers; frames come at a constant
whole rate, as `process_video` numbers them. `Duration` and `Exported` are the
cutting of clips in `process_video` and `export_clip`.

**Sessions** is auth. A request is made once and its record stays, so that what
was presented and issued can be related later; `at` is the statement it stands
before. `FindEmail` and `CreateUser` are `register`, `FindUser` is `login`,
`FindToken` and `RevokeToken` are the two statements `refresh` and `logout` have
in common, `SignTokens` and `IssueTokenPair` are the end of all but `logout`: the tokens
are signed, with the second they carry, and stored later. `Respond` is the
answer arriving at the browser. A token is its user and the second it was signed
in, because that is what distinguishes two of them: RS256 signatures are
deterministic and the payload has no random part. The unique indexes on the email
and on the hash are branches of the two inserts, not of the types: rows are sets
of records in which duplicates are possible. `Abort` ends a request before any
statement. Left out: the second lookup of the user in `refresh` (nothing in the
program deletes users), and validation of the request body.

## 3. Runs

Passing runs:

| Run | Question | Bounds |
|---|---|---|
| `Jobs` | When dispatcher runs repeat, attempts overlap, die and fall silent, do results, markers and callbacks stay consistent, is `HighlightResults` implemented, and does every upload get an end (job deleted, dead-lettered, or given up by Lambda)? | 1 upload, 2 dispatcher tries, so 2 jobs; 2 receives each; 2 tasks; all faults of dispatcher, queue and workers but `raise` and `notify` |
| `Rows` | Do requests and invocations, with batches reordered, failing and redelivered, keep rows consistent and implement `MatchLifecycle`; does every callback leave the queue, and does a final one end the processing? | 1 match, 2 requests at a time, confirms and removes, 1 invocation at a time with a batch of up to 2, 2 receives, any 3 of the 4 callbacks of a job |
| `Pipeline` | Both sides together: does completed mean complete, is a final callback ever used up without effect, does the jobs side keep the assumptions of `MatchRows`, and does a confirmed upload reach a final status? | one video that can be analysed and one that cannot, 1 task, 2 receives of a job, 1 request at a time, attempts that raise and requests that abort |
| `Reads` | Do stale reads ever give one jersey number twice, a removed player back, a number nobody asked for, or an older status? | 1 team, 2 players, 1 number, 2 requests, 1 match with 2 confirms at a time, a replica 1 commit behind |
| `TranscodeClips` | Do outputs stay apart, does the trigger stay off its own outputs, and is every clip transcoded or given up? | 2 clips announced twice each, 2 tries, raising triggers and failing jobs |
| `SessionsSafety` | Do overlapping auth requests keep accounts and tokens unique, tokens that were presented spent, and browsers apart? | 4 requests, 2 browsers, 1 email, 4 seconds, tokens that live 2 and 3 |
| `Analyzer` | Cooldown, merging, credibility and cutting of clips, for every video | up to 6 frames of 5 kinds at 2 frames a second |

Why the bounds are enough. The safety properties of `Jobs`, `Rows`, `Pipeline`,
`Reads`, `TranscodeClips` and `SessionsSafety` are proved for all values of the
constants (section 4), and for all faults but where a theorem names the one that
breaks it, so there the runs are a check of the statements
and of the models; what the runs alone show is the liveness. So it is for `Analyzer`.
The matches never touch each other: all state is
indexed by match and the only thing shared is the worker, whose choice of the
next job is free, so one match shows what there is. Two tasks and two receives
are the least with which an attempt meets its own redelivery or a second job of
the same match; with both, `raise` and `notify` would take `Jobs` too long, and an attempt
that they end leaves the results of one that crashes at the same place, and a failed
callback. Two requests and one invocation that are restarted without limit put every
statement of the backend between the records of a batch and a remove between the
statements of a confirm; two confirms at once are left to `RowsStaleConfirm`, because
they break the refinement. A request for an upload URL writes nothing to the row and is in
`Pipeline`.
`Pipeline` has no faults of the Lambda, so there no callback is ever dead-lettered, and
`AckedFinalsCount` says that every acknowledged final callback found or gave its match a
final status; with `lambda` the run takes too long, and the theorem covers it.
A batch of two received twice is the least with a partial failure that is
redelivered, and one callback of each status from dispatcher and worker suffices to
reorder them. Four auth requests are a
registration, a second sign-in or refresh, and two more that race on one token;
other emails share nothing with the one. With two players and one number every
conflict over a number can happen, and one commit is the least by which a replica
can be behind. Two clips announced twice have every pair of jobs in both orders.
Six frames at two frames a second are longer
than the cooldown, both paddings and the smoothing window, so chains of three
merges and repeated events of one type occur. A symmetry set is used only in runs
without liveness properties.

Deadlock is not checked (`CHECK_DEADLOCK FALSE`): every run has a bounded number
of uploads, receives, deliveries or ids and really comes to rest when all are used up.

Fairness. `JobsFairness` is weak fairness of the dispatcher's own steps (Lambda
runs it, and again after a failure), of the queue's timers, of the receipt of each
job by some task (ECS keeps tasks polling; a task is idle again after each
message, so a visible message stays receivable), and of the steps of a
task. `RowsFairness` is the same for the Lambda's event source mapping: some
invocation takes waiting callbacks, an invocation that has records goes on, and
messages out of receives are redriven. `TranscodeFairness` has Lambda handle some
waiting notification, well or badly, and MediaConvert complete some job; both only
ever have finitely many. Uploads, requests and all other faults are
promised nothing. `FinalCallbackConcludes`, `AnalysisConcludes` and
`EveryUploadSettles` allow the
dead-letter queue as an end, because nothing reads it; `CallbacksSettle` says that
again and again all callbacks sent so far are acknowledged or dead-lettered.
`AnalysisConcludes` leaves out `notify`, as it leaves out `lateConfirm`: when the
worker's first callback raises, its `failed` may arrive before the dispatcher's
`processing`, is dropped, and the match stays in processing.

Each property has a mutant: a plausible bug in one mapped definition (named
`Mutant:` in the modules, defined beside the original) with which TLC finds the
property violated under the same configuration. What the mutants are is listed in
`PROJECT.json`.

### Findings

Five runs show where the program does something other than its documents say.

* `JobsFloats` (`UploadsAreAnalysed`): `put_events` hands floats to the DynamoDB
  resource API, which refuses them. Any video with an event fails in every
  attempt; only videos without one are ever marked.
* `RowsStaleConfirm` (`StatusFollowsTransitions`): two overlapping confirms; the
  second's update, by id alone, takes the match from `processing`, or from
  `completed`, back to `uploaded`.
* `PipelineEarlyFailed` (`FailedAfterLastRetry`): an attempt that raises reports
  `failed` at once, not when the retries are used up. As `failed` is terminal, a
  retry that succeeds is never shown.
* `PipelineLostCompleted` (`FinishedBecomesCompleted`): a worker that dies between
  the marker and its callback. The redelivered job is skipped because of the
  marker, nobody announces it, and the match stays in `processing`.

* `TranscodeKeys` (`HighlightsServed`): `build_output_prefix` makes the raw clip's
  name a directory, below which MediaConvert puts a file of the same name, while the
  event item names the file without that directory. Nothing ever appears under the
  key that viewers are sent to.

Three relatives of `PipelineEarlyFailed` and `PipelineLostCompleted` have no run of their own. An attempt overtaken by
its own redelivery fails its conditional put and reports `failed` for a finished
match. A `completed` delivered before its `processing` is dropped as an invalid
transition. Callbacks of a match that is not confirmed yet are dropped, and
`docs/system-flows.md:40` names this one as a gap. All three are behaviours of
`Pipeline` with `overrun`, `reorder` and `lateConfirm` among the faults, and
`CompletedMeansMarker` is checked and proved in their presence.

Rotation has a relative too. `src/docs/api-design.md:118` says of a refresh that it
issues a new pair and revokes the old token. Two refreshes with one token whose
lookups both precede the first revoke each issue a pair when the clock ticks
between their signatures, and the second is answered with a 500 when it does not,
because both sign the same string. Which of the two answers a browser ends up with is open
too. Equally a refresh in the second of the sign-in
revokes its token and then fails to store the identical successor, and the session
is gone. These are behaviours of `Sessions`; `RotatedIsSpent` and
`SpentStaysSpent` state what does hold.

`src/worker/src/event_analyzer.py:308` says that only candidates of one event type
are merged; the code does not compare types. What holds, and is checked, is that
every result is one of its candidates, and the most confident one's equal.

## 4. Proofs

All theorems hold for every value of the constants that satisfies the named
assumptions of the modules (the counters' bounds are positive, videos have known
items, the environment's faults are among the named ones, the placeholders such as
`NoJob` and `NoTeam` are none of the real values), in particular for any number of
matches, uploads, tasks, requests, invocations, browsers, players and clips, any lag
of the replica, and any set of faults.

**VideoJobsProofs.** The safety properties are not inductive one by one. That the
marker comes after the results needs to know, of an attempt in the middle of its
loops, that everything it has put aside is written (`WritesKept`); that a job is
deleted only when done needs that attempts past the marker are at a marked match
(`DoneIsMarked`); that completed is sent once needs that at most one attempt of a
match stands between its conditional put and its announcement, with none sent yet
(`OneAnnouncer`); and all of them need that nothing exists of a match before its
first upload. `JobsInv` is the conjunction,
proved in `JobsInvariant` with one lemma for each action that disturbs something.
The single properties are its consequences. `AnalysisImplementsResults` maps every
step of `VideoJobs` to a step of `HighlightResults` or a stutter, also with
re-uploads. `CompletedOnce`, a part of the invariant, is what its step `Announce` rests on.

A second invariant is about messages: a dispatch that has not sent its job has no message
in the queue, a retry begins only after the try before it failed, and only messages that
were sent have receivers (`TriesInOrder`).
With it `SettledStaysSettled` shows that what `EveryUploadSettles` reaches is never left
again, by a late receipt or a retry of the dispatcher. `ReportsEarned` adds receive
counts: a receipt is never ahead of its message's count, so every callback is about an
attempt that took place (`ReportsAreOfAttempts`). `FloatsLoseEvents` and
`PrefixDispatchesNothing` state what the deployed constants do, for every workload and
without any fault: no event item is ever written, and no upload ever dispatched.

A third part, `Unreported`, says of an attempt what it has still to report (`StillToSend`),
that none of it was sent, and that no two busy tasks hold the same receipt. From it
`EachCallbackOnce` follows: no step sends a callback that was sent before, which is why
`callbacks` can be a set without losing a message.

**MatchRowsProofs.** `RowChanges` lists the five ways a row changes in a step;
consistency of the columns and `SoftDeleteSticks` follow from it case by case.
`StatusWasReported` needs the strengthening `BatchesReceived`: what an invocation
has still to apply was sent, and received. Nothing is assumed about requests, so
these theorems cover overlapping confirms. The refinement, `RowsImplementLifecycle`,
assumes `"overlap" \notin Faults`:
then a match has one confirm at most in progress (`ConfirmsAlone`), and the row it is
about to write is still where its check found it (`RequestsTimely`), since only
another confirm takes a row out of `pending`; so
every write of a request or of the Lambda is a step of `MatchLifecycle`. From the same
invariant, `OverlapIsTheOnlyWay` proves the property that `RowsStaleConfirm` violates:
no other fault, reordering and redelivery included, writes a status change outside the
table. As every change then goes forward (`TransitionsProgress`), a callback whose status
the row has reached never changes it again (`RedeliveriesAreHarmless`), which is why it
is safe that a batch with one bad record is applied twice.

**PipelineProofs.** A step of `Pipeline` is a step of the analysis side or leaves
it alone, and a step of the table side or only adds callbacks. So both
invariants hold of the composition, and `CompletedIsEarned` chains them: the row
says completed, so a completed callback was sent (`StatusWasReported`), so the
match is marked (`CompletedOnce`), so its results were written
(`MarkerAfterResults`). `PipelineImplementsRows` says that the environment of
`MatchRows` is not an invention: whatever sends a callback in the composition sends it
about a match that has a row, because jobs come from uploads and uploads from URLs of
existing rows (`UploadsHaveRows`). That none is sent twice is not part of it, but
`EachCallbackOnce`. `PipelineImplementsJobs` is the same for the other side,
and by the two every theorem about one side holds in the composition, the refinements
(`PipelineImplementsResults`, `PipelineImplementsLifecycle`) included.

Across the two databases: `StatusesHaveCauses` leads a status back to a job, by way of the
callback and `ReportsEarned`; `NoOrphans` shows that a match without a row has nothing in
queues, tasks, tables or buckets: only sending a job of it makes a match known
(`UnknownStays`). The lemma `ConfirmedFirst` says the same of a match that is not confirmed,
when `"lateConfirm" \notin Faults`. That is an assumption about the client, not a promise of
the system: nothing in S3 or the dispatcher waits for the confirm.

`FinalCallbacksCount` (`AckedFinalsCount`) is the longest chain. Its invariant `FinalsInv`
says, in the order in which things happen: a task on its way to a final callback has sent
processing, so a final callback is never the first of its match (`ProcessingFirst`); a
batch that holds one has the earlier one with it, or that one is acknowledged or dead
(`BatchesInOrder`); a processing callback that was applied shows in the row, because the
row was confirmed before anything was sent (`ProcessingApplied`, from `ConfirmedFirst`) and
statuses only advance (`OverlapIsTheOnlyWay`); so a final callback meets a row that is
processing or finished (`FinalsApplied`). One link each breaks with `notify`, `reorder`,
`lateConfirm` and `overlap`: those four are the hypotheses, and with any one of them TLC
finds the property violated. Crashes, redeliveries, overruns and failing
Lambdas are all allowed. The dispatcher's own processing callback plays no part: the
mutant that leaves it alone but drops the worker's is what the run `Pipeline` refutes.

**BackendReadsProofs.** Every statement appends a version to `versions` or leaves them
alone, and a replay drops the first, so a property of all versions has to be shown of
the new one only (`Statement`, `VersionsStep`). `JerseysAreUnique` is then the index
applied to the row that is written; the check on the replica plays no part in the
proof, as it must not. `RemovedForGood` and `NumbersAsRequested` look at the row that
the second statement writes, by column. `PollsForward` needs that
statuses never go back from one version to the next (`StatusesInOrder`) and that the
client has seen nothing newer than the first version. For the matches without overlapping
confirms (`Orderly`) the update of a confirm finds the row where its check left it
(`ConfirmsFresh`), as only a confirm takes a row out of `pending`; the others are left out
of the statement, as `RowsStaleConfirm` shows them going back.

**TranscodeProofs.** That a clip is not forgotten relies on the raw clip's being in the
bucket while it has notifications or jobs (`RawClipsHeld`), and that on the expiry
waiting for them; that outputs stay apart, and never notify, on the keys alone
(`KeysApart`). `HighlightsNeverServed` is the finding of `TranscodeKeys` for any number of
clips and everything that may be delivered, retried or given up: no object is ever under
the key that an event item names.

**SessionsProofs.** That a spent token stays spent is not inductive: a request
that issues could store the same string again, unless the spent row is still there
for the unique index to find. So `SessionsInv` adds that the token of a request
past its lookup is stored (`PresentedIsStored`), that rows are determined by their
hash and belong to the request that stored them (`RowsIndexed`), that issuing is
the last statement (`IssuedOnce`), which request is at which statement
(`StagesFit`), and where revocations come from (`RevokedWasPresented`).
`ProgressKeeps` treats the steps that write no token row once for all; the two that
do, `RevokeToken` and `IssueTokenPair`, have a lemma each. `SessionsTypeCorrect` is
proved on its own, from the request's step alone. `SessionsAreOwn` follows a session's
user from sign-in through any chain of refreshes to the cookie (`OwnIdentity`): requests
never change whose they are, and an answer sets a cookie of the request's own user.

**EventAnalyzerProofs.** Videos of any length, any frames, any `AnalyzerConfig` with
a positive `clip_after_sec` and a cooldown of at most the 9999 seconds that stand for
"never". `ScanInv` adds to the greedy rule that `last_event` holds, of each type, the
latest candidate's time (`LastEventsKnown`), and that every candidate is `CandidateAt`
of a frame passed (`CandidatesOfFrames`), so that peaks identify candidates and later
ones start and end later. `MergeInv` orders the second loop: every result ends no
later than every candidate still to do, the last one after all before it, so a merge
or a new result can only come after what is there; each is separate from those before.
`Credible` names the candidate behind each result. That clips are playable adds the
arithmetic of the truncated duration.
What a frame scores plays no part in these.

It does in `AnalyzerTypeCorrect` and `BestIsKept`, which compare confidences: these come
from an average over a window, and that the sum behind it is a number is an induction over
sets, for which the library's induction theorems cannot be used. **SetSums** proves it from
the library's fact that strict inclusion is well-founded on finite sets, without any
induction theorem: if some subset had no table of sums, a smallest one would (`MinimalSet`),
and the table of what remains of it after its first element extends to it
(`TableExists`); two tables agree for the same reason (`TablesAgree`). `CooldownDetermines`
turns `CandidatesAreGreedy` round: of two sets that obey the greedy rule, the first frame
at which they differ cannot exist (`GreedyIsUnique`), so the rule leaves the code no choice.
`SortHasNoTies` shows that no two candidates share a peak, so that Python's sort by peaks
has one result. `AnalysisEnds` gives the measure `Left`, of frames and candidates still to do,
which every step lowers.

Only model-checked: the properties that need fairness (`EveryUploadSettles`,
`CallbacksSettle`, `FinalCallbackConcludes`, `AnalysisConcludes`, `ClipsConclude`, and of
the findings `UploadsAreAnalysed`, `FinishedBecomesCompleted` and `HighlightsServed`), as
liveness is out of the prover's reach. Every invariant, action property and refinement
of a passing run is a theorem.

## 5. Not modelled

Decoding, tracking and homography (numeric code whose state space TLC cannot
enumerate); message contents other than what decides a branch; retention periods
of queues (4 and 14 days); the Secrets Manager cache and database connections of
the status updater; the codec settings of MediaConvert; the listing of matches and
teams, which decides nothing; names and positions of players; the health check, the
exception filters and the bootstrap of the backend, which keep no state; configuration, of which `src/worker/src/config.py:43` against
`src/infra/modules/compute/ecs-worker.tf:55` (the worker asks for
`RAW_TRACKING_DATA_BUCKET_NAME`, the task gets `RAW_TRACKING_BUCKET_NAME`) is
worth knowing.

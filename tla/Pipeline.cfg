\* Attempts raise and are retried, callbacks are redelivered, requests abort.
CONSTANTS
  v1 = v1
  v2 = v2
  e1 = e1
  Match = {m1}
  NoMatch = NoMatch
  MaxUploads = 1
  MaxTries = 1
  MaxJobReceives = 2
  MaxCallbackReceives = 1
  Faults = {"raise", "delete", "abort"}
  Task = {t1}
  NoJob = NoJob
  Video = {v1, v2}
  NoVideo = NoVideo
  Batch = {1}
  EventId = {e1}
  BatchesOf <- MCBatchesOf
  EventsOf <- MCEventsOf
  NotificationFilter = "suffix"
  FloatsAccepted = FALSE
  Endpoints = {"uploadUrl", "confirm", "remove"}
  Request = {r1}
  Invocation = {i1}
  BatchSize = 2
SPECIFICATION PipelineSpec
INVARIANTS
  CompletedMeansMarker
  AckedFinalsCount
PROPERTIES
  ImplementsMatchRows
  AnalysisConcludes
CHECK_DEADLOCK FALSE

\* The worker dies between the marker and its completed callback.
CONSTANTS
  v1 = v1
  v2 = v2
  e1 = e1
  Match = {m1}
  NoMatch = NoMatch
  MaxUploads = 1
  MaxTries = 1
  MaxJobReceives = 2
  MaxCallbackReceives = 1
  Faults = {"crash"}
  Task = {t1}
  NoJob = NoJob
  Video = {v1, v2}
  NoVideo = NoVideo
  Batch = {1}
  EventId = {e1}
  BatchesOf <- MCBatchesOf
  EventsOf <- MCEventsOf
  NotificationFilter = "suffix"
  FloatsAccepted = TRUE
  Endpoints = {"uploadUrl", "confirm"}
  Request = {r1}
  Invocation = {i1}
  BatchSize = 2
SPECIFICATION PipelineSpec
PROPERTY
  FinishedBecomesCompleted
CHECK_DEADLOCK FALSE

\* Nothing goes wrong, but an event item holds floats.
CONSTANTS
  v1 = v1
  e1 = e1
  e2 = e2
  Match = {m1}
  MaxUploads = 1
  MaxTries = 1
  MaxJobReceives = 2
  MaxCallbackReceives = 1
  Faults = {}
  Task = {t1}
  NoJob = NoJob
  Video = {v1}
  NoVideo = NoVideo
  Batch = {1}
  EventId = {e1}
  BatchesOf <- MCOneBatch
  EventsOf <- MCOneEvent
  NotificationFilter = "suffix"
  FloatsAccepted = FALSE
SPECIFICATION JobsSpec
PROPERTY
  UploadsAreAnalysed
CHECK_DEADLOCK FALSE

\* One upload dispatched twice, two tasks; attempts crash, overlap, and fail to
\* delete or to report.  "raise" and "notify" are left out: an attempt that they end
\* leaves the results that a crash at the same place leaves, and a failed callback.
\* The event id that no video has is for results that do not belong.
CONSTANTS
  v1 = v1
  e1 = e1
  e2 = e2
  Match = {m1}
  MaxUploads = 1
  MaxTries = 2
  MaxJobReceives = 2
  MaxCallbackReceives = 1
  Faults = {"dispatcher", "silent", "delete", "overrun", "crash"}
  Task = {t1, t2}
  NoJob = NoJob
  Video = {v1}
  NoVideo = NoVideo
  Batch = {1}
  EventId = {e1, e2}
  BatchesOf <- MCNoBatch
  EventsOf <- MCOneEvent
  NotificationFilter = "suffix"
  FloatsAccepted = TRUE
SPECIFICATION JobsSpec
INVARIANTS
  JobsTypeOK
  ClipBeforeEvent
  MarkerAfterResults
  NoDuplicateHighlights
  JobDeletedOnlyWhenDone
PROPERTIES
  ImplementsHighlightResults
  EveryUploadSettles
CHECK_DEADLOCK FALSE

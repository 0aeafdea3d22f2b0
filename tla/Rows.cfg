\* Batches in any order that fail and are delivered again, next to two concurrent
\* requests: a confirm and a remove, or two removes.
CONSTANTS
  Match = {m1}
  NoMatch = NoMatch
  MaxUploads = 1
  MaxTries = 1
  MaxJobReceives = 1
  MaxCallbackReceives = 2
  Faults = {"reorder", "lambda", "abort"}
  Endpoints = {"confirm", "remove"}
  Request = {r1, r2}
  Invocation = {i1}
  BatchSize = 2
SPECIFICATION MCRowsSpec
INVARIANTS
  RowsTypeOK
  RowConsistent
  StatusWasReported
PROPERTIES
  SoftDeleteSticks
  ImplementsMatchLifecycle
  CallbacksSettle
  FinalCallbackConcludes
CHECK_DEADLOCK FALSE

\* Two confirm requests of one match overlap; nothing else goes wrong.
CONSTANTS
  Match = {m1}
  NoMatch = NoMatch
  MaxUploads = 1
  MaxTries = 1
  MaxJobReceives = 1
  MaxCallbackReceives = 1
  Faults = {"overlap"}
  Endpoints = {"uploadUrl", "confirm", "remove"}
  Request = {r1, r2}
  Invocation = {i1, i2}
  BatchSize = 2
SYMMETRY RowsSymmetry
SPECIFICATION RowsSafetySpec
PROPERTY
  StatusFollowsTransitions
CHECK_DEADLOCK FALSE

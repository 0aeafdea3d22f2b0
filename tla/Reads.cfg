CONSTANTS
  MaxLag = 1
  Team = {t1}
  NoTeam = NoTeam
  Player = {p1, p2}
  NoPlayer = NoPlayer
  Number = {n1}
  NoNumber = NoNumber
  Keep = Keep
  Request = {r1, r2}
  Match = {m1}
  MaxConfirms = 2
SYMMETRY ReadsSymmetry
SPECIFICATION ReadsSafetySpec
INVARIANTS
  ReadsTypeOK
  JerseyUnique
PROPERTIES
  RemovedStaysRemoved
  NumberAsRequested
  PollsMoveForward
CHECK_DEADLOCK FALSE

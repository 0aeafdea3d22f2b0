\* Four requests of two browsers with one email, over four seconds.
CONSTANTS
  Email = {e1}
  Browser = {b1, b2}
  Request = {r1, r2, r3, r4}
  None = None
  NoToken = NoToken
  AccessTtl = 2
  RefreshTtl = 3
  MaxTime = 3
SYMMETRY SessionsSymmetry
SPECIFICATION SessionsSpec
INVARIANTS
  SessionsTypeOK
  OneAccountPerEmail
  PairIsExclusive
  SpentStaysSpent
  RotatedIsSpent
  SessionsIndependent
CHECK_DEADLOCK FALSE

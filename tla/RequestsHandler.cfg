SPECIFICATION Spec
CONSTANTS
  i1 = i1
  i2 = i2
  i3 = i3
  a = a
  b = b
  r1 = r1
  r2 = r2
  NoId = NoId
  NoSubject = NoSubject
  Id <- MCId3
  Subject <- MCSubject
  Request <- MCRequest1
  MaxOps = 2
  Ops <- AllOps
  AlwaysSave = TRUE
  RefreshOnLoad = FALSE
CHECK_DEADLOCK FALSE
SYMMETRY Symmetry
INVARIANTS
  TypeOK
  FailedRepliesGrantNothing
  RotatedOnce

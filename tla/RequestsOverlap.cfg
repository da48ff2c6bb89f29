SPECIFICATION Spec
CONSTANTS
  i1 = i1
  i2 = i2
  i3 = i3
  a = a
  b = b
  r1 = r1
  r2 = r2
  NoId = NoId
  NoSubject = NoSubject
  Id <- MCId2
  Subject <- MCSubject
  Request <- MCRequest2
  MaxOps = 1
  Ops <- AllOps
  AlwaysSave = FALSE
  RefreshOnLoad = TRUE
CHECK_DEADLOCK FALSE
SYMMETRY Symmetry
INVARIANTS
  SignOutEnds
  ExposedAreIndexed
PROPERTY PrincipalFixed

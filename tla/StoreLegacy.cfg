SPECIFICATION Spec
CONSTANTS
  i1 = i1
  i2 = i2
  i3 = i3
  a = a
  t1 = t1
  t2 = t2
  NoId = NoId
  NoSubject = NoSubject
  Id <- MCId2
  Subject <- MCSubject
  Task <- MCTask2
  IdleTTL = 1
  AbsoluteTTL = 2
  HasHsetex = {TRUE, FALSE}
  LazyFields = FALSE
  Ops <- LegacyOps
CHECK_DEADLOCK FALSE
SYMMETRY Symmetry
INVARIANT OneIdPerLine
PROPERTY ImplementsLifecycle

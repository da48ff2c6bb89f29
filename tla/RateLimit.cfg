SPECIFICATION Spec
CONSTANTS
  c1 = c1
  r1 = r1
  r2 = r2
  Counter <- MCCounter
  Check <- MCCheck
  Plans <- MCPlans
  Sec = 2
  Request <- MCRequest
SYMMETRY Symmetry
INVARIANTS
  TypeOK
  NoOvershoot
  CounterExpires
  ShowsTightest
  CapabilityTrue
  RetryAfterSuffices
PROPERTY ImplementsFixedWindow

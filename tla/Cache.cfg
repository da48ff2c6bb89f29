SPECIFICATION Spec
CONSTANTS
  a = a
  b = b
  r1 = r1
  r2 = r2
  Who <- MCWho
  Nobody = Nobody
  Anyone = Anyone
  Routes <- MCRoutes
  Request <- MCRequest
  ClientAges = {1}
  MaxVersion = 2
  MaxTime = 2
SYMMETRY Symmetry
INVARIANTS
  TypeOK
  ServedOwn
  FreshAfterEviction
  GateBeforeHit
  HonoursMaxAgeOfExpiring

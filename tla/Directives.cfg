\* Every declaration, two users and a caller without a session.
CONSTANTS
  u1 = u1
  u2 = u2
  Nobody = Nobody
  User <- MCUser
  Routes <- MCRoutes
SPECIFICATION Spec
SYMMETRY Symmetry
INVARIANTS OneAuthority NobodyElsesPage PagesStayBehindTheirGate

------------------------- MODULE MCSessionRequests -------------------------
EXTENDS SessionRequests, TLC

CONSTANTS i1, i2, i3, a, b, r1, r2

MCId3 == {i1, i2, i3}
MCId2 == {i1, i2}
MCSubject == {a, b}
MCRequest1 == {r1}
MCRequest2 == {r1, r2}

AllOps == {"read", "put", "clear", "principal", "reauthenticate", "rotate", "revoke",
           "revoke_all", "outage"}
SwitchOps == {"principal", "rotate"}

\* Identifiers, subjects and requests are interchangeable.
Symmetry == Permutations(Id) \cup Permutations(Subject) \cup Permutations(Request)
=============================================================================

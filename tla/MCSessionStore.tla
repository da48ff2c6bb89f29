--------------------------- MODULE MCSessionStore ---------------------------
EXTENDS SessionStore, TLC

CONSTANTS i1, i2, i3, a, t1, t2

MCId2 == {i1, i2}
MCId3 == {i1, i2, i3}
MCSubject == {a}
MCTask1 == {t1}
MCTask2 == {t1, t2}

LifecycleOps == {"create", "save", "touch", "rotate", "revoke"}
IndexOps == {"create", "save", "rotate", "revoke_id", "revoke_all", "list"}
LegacyOps == {"save", "rotate"}
ListingOps == {"create", "save", "list"}

\* Identifiers and tasks are interchangeable.
Symmetry == Permutations(Id) \cup Permutations(Task)
=============================================================================

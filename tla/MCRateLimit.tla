---------------------------- MODULE MCRateLimit ----------------------------
EXTENDS RateLimit, TLC

CONSTANTS c1, r1, r2

\* Routes that share one counter through an explicit scope, each with a rate of
\* its own; Steep costs more than it is limited to and never passes.
Cheap == [key |-> c1, limit |-> 2, window |-> 1, cost |-> 1, fail_closed |-> TRUE]
Dear == [key |-> c1, limit |-> 3, window |-> 2, cost |-> 2, fail_closed |-> FALSE]
Steep == [key |-> c1, limit |-> 1, window |-> 1, cost |-> 2, fail_closed |-> FALSE]

MCCounter == {c1}
MCCheck == {Cheap, Dear, Steep}
MCPlans == {<<Cheap, Dear>>, <<Cheap>>, <<Steep>>}
MCRequest == {r1, r2}

Symmetry == Permutations(Request)
=============================================================================

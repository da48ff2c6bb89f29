-------------------------- MODULE MCResponseCache --------------------------
EXTENDS ResponseCache, TLC

CONSTANTS a, b, r1, r2

MCWho == {a, b}
MCRequest == {r1, r2}

Route(v, g, t, p) == [vary |-> v, gate |-> g, ttl |-> t, put_ttl |-> p]

\* A page per user, a gated page that is the same for all, a page that says
\* nothing of sessions, and one whose gate is misplaced.  The write-through
\* uses the TTL of the page, a shorter one, a longer one or none.
MCRoutes == {Route("yes", "none", 1, 1), Route("no", "before", 2, 1),
             Route("unset", "none", 1, 2), Route("no", "after", 2, 0)}

\* The default TTL: entries do not expire.
MCDefaultRoutes == {Route("unset", "none", 0, 0)}

Symmetry == Permutations(Who) \cup Permutations(Request)
=============================================================================

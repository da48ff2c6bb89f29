---------------------------- MODULE MCDirectives ----------------------------
(***************************************************************************)
(* Two users and a caller without a session, and every way to declare a    *)
(* route.                                                                  *)
(***************************************************************************)
EXTENDS Directives, TLC

CONSTANTS u1, u2

MCUser == {u1, u2}

\* Without cache() there is no more to declare.
MCRoutes ==
  {r \in [gate : {"none", "valid", "recent"}, cached : BOOLEAN, vary : {"yes", "no", "unset"},
          private : BOOLEAN, no_store : BOOLEAN, ttl : {"none", "some"}, inside : BOOLEAN] :
     ~r.cached => r.vary = "unset" /\ ~r.private /\ ~r.no_store /\ r.ttl = "none"}

\* The users are interchangeable.
Symmetry == Permutations(User)
=============================================================================

-------------------------- MODULE SessionLifecycle --------------------------
(***************************************************************************)
(* What the session store promises about one identifier, with no Redis, no *)
(* commands and no interleaving: an identifier is issued once, is open for *)
(* at most Lifetime ticks from that moment, and once over is over for      *)
(* good.  An identifier that replaces another is issued only when the one  *)
(* it replaces no longer works (the rotation rule of                       *)
(* session_backend.py, SessionStore.rotate).                               *)
(*                                                                         *)
(* SessionStore implements this specification; see SessionStoreProofs.     *)
(***************************************************************************)
EXTENDS Integers

CONSTANTS Id,        \* session identifiers
          NoId,      \* "replaces nothing"
          Lifetime   \* SessionStore.absolute_seconds, in ticks

VARIABLES phase,     \* phase[i]: "unborn", "open" or "over"
          left,      \* left[i]: ticks an open identifier still has
          origin     \* origin[i]: the identifier that i replaced, or NoId

lifeVars == <<phase, left, origin>>

LifeInit ==
  /\ phase = [i \in Id |-> "unborn"]
  /\ left = [i \in Id |-> 0]
  /\ origin = [i \in Id |-> NoId]

\* A new identifier starts a full lifetime; the one it replaces is closed.
Issue(i, p) ==
  /\ phase[i] = "unborn"
  /\ p # NoId => phase[p] # "open"
  /\ phase' = [phase EXCEPT ![i] = "open"]
  /\ left' = [left EXCEPT ![i] = Lifetime]
  /\ origin' = [origin EXCEPT ![i] = p]

\* Revocation, rotation, idleness: an identifier may end early.
End(i) ==
  /\ phase[i] = "open"
  /\ phase' = [phase EXCEPT ![i] = "over"]
  /\ left' = [left EXCEPT ![i] = 0]
  /\ UNCHANGED origin

\* Time passes for every open identifier; those in S end, and every one whose
\* lifetime is used up is among them.
Pass(S) ==
  /\ \A i \in S : phase[i] = "open"
  /\ \A i \in Id : phase[i] = "open" /\ left[i] = 1 => i \in S
  /\ phase' = [i \in Id |-> IF i \in S THEN "over" ELSE phase[i]]
  /\ left' = [i \in Id |-> IF i \in S THEN 0
                           ELSE IF phase[i] = "open" THEN left[i] - 1
                           ELSE left[i]]
  /\ UNCHANGED origin

LifeNext ==
  \/ \E i \in Id, p \in Id \cup {NoId} : Issue(i, p)
  \/ \E i \in Id : End(i)
  \/ \E S \in SUBSET Id : Pass(S)

LifeSpec == LifeInit /\ [][LifeNext]_lifeVars
=============================================================================

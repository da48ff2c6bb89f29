---------------------------- MODULE FixedWindow ----------------------------
(***************************************************************************)
(* What a fixed-window limiter promises about its counters: a window opens *)
(* with the first unit admitted, lasts as long as the check that opened it *)
(* says, whatever is asked of it meanwhile, and never admits a request     *)
(* past that request's limit.                                              *)
(***************************************************************************)
EXTENDS Integers

CONSTANTS Counter,  \* counter keys
          Check,    \* the checks made: [key, limit, window, cost]
          Sec       \* ticks in a second; windows are in seconds

VARIABLES count,    \* count[k]: units admitted in the window of k
          left      \* left[k]: ticks the window still lasts; Closed: none is open

windowVars == <<count, left>>

Closed == -1

WindowInit ==
  /\ count = [k \in Counter |-> 0]
  /\ left = [k \in Counter |-> Closed]

Admit(c) ==
  /\ count[c.key] + c.cost <= c.limit
  /\ count' = [count EXCEPT ![c.key] = @ + c.cost]
  /\ left' = [left EXCEPT ![c.key] = IF @ = Closed THEN c.window * Sec ELSE @]

\* A window is cut short by an explicit reset only.
Cut(k) ==
  /\ count' = [count EXCEPT ![k] = 0]
  /\ left' = [left EXCEPT ![k] = Closed]

Elapse ==
  /\ count' = [k \in Counter |-> IF left[k] <= 0 THEN 0 ELSE count[k]]
  /\ left' = [k \in Counter |-> IF left[k] = Closed THEN Closed ELSE left[k] - 1]

WindowNext ==
  \/ \E c \in Check : Admit(c)
  \/ \E k \in Counter : Cut(k)
  \/ Elapse

WindowSpec == WindowInit /\ [][WindowNext]_windowVars
=============================================================================

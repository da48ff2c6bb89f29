-------------------------- MODULE RateLimitProofs --------------------------
(***************************************************************************)
(* The rate limiter, for any number of requests, counters and checks.      *)
(*                                                                         *)
(* The inductive invariant says of every request how the answer it holds   *)
(* relates to the counter it is about, while their window is open (here):  *)
(* the units it took lie within the counter and are no other's, and the    *)
(* TTL it read, or the wait it was told, reaches to the window's end.      *)
(***************************************************************************)
EXTENDS RateLimit, FiniteSetTheorems, TLAPS

\* The answer has been given and has not arrived.
Ran == {"increx_sent", "increx_ran", "lua_ran"}

\* A request that is at work is at a check of its plan.
AtCheck(r) == req[r].pc # "idle" => req[r].plan # << >> /\ req[r].at \in 1..Len(req[r].plan)

\* A counter exists exactly while something is counted, has an expiry, and is
\* within the limit of one of its checks.
CounterOK(k) ==
  /\ ttl[k] # NoTTL
  /\ val[k] = 0 <=> ttl[k] = Absent
  /\ val[k] > 0 => \E c \in Check : c.key = k /\ val[k] <= c.limit
  /\ admitted[k] \subseteq 1..val[k]

\* The request took units of a window that is still open.
Holds(r) == req[r].here /\ req[r].incr > 0

AnswerOK(r) ==
  LET q == req[r]
      k == Current(r).key
  IN
  /\ q.pc \in {"increx_sent", "increx_ran"} => server
  /\ q.incr > 0 => q.pc \in Ran
  /\ q.here => q.pc \in Ran \cup {"peek_pttl", "done"} /\ val[k] > 0
  /\ q.here /\ q.incr > 0 => q.incr <= q.new /\ q.new <= val[k]
  /\ q.here /\ q.incr > 0 => Units(q) \cap admitted[k] = {}
  /\ q.here /\ q.pc \in {"increx_ran", "lua_ran"} => q.pttl >= ttl[k]
  /\ q.here /\ q.pc = "done" => q.wait >= ttl[k]

\* No two requests hold the same unit.
Apart(r, s) ==
  Holds(r) /\ Holds(s) /\ Current(r).key = Current(s).key =>
    Units(req[r]) \cap Units(req[s]) = {}

\* What the headers show is the tightest of what was seen.
ShownOK(r) ==
  LET q == req[r] IN
  /\ q.seen = {} => q.shown = NoResult
  /\ q.seen # {} => /\ q.shown \in q.seen
                    /\ \A x \in q.seen : q.shown.allowed =>
                         x.allowed /\ q.shown.remaining <= x.remaining

IInv ==
  /\ TypeOK
  /\ \A r \in Request : AtCheck(r)
  /\ \A k \in Counter : CounterOK(k)
  /\ \A r \in Request : AnswerOK(r)
  /\ \A r, s \in Request : r # s => Apart(r, s)
  /\ \A r \in Request : ShownOK(r)
  /\ CapabilityTrue

-----------------------------------------------------------------------------
(***************************************************************************)
(* What the operators return                                               *)
(***************************************************************************)

\* The check a request is at is one of the declared ones.
LEMMA CurrentCheck ==
  ASSUME NEW r \in Request, TypeOK, AtCheck(r), req[r].pc # "idle"
  PROVE  Current(r) \in Check /\ ValidCheck(Current(r))
<1>1. req[r] \in Requests
  BY DEF TypeOK
<1>2. req[r].plan \in Seq(Check) /\ req[r].at \in 1..Len(req[r].plan)
  BY <1>1 DEF Requests, AtCheck
<1>3. QED BY <1>2, ChecksAssumption DEF Current

\* A fallback result is a result.
LEMMA DegradedIsResult ==
  ASSUME NEW c \in Check
  PROVE  Degraded(c) \in Results
BY ChecksAssumption DEF ValidCheck, Degraded, Result, Results

\* What is left is a natural number.
LEMMA RemainingIsNat ==
  ASSUME NEW c \in Check, NEW n \in Nat
  PROVE  Remaining(c, n) \in Nat
BY ChecksAssumption DEF ValidCheck, Remaining

\* The seconds a client is told cover the TTL they were computed from.
LEMMA ResetAfterCovers ==
  ASSUME NEW c \in Check, NEW p \in Int
  PROVE  ResetAfter(c, p) \in Nat /\ ResetAfter(c, p) * Sec \in Nat
         /\ p <= ResetAfter(c, p) * Sec
<1>1. c.window \in Nat \ {0} /\ Sec \in Nat \ {0}
  BY ChecksAssumption, SecAssumption DEF ValidCheck
<1>2. CASE p > 0
  <2> DEFINE d == (p + Sec - 1) \div Sec
  <2>1. p + Sec - 1 \in Nat
    BY <1>1, <1>2
  <2>2. d \in Nat /\ p + Sec - 1 = d * Sec + ((p + Sec - 1) % Sec)
        /\ (p + Sec - 1) % Sec \in 0..(Sec - 1)
    BY <2>1, <1>1
  <2> HIDE DEF d
  <2>3. d * Sec \in Nat
    BY <2>2, <1>1
  <2>4. p <= d * Sec
    BY <2>2, <2>3, <1>1
  <2>5. QED BY <2>2, <2>3, <2>4, <1>2 DEF ResetAfter, d
<1>3. CASE ~(p > 0)
  <2>1. c.window * Sec \in Nat
    BY <1>1
  <2>2. QED BY <2>1, <1>1, <1>3 DEF ResetAfter
<1>4. QED BY <1>2, <1>3

\* The fields of a request are of their types.
LEMMA Fields ==
  ASSUME TypeOK, NEW r \in Request
  PROVE  /\ req[r] \in Requests
         /\ req[r].plan \in Seq(Check) /\ req[r].at \in Nat /\ req[r].new \in Nat
         /\ req[r].incr \in Nat /\ req[r].pttl \in Int /\ req[r].here \in BOOLEAN
         /\ req[r].seen \in SUBSET Results /\ req[r].shown \in Results \cup {NoResult}
         /\ req[r].wait \in Int
<1>1. req[r] \in Requests
  BY DEF TypeOK
<1>2. QED BY <1>1 DEF Requests

\* Storing a result keeps the tightest.
LEMMA Stored ==
  ASSUME NEW q \in Requests, NEW x \in Results,
         q.seen = {} => q.shown = NoResult,
         q.seen # {} => /\ q.shown \in q.seen
                        /\ \A y \in q.seen : q.shown.allowed =>
                             y.allowed /\ q.shown.remaining <= y.remaining
  PROVE  LET p == _store_state(q, x) IN
         /\ p \in Requests
         /\ p = [q EXCEPT !.seen = p.seen, !.shown = p.shown]
         /\ p.seen # {}
         /\ p.shown \in p.seen
         /\ \A y \in p.seen : p.shown.allowed => y.allowed /\ p.shown.remaining <= y.remaining
<1> DEFINE p == _store_state(q, x)
<1>1. p.seen = q.seen \cup {x}
      /\ p.shown = IF q.shown # NoResult /\ ~_is_more_constraining(x, q.shown) THEN q.shown ELSE x
  BY DEF _store_state, Requests
<1>2. q.seen \in SUBSET Results /\ q.shown \in Results \cup {NoResult}
  BY DEF Requests
<1>3. p \in Requests
  BY <1>2 DEF _store_state, Requests
<1>4. p = [q EXCEPT !.seen = p.seen, !.shown = p.shown]
  BY DEF _store_state, Requests
<1>5. x # NoResult /\ \A y \in q.seen : y # NoResult
  BY <1>2 DEF NoResult, Result, Results
<1> HIDE DEF p
<1>6. CASE q.seen = {}
  <2>1. p.seen = {x} /\ p.shown = x
    BY <1>1, <1>6
  <2>2. QED BY <2>1, <1>3, <1>4 DEF Results, p
<1>7. CASE q.seen # {}
  <2>1. q.shown \in q.seen /\ q.shown # NoResult
    BY <1>5, <1>7
  <2>2. p.shown \in p.seen
    BY <1>1, <2>1
  <2>3. ASSUME NEW y \in p.seen, p.shown.allowed
        PROVE  y.allowed /\ p.shown.remaining <= y.remaining
    <3>1. y \in Results /\ q.shown \in Results
      BY <1>1, <1>2, <2>1
    <3>2. y = x \/ y \in q.seen
      BY <1>1
    <3>3. CASE _is_more_constraining(x, q.shown)
      BY <3>1, <3>2, <3>3, <1>1, <1>7, <2>3 DEF _is_more_constraining, Results
    <3>4. CASE ~_is_more_constraining(x, q.shown)
      BY <3>1, <3>2, <3>4, <1>1, <1>7, <2>1, <2>3 DEF _is_more_constraining, Results
    <3>5. QED BY <3>3, <3>4
  <2>4. QED BY <1>1, <1>3, <1>4, <2>2, <2>3 DEF p
<1>8. QED BY <1>6, <1>7

\* A concluded check leaves nothing pending; only a refusal is about a window
\* afterwards.
LEMMA Concluded ==
  ASSUME IInv, NEW r \in Request, req[r].pc # "idle",
         NEW q \in Requests, q.plan = req[r].plan, q.at = req[r].at,
         q.seen = req[r].seen, q.shown = req[r].shown,
         NEW x \in Results, NEW n \in Nat, n * Sec \in Nat,
         Conclude(r, q, x, n)
  PROVE  /\ req' = [req EXCEPT ![r] = req'[r]]
         /\ req'[r] \in Requests
         /\ AtCheck(r)'
         /\ ShownOK(r)'
         /\ req'[r].incr = 0 /\ req'[r].pc \in {"check", "done"}
         /\ req'[r].here => /\ q.here /\ ~x.allowed
                            /\ req'[r].pc = "done" /\ req'[r].wait = n * Sec
                            /\ Current(r)' = Current(r)
<1> DEFINE p == _store_state(q, x)
           stored == [p EXCEPT !.new = 0, !.incr = 0, !.pttl = Absent]
           next == IF x.allowed THEN After([stored EXCEPT !.here = FALSE])
                   ELSE [stored EXCEPT !.pc = "done", !.wait = n * Sec]
<1>1. ShownOK(r) /\ AtCheck(r) /\ TypeOK
  BY DEF IInv
<1>2. /\ p \in Requests
      /\ p = [q EXCEPT !.seen = p.seen, !.shown = p.shown]
      /\ p.seen # {}
      /\ p.shown \in p.seen
      /\ \A y \in p.seen : p.shown.allowed => y.allowed /\ p.shown.remaining <= y.remaining
  BY <1>1, Stored DEF ShownOK
<1>3. p.plan = req[r].plan /\ p.at = req[r].at /\ p.here = q.here
  BY <1>2 DEF Requests
<1>4. req' = [req EXCEPT ![r] = next]
  BY DEF Conclude
<1>5. req'[r] = next
  BY <1>4, <1>1 DEF TypeOK
<1> HIDE DEF p
<1> DEFINE P == p
<1>a. P \in Requests
  BY <1>2
<1> HIDE DEF P
<1>b. LET w == [P EXCEPT !.new = 0, !.incr = 0, !.pttl = Absent] IN
      /\ w \in Requests /\ w.plan = P.plan /\ w.at = P.at /\ w.here = P.here
      /\ w.incr = 0 /\ w.seen = P.seen /\ w.shown = P.shown
  <2>1. Absent \in Int /\ 0 \in Nat
    BY DEF Absent
  <2>2. [P EXCEPT !.new = 0, !.incr = 0, !.pttl = Absent] \in Requests
    BY <1>a, <2>1 DEF Requests
  <2>3. QED BY <1>a, <2>2 DEF Requests
<1>6. /\ stored \in Requests
      /\ stored.plan = req[r].plan /\ stored.at = req[r].at /\ stored.here = q.here
      /\ stored.incr = 0 /\ stored.seen = p.seen /\ stored.shown = p.shown
  BY <1>b, <1>3 DEF P
<1>c. /\ x.allowed => next = After([stored EXCEPT !.here = FALSE])
      /\ ~x.allowed => next = [stored EXCEPT !.pc = "done", !.wait = n * Sec]
  OBVIOUS
<1> HIDE DEF stored, next
<1>7. req[r].plan \in Seq(Check) /\ req[r].plan # << >> /\ req[r].at \in 1..Len(req[r].plan)
  BY <1>1, Fields DEF AtCheck
<1>8. CASE x.allowed
  <2>1. /\ next \in Requests /\ next.pc \in {"check", "done"} /\ next.incr = 0 /\ next.here = FALSE
        /\ next.seen = p.seen /\ next.shown = p.shown
        /\ next.plan = req[r].plan
        /\ next.at = IF req[r].at = Len(req[r].plan) THEN req[r].at ELSE req[r].at + 1
    <3> DEFINE w == [stored EXCEPT !.here = FALSE]
    <3>1. w \in Requests /\ w.plan = stored.plan /\ w.at = stored.at /\ w.incr = stored.incr
          /\ w.here = FALSE /\ w.seen = stored.seen /\ w.shown = stored.shown
      BY <1>6 DEF Requests
    <3>2. next = After(w)
      BY <1>8, <1>c
    <3> HIDE DEF w
    <3>3. CASE w.at = Len(w.plan)
      <4>1. After(w) = [w EXCEPT !.pc = "done"]
        BY <3>3 DEF After
      <4>2. After(w) \in Requests
        BY <3>1, <4>1 DEF Requests
      <4>3. /\ After(w).pc = "done" /\ After(w).incr = w.incr /\ After(w).here = w.here
            /\ After(w).seen = w.seen /\ After(w).shown = w.shown
            /\ After(w).plan = w.plan /\ After(w).at = w.at
        BY <3>1, <4>1 DEF Requests
      <4>4. QED BY <3>1, <3>2, <3>3, <4>2, <4>3, <1>6
    <3>4. CASE w.at # Len(w.plan)
      <4>1. After(w) = [w EXCEPT !.pc = "check", !.at = w.at + 1]
        BY <3>1, <3>4 DEF After, Requests
      <4>2. w.at + 1 \in Nat
        BY <3>1 DEF Requests
      <4>3. After(w) \in Requests
        BY <3>1, <4>1, <4>2 DEF Requests
      <4>4. /\ After(w).pc = "check" /\ After(w).incr = w.incr /\ After(w).here = w.here
            /\ After(w).seen = w.seen /\ After(w).shown = w.shown
            /\ After(w).plan = w.plan /\ After(w).at = w.at + 1
        BY <3>1, <4>1 DEF Requests
      <4>5. QED BY <3>1, <3>2, <3>4, <4>3, <4>4, <1>6
    <3>5. QED BY <3>3, <3>4
  <2>2. next.at \in 1..Len(next.plan)
    BY <2>1, <1>7
  <2>3. QED BY <1>2, <1>4, <1>5, <1>7, <2>1, <2>2 DEF AtCheck, ShownOK
<1>9. CASE ~x.allowed
  <2>1. /\ next \in Requests /\ next.pc = "done" /\ next.incr = 0
        /\ next.here = q.here /\ next.wait = n * Sec
        /\ next.seen = p.seen /\ next.shown = p.shown
        /\ next.plan = req[r].plan /\ next.at = req[r].at
    <3>1. next = [stored EXCEPT !.pc = "done", !.wait = n * Sec]
      BY <1>9, <1>c
    <3>2. n * Sec \in Int
      OBVIOUS
    <3>3. QED BY <3>1, <3>2, <1>6 DEF Requests
  <2>2. QED BY <1>2, <1>4, <1>5, <1>7, <1>9, <2>1 DEF AtCheck, ShownOK, Current
<1>10. QED BY <1>8, <1>9

-----------------------------------------------------------------------------
(***************************************************************************)
(* Steps                                                                   *)
(***************************************************************************)

\* A step of one request that leaves the counters alone keeps the invariant if
\* it keeps that request's part of it.
LEMMA OneRequest ==
  ASSUME IInv, NEW r \in Request,
         val' = val, ttl' = ttl, server' = server, admitted' = admitted,
         caps' \in Answers, CapabilityTrue',
         req' = [req EXCEPT ![r] = req'[r]], req'[r] \in Requests,
         AtCheck(r)', AnswerOK(r)', ShownOK(r)',
         Holds(r)' => Holds(r) /\ Current(r)' = Current(r)
                      /\ req'[r].new = req[r].new /\ req'[r].incr = req[r].incr
  PROVE  IInv'
<1>1. \A s \in Request : s # r => req'[s] = req[s]
  BY DEF IInv, TypeOK
<1>2. TypeOK'
  BY DEF IInv, TypeOK
<1>3. \A s \in Request : AtCheck(s)'
  BY <1>1 DEF IInv, AtCheck
<1>4. \A k \in Counter : CounterOK(k)'
  BY DEF IInv, CounterOK
<1>5. \A s \in Request : AnswerOK(s)'
  <2> TAKE s \in Request
  <2>1. CASE s = r
    BY <2>1
  <2>2. CASE s # r
    <3>1. req'[s] = req[s] /\ AnswerOK(s)
      BY <1>1, <2>2 DEF IInv
    <3>2. QED BY <3>1 DEF AnswerOK, Current, Units
  <2>3. QED BY <2>1, <2>2
<1>6. ASSUME NEW s \in Request, NEW t \in Request, s # t
      PROVE  Apart(s, t)'
  <2>1. Apart(s, t)
    BY <1>6 DEF IInv
  <2>2. ASSUME NEW u \in {s, t}, Holds(u)'
        PROVE  Holds(u) /\ Current(u)' = Current(u) /\ Units(req[u])' = Units(req[u])
    <3>1. CASE u = r
      BY <2>2, <3>1 DEF Units
    <3>2. CASE u # r
      BY <1>1, <1>6, <2>2, <3>2 DEF Holds, Current, Units
    <3>3. QED BY <3>1, <3>2
  <2>3. QED BY <2>1, <2>2 DEF Apart
<1>7. \A s \in Request : ShownOK(s)'
  BY <1>1 DEF IInv, ShownOK
<1>8. QED BY <1>2, <1>3, <1>4, <1>5, <1>6, <1>7 DEF IInv

\* A request outside a check starts one, moves within it, or ends it.
LEMMA LocalStep ==
  ASSUME IInv, NEW r \in Request,
         Arrive(r) \/ Bypass(r) \/ Execute(r) \/ Probe(r) \/ UnknownCommand(r) \/ Finish(r)
         \/ Peek(r)
  PROVE  IInv'
<1>1. /\ TypeOK /\ AtCheck(r) /\ AnswerOK(r) /\ ShownOK(r) /\ CapabilityTrue
      /\ req[r] \in Requests
  BY Fields DEF IInv
<1>2. << >> \in Seq(Check) /\ 0 \in Nat /\ Absent \in Int /\ 0 \in Int /\ {} \in SUBSET Results
      /\ NoResult \in Results \cup {NoResult}
  BY DEF Absent
<1>3. Idle \in Requests
  BY <1>2 DEF Idle, Requests
<1>4. CASE Arrive(r)
  <2>1. PICK p \in Plans : req' = [req EXCEPT ![r] = [Idle EXCEPT !.pc = "check", !.plan = p, !.at = 1]]
    BY <1>4 DEF Arrive
  <2>2. p \in Seq(Check) /\ p # << >>
    BY PlansAssumption
  <2>3. req'[r] = [Idle EXCEPT !.pc = "check", !.plan = p, !.at = 1]
    BY <2>1, <1>1 DEF TypeOK
  <2>4. req'[r] \in Requests /\ req'[r].pc = "check" /\ req'[r].plan = p /\ req'[r].at = 1
        /\ req'[r].here = FALSE /\ req'[r].incr = 0 /\ req'[r].seen = {} /\ req'[r].shown = NoResult
    <3>1. req'[r] \in Requests
      BY <2>2, <2>3, <1>3, 1 \in Nat DEF Requests
    <3>2. /\ req'[r].pc = "check" /\ req'[r].plan = p /\ req'[r].at = 1
          /\ req'[r].here = Idle.here /\ req'[r].incr = Idle.incr
          /\ req'[r].seen = Idle.seen /\ req'[r].shown = Idle.shown
      BY <2>3, <1>3 DEF Requests
    <3>3. QED BY <3>1, <3>2 DEF Idle
  <2>5. AtCheck(r)'
    BY <2>2, <2>4 DEF AtCheck
  <2>6. AnswerOK(r)' /\ ShownOK(r)' /\ ~Holds(r)'
    BY <2>4 DEF AnswerOK, ShownOK, Holds, Ran
  <2>7. QED BY <1>1, <1>4, <2>1, <2>3, <2>4, <2>5, <2>6, OneRequest DEF Arrive, CapabilityTrue, Truth, TypeOK
<1>5. CASE Peek(r)
  <2>1. PICK c \in Check : req' = [req EXCEPT ![r] = [Idle EXCEPT !.pc = "get", !.plan = <<c>>, !.at = 1]]
    BY <1>5 DEF Peek
  <2>2. <<c>> \in Seq(Check) /\ <<c>> # << >> /\ Len(<<c>>) = 1
    OBVIOUS
  <2>3. req'[r] = [Idle EXCEPT !.pc = "get", !.plan = <<c>>, !.at = 1]
    BY <2>1, <1>1 DEF TypeOK
  <2>4. req'[r] \in Requests /\ req'[r].pc = "get" /\ req'[r].plan = <<c>> /\ req'[r].at = 1
        /\ req'[r].here = FALSE /\ req'[r].incr = 0 /\ req'[r].seen = {} /\ req'[r].shown = NoResult
    <3>1. req'[r] \in Requests
      BY <2>2, <2>3, <1>3, 1 \in Nat DEF Requests
    <3>2. /\ req'[r].pc = "get" /\ req'[r].plan = <<c>> /\ req'[r].at = 1
          /\ req'[r].here = Idle.here /\ req'[r].incr = Idle.incr
          /\ req'[r].seen = Idle.seen /\ req'[r].shown = Idle.shown
      BY <2>3, <1>3 DEF Requests
    <3>3. QED BY <3>1, <3>2 DEF Idle
  <2>5. AtCheck(r)'
    BY <2>2, <2>4 DEF AtCheck
  <2>6. AnswerOK(r)' /\ ShownOK(r)' /\ ~Holds(r)'
    BY <2>4 DEF AnswerOK, ShownOK, Holds, Ran
  <2>7. QED BY <1>1, <1>5, <2>1, <2>3, <2>4, <2>5, <2>6, OneRequest DEF Peek, CapabilityTrue, Truth, TypeOK
<1>6. CASE Finish(r)
  <2>1. req' = [req EXCEPT ![r] = Idle] /\ req'[r] = Idle
    BY <1>1, <1>6 DEF Finish, TypeOK
  <2>2. AtCheck(r)' /\ AnswerOK(r)' /\ ShownOK(r)' /\ ~Holds(r)'
    BY <2>1 DEF AtCheck, AnswerOK, ShownOK, Holds, Idle, Ran
  <2>3. QED BY <1>1, <1>3, <1>6, <2>1, <2>2, OneRequest DEF Finish, CapabilityTrue, Truth, TypeOK
<1>7. CASE Bypass(r)
  <2>1. req[r].pc = "check" /\ req' = [req EXCEPT ![r] = After(req[r])] /\ req'[r] = After(req[r])
    BY <1>1, <1>7 DEF Bypass, TypeOK
  <2>2. req[r].plan \in Seq(Check) /\ req[r].plan # << >> /\ req[r].at \in 1..Len(req[r].plan)
    BY <1>1, <2>1, Fields DEF AtCheck
  <2>3. req[r].incr = 0 /\ req[r].here = FALSE
    BY <1>1, <2>1, Fields DEF AnswerOK, Ran
  <2>4. req'[r] \in Requests /\ req'[r].pc \in {"check", "done"} /\ req'[r].plan = req[r].plan
        /\ req'[r].at = (IF req[r].at = Len(req[r].plan) THEN req[r].at ELSE req[r].at + 1)
        /\ req'[r].here = FALSE /\ req'[r].incr = 0
        /\ req'[r].seen = req[r].seen /\ req'[r].shown = req[r].shown
    <3>1. CASE req[r].at = Len(req[r].plan)
      BY <1>1, <2>1, <2>3, <3>1 DEF After, Requests
    <3>2. CASE req[r].at # Len(req[r].plan)
      <4>1. req[r].at + 1 \in Nat
        BY <2>2
      <4>2. req'[r] = [req[r] EXCEPT !.pc = "check", !.at = @ + 1]
        BY <2>1, <3>2 DEF After
      <4>3. req'[r] \in Requests
        BY <1>1, <4>1, <4>2 DEF Requests
      <4>4. QED BY <1>1, <2>3, <3>2, <4>2, <4>3 DEF Requests
    <3>3. QED BY <3>1, <3>2
  <2>5. AtCheck(r)'
    BY <2>2, <2>4 DEF AtCheck
  <2>6. AnswerOK(r)' /\ ShownOK(r)' /\ ~Holds(r)'
    BY <1>1, <2>4 DEF AnswerOK, ShownOK, Holds, Ran
  <2>7. QED BY <1>1, <1>7, <2>1, <2>4, <2>5, <2>6, OneRequest DEF Bypass, CapabilityTrue, Truth, TypeOK
<1>8. CASE Execute(r) \/ Probe(r) \/ UnknownCommand(r)
  <2>1. PICK x \in {"probe", "increx", "lua"} : req' = [req EXCEPT ![r].pc = x]
    BY <1>1, <1>8 DEF Execute, Probe, UnknownCommand, TypeOK, Answers
  <2>2. req[r].pc \in {"check", "probe", "increx"}
    BY <1>8 DEF Execute, Probe, UnknownCommand
  <2>3. req'[r] = [req[r] EXCEPT !.pc = x] /\ req' = [req EXCEPT ![r] = req'[r]]
    BY <1>1, <2>1 DEF TypeOK
  <2>4. req[r].incr = 0 /\ req[r].here = FALSE
    BY <1>1, <2>2, Fields DEF AnswerOK, Ran
  <2>5. req'[r] \in Requests /\ req'[r].pc = x /\ req'[r].plan = req[r].plan /\ req'[r].at = req[r].at
        /\ req'[r].here = FALSE /\ req'[r].incr = 0
        /\ req'[r].seen = req[r].seen /\ req'[r].shown = req[r].shown
    BY <1>1, <2>3, <2>4 DEF Requests
  <2>6. AtCheck(r)' /\ AnswerOK(r)' /\ ShownOK(r)' /\ ~Holds(r)'
    BY <1>1, <2>2, <2>5 DEF AtCheck, AnswerOK, ShownOK, Holds, Ran
  <2>7. val' = val /\ ttl' = ttl /\ server' = server /\ admitted' = admitted
    BY <1>8 DEF Execute, Probe, UnknownCommand
  <2>8. caps' \in Answers /\ CapabilityTrue'
    BY <1>1, <1>8, <2>7 DEF Execute, Probe, UnknownCommand, CapabilityTrue, Truth, TypeOK, Answers
  <2>9. QED BY <2>3, <2>5, <2>6, <2>7, <2>8, OneRequest
<1>9. QED BY <1>4, <1>5, <1>6, <1>7, <1>8

\* A check that could not be made is concluded with the fallback result.
LEMMA FallbackStep ==
  ASSUME IInv, NEW r \in Request, Unidentified(r) \/ Error(r)
  PROVE  IInv'
<1>1. /\ TypeOK /\ AtCheck(r) /\ ShownOK(r) /\ CapabilityTrue /\ AnswerOK(r) /\ req[r] \in Requests
  BY Fields DEF IInv
<1>2. req[r].pc # "idle"
  BY DEF Unidentified, Error
<1> DEFINE c == Current(r)
<1>3. c \in Check /\ ValidCheck(c)
  BY <1>1, <1>2, CurrentCheck
<1>4. Degraded(c) \in Results
  BY <1>3, DegradedIsResult
<1>5. c.window \in Nat /\ c.window * Sec \in Nat
  BY <1>3, SecAssumption DEF ValidCheck
<1> HIDE DEF c
<1>6. PICK q \in Requests :
        /\ q.plan = req[r].plan /\ q.at = req[r].at /\ q.seen = req[r].seen
        /\ q.shown = req[r].shown /\ q.here = FALSE
        /\ Conclude(r, q, Degraded(c), c.window)
  <2>1. CASE Unidentified(r)
    <3>1. req[r].here = FALSE
      BY <1>1, <2>1, Fields DEF AnswerOK, Ran, Unidentified
    <3>2. QED BY <1>1, <2>1, <3>1 DEF Unidentified, c
  <2>2. CASE Error(r)
    <3> DEFINE q == [req[r] EXCEPT !.here = FALSE]
    <3>1. q \in Requests /\ q.plan = req[r].plan /\ q.at = req[r].at /\ q.seen = req[r].seen
          /\ q.shown = req[r].shown /\ q.here = FALSE
      BY <1>1 DEF Requests
    <3>2. Conclude(r, q, Degraded(c), c.window)
      BY <2>2 DEF Error, c
    <3>3. QED BY <3>1, <3>2
  <2>3. QED BY <2>1, <2>2
<1>7. /\ req' = [req EXCEPT ![r] = req'[r]]
      /\ req'[r] \in Requests /\ AtCheck(r)' /\ ShownOK(r)'
      /\ req'[r].incr = 0 /\ req'[r].pc \in {"check", "done"} /\ ~req'[r].here
  BY <1>2, <1>4, <1>5, <1>6, Concluded
<1>8. AnswerOK(r)' /\ ~Holds(r)'
  BY <1>7 DEF AnswerOK, Holds
<1>9. /\ val' = val /\ ttl' = ttl /\ server' = server /\ admitted' = admitted /\ caps' = caps
  BY DEF Unidentified, Error
<1>10. QED BY <1>1, <1>7, <1>8, <1>9, OneRequest DEF CapabilityTrue, Truth, TypeOK

\* An answer admits what the request took of a window that is still open.
LEMMA AnswerStep ==
  ASSUME IInv, NEW r \in Request, Answer(r)
  PROVE  IInv'
<1> DEFINE q == req[r]
           c == Current(r)
           x == Result(q.incr # 0, Remaining(c, q.new), FALSE)
           n == ResetAfter(c, q.pttl)
<1>1. /\ TypeOK /\ AtCheck(r) /\ ShownOK(r) /\ CapabilityTrue /\ AnswerOK(r) /\ q \in Requests
      /\ q.new \in Nat /\ q.incr \in Nat /\ q.pttl \in Int /\ q.here \in BOOLEAN
  BY Fields DEF IInv
<1>2. q.pc \in {"increx_ran", "lua_ran"} /\ Conclude(r, q, x, n)
  BY DEF Answer
<1>3. c \in Check /\ ValidCheck(c) /\ c.key \in Counter
  BY <1>1, <1>2, CurrentCheck DEF ValidCheck
<1>4. x \in Results
  BY <1>1, <1>3, RemainingIsNat DEF Result, Results
<1>5. n \in Nat /\ n * Sec \in Nat /\ q.pttl <= n * Sec
  BY <1>1, <1>3, ResetAfterCovers
<1>6. /\ val' = val /\ ttl' = ttl /\ server' = server
      /\ caps' = IF q.pc = "increx_ran" THEN "yes" ELSE caps
      /\ admitted' = IF q.here THEN [admitted EXCEPT ![c.key] = @ \cup Units(q)] ELSE admitted
  BY DEF Answer
<1>x. x.allowed = (q.incr # 0)
  BY DEF Result
<1> HIDE DEF x, n
<1>7. /\ req' = [req EXCEPT ![r] = req'[r]]
      /\ req'[r] \in Requests
      /\ AtCheck(r)' /\ ShownOK(r)'
      /\ req'[r].incr = 0 /\ req'[r].pc \in {"check", "done"}
      /\ req'[r].here => /\ q.here /\ ~x.allowed
                         /\ req'[r].pc = "done" /\ req'[r].wait = n * Sec
                         /\ Current(r)' = Current(r)
  BY <1>1, <1>2, <1>4, <1>5, Concluded
<1>8. \A s \in Request : s # r => req'[s] = req[s] /\ Current(s)' = Current(s)
  BY <1>7 DEF IInv, TypeOK, Current
<1>9. q.here => q.incr = 0 \/ (q.incr <= q.new /\ q.new <= val[c.key])
  BY <1>1 DEF AnswerOK
<1>10. q.here => Units(q) \subseteq 1..val[c.key] /\ Units(q) \subseteq Nat \ {0}
  <2>1. CASE q.incr = 0
    BY <1>1, <2>1 DEF Units
  <2>2. CASE q.incr # 0
    BY <1>1, <1>3, <1>9, <2>2 DEF Units, TypeOK
  <2>3. QED BY <2>1, <2>2
<1>11. TypeOK'
  BY <1>1, <1>3, <1>6, <1>7, <1>10 DEF TypeOK, Answers
<1>12. \A s \in Request : AtCheck(s)' /\ ShownOK(s)'
  BY <1>7, <1>8 DEF IInv, AtCheck, ShownOK
<1>13. \A k \in Counter : CounterOK(k)'
  BY <1>1, <1>3, <1>6, <1>10 DEF IInv, CounterOK, TypeOK
<1>14. AnswerOK(r)' /\ ~Holds(r)'
  <2>1. ~Holds(r)'
    BY <1>7 DEF Holds
  <2>2. ASSUME req'[r].here PROVE req'[r].wait >= ttl'[Current(r)'.key] /\ val'[Current(r)'.key] > 0
    <3>1. q.here /\ req'[r].wait = n * Sec /\ Current(r)' = c
      BY <1>7, <2>2
    <3>2. q.pttl >= ttl[c.key] /\ val[c.key] > 0
      BY <1>1, <1>2, <3>1 DEF AnswerOK
    <3>3. ttl[c.key] \in Int
      BY <1>1, <1>3 DEF TypeOK
    <3>4. QED BY <1>1, <1>5, <1>6, <3>1, <3>2, <3>3
  <2>3. QED BY <1>7, <2>1, <2>2 DEF AnswerOK
<1>15. ASSUME NEW s \in Request, s # r
       PROVE  AnswerOK(s)'
  <2>1. AnswerOK(s) /\ Apart(r, s)
    BY <1>15 DEF IInv
  <2>2. req'[s] = req[s] /\ Current(s)' = Current(s)
    BY <1>8, <1>15
  <2>3. ASSUME Holds(s)
        PROVE  Units(req[s]) \cap admitted'[Current(s).key] = {}
    <3>1. Units(req[s]) \cap admitted[Current(s).key] = {}
      BY <2>1, <2>3 DEF AnswerOK, Holds
    <3>2. CASE q.here /\ Current(s).key = c.key
      <4>1. Units(q) \cap Units(req[s]) = {}
        <5>1. CASE q.incr = 0
          BY <1>1, <5>1 DEF Units
        <5>2. CASE q.incr # 0
          BY <1>1, <2>1, <2>3, <3>2, <5>2 DEF Apart, Holds
        <5>3. QED BY <5>1, <5>2
      <4>2. admitted'[c.key] = admitted[c.key] \cup Units(q)
        BY <1>1, <1>3, <1>6, <3>2 DEF TypeOK
      <4>3. QED BY <3>1, <3>2, <4>1, <4>2
    <3>3. CASE ~(q.here /\ Current(s).key = c.key)
      BY <1>1, <1>6, <3>1, <3>3 DEF TypeOK
    <3>4. QED BY <3>2, <3>3
  <2>4. QED BY <1>6, <2>1, <2>2, <2>3 DEF AnswerOK, Holds, Units
<1>16. ASSUME NEW s \in Request, NEW t \in Request, s # t
       PROVE  Apart(s, t)'
  <2>1. Apart(s, t)
    BY <1>16 DEF IInv
  <2>2. CASE s = r \/ t = r
    BY <1>14, <2>2 DEF Apart
  <2>3. CASE s # r /\ t # r
    BY <1>8, <2>1, <2>3 DEF Apart, Holds, Units
  <2>4. QED BY <2>2, <2>3
<1>17. CapabilityTrue'
  BY <1>1, <1>2, <1>6 DEF CapabilityTrue, Truth, AnswerOK
<1>18. QED BY <1>11, <1>12, <1>13, <1>14, <1>15, <1>16, <1>17 DEF IInv

\* PTTL after INCREX, and the two trips of peek, read a counter: what they read
\* of a window that is still open reaches to its end.
LEMMA ReadStep ==
  ASSUME IInv, NEW r \in Request, SendPttl(r) \/ PeekGet(r) \/ PeekPttl(r)
  PROVE  IInv'
<1> DEFINE q == req[r]
           c == Current(r)
<1>1. /\ TypeOK /\ AtCheck(r) /\ ShownOK(r) /\ CapabilityTrue /\ AnswerOK(r) /\ q \in Requests
      /\ q.plan \in Seq(Check) /\ q.at \in Nat /\ q.new \in Nat /\ q.here \in BOOLEAN
      /\ q.incr \in Nat
  BY Fields DEF IInv
<1>2. q.pc \in {"increx_sent", "get", "peek_pttl"}
  BY DEF SendPttl, PeekGet, PeekPttl
<1>3. c \in Check /\ ValidCheck(c) /\ c.key \in Counter
  BY <1>1, <1>2, CurrentCheck DEF ValidCheck
<1>4. val[c.key] \in Nat /\ ttl[c.key] \in Int
  BY <1>1, <1>3 DEF TypeOK
<1>5. /\ val' = val /\ ttl' = ttl /\ server' = server /\ admitted' = admitted /\ caps' = caps
  BY DEF SendPttl, PeekGet, PeekPttl
<1>6. CASE SendPttl(r)
  <2>1. req' = [req EXCEPT ![r] = [q EXCEPT !.pc = "increx_ran", !.pttl = ttl[c.key]]]
    BY <1>6 DEF SendPttl
  <2>2. req'[r] = [q EXCEPT !.pc = "increx_ran", !.pttl = ttl[c.key]]
    BY <1>1, <2>1 DEF TypeOK
  <2>3. req'[r] \in Requests
    BY <1>1, <1>4, <2>2 DEF Requests
  <2>4. /\ req'[r].pc = "increx_ran" /\ req'[r].pttl = ttl[c.key] /\ req'[r].plan = q.plan
        /\ req'[r].at = q.at /\ req'[r].new = q.new /\ req'[r].incr = q.incr
        /\ req'[r].here = q.here /\ req'[r].seen = q.seen /\ req'[r].shown = q.shown
    BY <1>1, <2>2 DEF Requests
  <2>5. Current(r)' = c /\ q.pc = "increx_sent"
    BY <1>6, <2>4 DEF Current, SendPttl
  <2>6. AtCheck(r)' /\ ShownOK(r)' /\ (Holds(r)' => Holds(r))
    BY <1>1, <2>4, <2>5 DEF AtCheck, ShownOK, Holds
  <2>7. AnswerOK(r)'
    BY <1>1, <1>4, <1>5, <2>4, <2>5 DEF AnswerOK, Ran, Units
  <2>8. QED BY <1>1, <1>5, <2>1, <2>2, <2>3, <2>4, <2>5, <2>6, <2>7, OneRequest DEF CapabilityTrue, Truth, TypeOK
<1>7. CASE PeekGet(r)
  <2>1. req' = [req EXCEPT ![r] = [q EXCEPT !.pc = "peek_pttl", !.new = val[c.key], !.here = (val[c.key] > 0)]]
    BY <1>7 DEF PeekGet
  <2>2. req'[r] = [q EXCEPT !.pc = "peek_pttl", !.new = val[c.key], !.here = (val[c.key] > 0)]
    BY <1>1, <2>1 DEF TypeOK
  <2>3. req'[r] \in Requests
    <3>1. (val[c.key] > 0) \in BOOLEAN
      OBVIOUS
    <3>2. QED BY <1>1, <1>4, <2>2, <3>1 DEF Requests
  <2>4. /\ req'[r].pc = "peek_pttl" /\ req'[r].plan = q.plan /\ req'[r].at = q.at
        /\ req'[r].incr = q.incr /\ req'[r].here = (val[c.key] > 0)
        /\ req'[r].seen = q.seen /\ req'[r].shown = q.shown
    BY <1>1, <2>2 DEF Requests
  <2>5. Current(r)' = c /\ q.pc = "get" /\ q.incr = 0
    <3>1. Current(r)' = c
      BY <2>4 DEF Current
    <3>2. q.pc = "get"
      BY <1>7 DEF PeekGet
    <3>3. QED BY <1>1, <3>1, <3>2 DEF AnswerOK, Ran
  <2>6. AtCheck(r)' /\ ShownOK(r)' /\ ~Holds(r)'
    BY <1>1, <2>4, <2>5 DEF AtCheck, ShownOK, Holds
  <2>7. AnswerOK(r)'
    BY <1>1, <1>4, <1>5, <2>4, <2>5 DEF AnswerOK, Ran
  <2>8. QED BY <1>1, <1>5, <2>1, <2>2, <2>3, <2>6, <2>7, OneRequest DEF CapabilityTrue, Truth, TypeOK
<1>8. CASE PeekPttl(r)
  <2> DEFINE full == q.new >= c.limit
             n == ResetAfter(c, ttl[c.key]) * Sec
             w == IF full THEN n ELSE 0
             h == full /\ q.here
  <2>1. n \in Nat /\ ttl[c.key] <= n
    BY <1>3, <1>4, ResetAfterCovers
  <2>2. req' = [req EXCEPT ![r] = [Idle EXCEPT !.pc = "done", !.plan = q.plan, !.at = q.at,
                                               !.here = h, !.wait = w]]
    BY <1>8 DEF PeekPttl
  <2> HIDE DEF n
  <2>3. req'[r] = [Idle EXCEPT !.pc = "done", !.plan = q.plan, !.at = q.at, !.here = h, !.wait = w]
    BY <1>1, <2>2 DEF TypeOK
  <2>4. << >> \in Seq(Check) /\ 0 \in Nat /\ Absent \in Int /\ 0 \in Int /\ {} \in SUBSET Results
        /\ NoResult \in Results \cup {NoResult} /\ w \in Int /\ h \in BOOLEAN
    BY <1>1, <2>1 DEF Absent
  <2>5. Idle \in Requests
    BY <2>4 DEF Idle, Requests
  <2>6. req'[r] \in Requests
    BY <1>1, <2>3, <2>4, <2>5 DEF Requests
  <2>7. /\ req'[r].pc = "done" /\ req'[r].plan = q.plan /\ req'[r].at = q.at
        /\ req'[r].here = h /\ req'[r].wait = w /\ req'[r].incr = Idle.incr
        /\ req'[r].seen = Idle.seen /\ req'[r].shown = Idle.shown
    BY <2>3, <2>5 DEF Requests
  <2>8. Current(r)' = c /\ req'[r].incr = 0 /\ req'[r].seen = {} /\ req'[r].shown = NoResult
    BY <2>7 DEF Current, Idle
  <2>9. AtCheck(r)' /\ ShownOK(r)' /\ ~Holds(r)'
    BY <1>1, <1>2, <2>7, <2>8 DEF AtCheck, ShownOK, Holds
  <2>10. AnswerOK(r)'
    <3>1. q.here => val[c.key] > 0
      BY <1>1 DEF AnswerOK
    <3>2. req'[r].here => q.here /\ req'[r].wait = n
      BY <2>7
    <3>3. QED BY <1>4, <1>5, <2>1, <2>7, <2>8, <3>1, <3>2 DEF AnswerOK, Ran
  <2>11. QED BY <1>1, <1>5, <2>2, <2>3, <2>6, <2>9, <2>10, OneRequest DEF CapabilityTrue, Truth, TypeOK
<1>9. QED BY <1>6, <1>7, <1>8

\* A peek that could not read its counter tells nothing of a window.
LEMMA PeekErrorStep ==
  ASSUME IInv, NEW r \in Request, PeekError(r)
  PROVE  IInv'
<1> DEFINE q == req[r]
           c == Current(r)
<1>1. /\ TypeOK /\ AtCheck(r) /\ q \in Requests /\ q.plan \in Seq(Check) /\ q.at \in Nat
      /\ CapabilityTrue
  BY Fields DEF IInv
<1>2. q.pc \in {"get", "peek_pttl"}
  BY DEF PeekError
<1>3. c \in Check /\ ValidCheck(c)
  BY <1>1, <1>2, CurrentCheck
<1>4. c.window * Sec \in Int
  BY <1>3, SecAssumption DEF ValidCheck
<1>5. val' = val /\ ttl' = ttl /\ server' = server /\ admitted' = admitted /\ caps' = caps
  BY DEF PeekError
<1>6. PICK w \in {0, c.window * Sec} :
        req' = [req EXCEPT ![r] = [Idle EXCEPT !.pc = "done", !.plan = q.plan, !.at = q.at, !.wait = w]]
  BY DEF PeekError
<1>7. PICK done : done = [Idle EXCEPT !.pc = "done", !.plan = q.plan, !.at = q.at, !.wait = w]
  OBVIOUS
<1>8. << >> \in Seq(Check) /\ 0 \in Nat /\ Absent \in Int /\ 0 \in Int /\ {} \in SUBSET Results
      /\ NoResult \in Results \cup {NoResult} /\ w \in Int
  BY <1>4 DEF Absent
<1>9. Idle \in Requests
  BY <1>8 DEF Idle, Requests
<1>10. done \in Requests
  BY <1>1, <1>7, <1>8, <1>9 DEF Requests
<1>11. /\ done.pc = "done" /\ done.plan = q.plan /\ done.at = q.at /\ done.here = Idle.here
       /\ done.incr = Idle.incr /\ done.seen = Idle.seen /\ done.shown = Idle.shown
  BY <1>7, <1>9 DEF Requests
<1>12. ~done.here /\ done.incr = 0 /\ done.seen = {} /\ done.shown = NoResult
  BY <1>11 DEF Idle
<1>13. req' = [req EXCEPT ![r] = done] /\ req'[r] = done
  BY <1>1, <1>6, <1>7 DEF TypeOK
<1>14. AtCheck(r)' /\ ShownOK(r)' /\ ~Holds(r)' /\ AnswerOK(r)'
  BY <1>1, <1>2, <1>11, <1>12, <1>13 DEF AtCheck, ShownOK, Holds, AnswerOK, Ran
<1>15. QED BY <1>1, <1>5, <1>10, <1>13, <1>14, OneRequest DEF CapabilityTrue, Truth, TypeOK, IInv

\* INCREX and the script have one effect on a counter: a hit that fits is
\* counted, and opens a window if none is open.
LEMMA CounterStep ==
  ASSUME TypeOK, NEW c \in Check, CounterOK(c.key), Increx(c) \/ Script(c)
  PROVE  /\ Fits(c) => /\ val' = [val EXCEPT ![c.key] = @ + c.cost]
                       /\ ttl' = [ttl EXCEPT ![c.key] = IF @ = Absent THEN c.window * Sec ELSE @]
         /\ ~Fits(c) => UNCHANGED <<val, ttl>>
<1>1. c.key \in Counter /\ c.cost \in Nat \ {0} /\ c.window * Sec \in Nat
  BY ChecksAssumption, SecAssumption DEF ValidCheck
<1>2. val[c.key] \in Nat /\ ttl[c.key] \in Int /\ ttl[c.key] >= Absent
  BY <1>1 DEF TypeOK
<1>3. ttl[c.key] # Absent <=> ttl[c.key] >= 0
  BY <1>2 DEF CounterOK, Absent, NoTTL
<1>4. val[c.key] + c.cost = c.cost <=> ttl[c.key] = Absent
  BY <1>1, <1>2 DEF CounterOK
<1>5. CASE Increx(c)
  BY <1>3, <1>5 DEF Increx
<1>6. CASE Script(c)
  BY <1>4, <1>6 DEF Script
<1>7. QED BY <1>5, <1>6

\* A hit takes the next units of the window, which are nobody's.
LEMMA HitStep ==
  ASSUME IInv, NEW r \in Request, SendIncrex(r) \/ SendScript(r)
  PROVE  IInv'
<1> DEFINE q == req[r]
           c == Current(r)
           k == c.key
           took == IF Fits(c) THEN c.cost ELSE 0
<1>1. /\ TypeOK /\ AtCheck(r) /\ ShownOK(r) /\ CapabilityTrue /\ AnswerOK(r) /\ q \in Requests
  BY Fields DEF IInv
<1>2. q.pc \in {"increx", "lua"}
  BY DEF SendIncrex, SendScript
<1>3. c \in Check /\ ValidCheck(c) /\ k \in Counter
  BY <1>1, <1>2, CurrentCheck DEF ValidCheck
<1>4. c.cost \in Nat \ {0} /\ c.limit \in Nat /\ c.window * Sec \in Nat
  BY <1>3, SecAssumption DEF ValidCheck
<1>5. val[k] \in Nat /\ ttl[k] \in Int /\ ttl[k] >= Absent /\ CounterOK(k)
  BY <1>1, <1>3 DEF TypeOK, IInv
<1>6. /\ Fits(c) => /\ val' = [val EXCEPT ![k] = @ + c.cost]
                    /\ ttl' = [ttl EXCEPT ![k] = IF @ = Absent THEN c.window * Sec ELSE @]
      /\ ~Fits(c) => UNCHANGED <<val, ttl>>
  BY <1>1, <1>3, <1>5, CounterStep DEF SendIncrex, SendScript
<1>7. server' = server /\ admitted' = admitted /\ caps' = caps
  BY DEF SendIncrex, SendScript
<1>8. took \in Nat /\ (took > 0 <=> Fits(c)) /\ (Fits(c) => val[k] + c.cost <= c.limit)
  BY <1>4 DEF Fits
<1>9. val' \in [Counter -> Nat] /\ val'[k] = val[k] + took
      /\ \A j \in Counter : j # k => val'[j] = val[j]
  BY <1>1, <1>3, <1>4, <1>6, <1>8 DEF TypeOK
<1>10. /\ ttl' \in [Counter -> Int]
       /\ ttl'[k] = IF Fits(c) /\ ttl[k] = Absent THEN c.window * Sec ELSE ttl[k]
       /\ \A j \in Counter : j # k => ttl'[j] = ttl[j]
  BY <1>1, <1>3, <1>4, <1>5, <1>6 DEF TypeOK
<1> HIDE DEF took
<1>11. /\ req' = [req EXCEPT ![r] = req'[r]] /\ req'[r] \in Requests
       /\ req'[r].plan = q.plan /\ req'[r].at = q.at /\ req'[r].seen = q.seen /\ req'[r].shown = q.shown
       /\ req'[r].new = val'[k] /\ req'[r].incr = took /\ req'[r].here = (val'[k] > 0)
       /\ req'[r].pc \in {"increx_sent", "lua_ran"}
       /\ req'[r].pc = "increx_sent" => server
       /\ req'[r].pc = "lua_ran" => req'[r].pttl = ttl'[k]
  <2>1. val'[k] \in Nat /\ ttl'[k] \in Int /\ took \in Nat /\ (val'[k] > 0) \in BOOLEAN
    BY <1>3, <1>8, <1>9, <1>10
  <2>2. CASE SendIncrex(r)
    <3>1. req' = [req EXCEPT ![r] = [q EXCEPT !.pc = "increx_sent", !.new = val'[k], !.incr = took,
                                              !.here = (val'[k] > 0)]]
      BY <2>2 DEF SendIncrex, took
    <3>2. req'[r] = [q EXCEPT !.pc = "increx_sent", !.new = val'[k], !.incr = took, !.here = (val'[k] > 0)]
      BY <1>1, <3>1 DEF TypeOK
    <3>3. req'[r] \in Requests
      BY <1>1, <2>1, <3>2 DEF Requests
    <3>4. QED BY <1>1, <2>2, <3>1, <3>2, <3>3 DEF Requests, SendIncrex
  <2>3. CASE SendScript(r)
    <3>1. req' = [req EXCEPT ![r] = [q EXCEPT !.pc = "lua_ran", !.new = val'[k], !.incr = took,
                                              !.pttl = ttl'[k], !.here = (val'[k] > 0)]]
      BY <2>3 DEF SendScript, took
    <3>2. req'[r] = [q EXCEPT !.pc = "lua_ran", !.new = val'[k], !.incr = took, !.pttl = ttl'[k],
                              !.here = (val'[k] > 0)]
      BY <1>1, <3>1 DEF TypeOK
    <3>3. req'[r] \in Requests
      BY <1>1, <2>1, <3>2 DEF Requests
    <3>4. /\ req'[r].pc = "lua_ran" /\ req'[r].new = val'[k] /\ req'[r].incr = took
          /\ req'[r].pttl = ttl'[k] /\ req'[r].here = (val'[k] > 0)
      BY <1>1, <3>2 DEF Requests
    <3>5. /\ req'[r].plan = q.plan /\ req'[r].at = q.at
          /\ req'[r].seen = q.seen /\ req'[r].shown = q.shown
      BY <1>1, <3>2 DEF Requests
    <3>6. QED BY <3>1, <3>2, <3>3, <3>4, <3>5
  <2>4. QED BY <2>2, <2>3
<1>12. Current(r)' = c /\ \A s \in Request : s # r => req'[s] = req[s] /\ Current(s)' = Current(s)
  BY <1>11 DEF IInv, TypeOK, Current
<1>13. TypeOK'
  <2>1. req' \in [Request -> Requests]
    BY <1>1, <1>11 DEF TypeOK
  <2>2. \A j \in Counter : ttl'[j] >= Absent
    BY <1>1, <1>3, <1>4, <1>5, <1>10 DEF TypeOK, Absent
  <2>3. QED BY <1>1, <1>7, <1>9, <1>10, <2>1, <2>2 DEF TypeOK
<1>14. ASSUME NEW s \in Request PROVE AtCheck(s)' /\ ShownOK(s)'
  <2>1. AtCheck(s) /\ ShownOK(s)
    BY DEF IInv
  <2>2. QED BY <1>1, <1>2, <1>11, <1>12, <2>1 DEF AtCheck, ShownOK
<1>15. ASSUME NEW j \in Counter PROVE CounterOK(j)'
  <2>1. CounterOK(j) /\ val[j] \in Nat /\ ttl[j] \in Int
    BY <1>1 DEF IInv, TypeOK
  <2>2. CASE j # k
    BY <1>7, <1>9, <1>10, <2>1, <2>2 DEF CounterOK
  <2>3. CASE j = k
    <3>1. ttl'[k] # NoTTL /\ (val'[k] = 0 <=> ttl'[k] = Absent)
      BY <1>4, <1>5, <1>8, <1>9, <1>10 DEF CounterOK, Absent, NoTTL
    <3>2. val'[k] > 0 => \E d \in Check : d.key = k /\ val'[k] <= d.limit
      BY <1>3, <1>5, <1>8, <1>9, <1>4 DEF CounterOK, took
    <3>3. admitted'[k] \subseteq 1..val'[k]
      BY <1>5, <1>7, <1>8, <1>9 DEF CounterOK
    <3>4. QED BY <2>3, <3>1, <3>2, <3>3 DEF CounterOK
  <2>4. QED BY <2>2, <2>3
\* The units r took lie above all that was counted before.
<1>16. Units(req'[r]) \cap 1..val[k] = {}
  BY <1>5, <1>8, <1>9, <1>11 DEF Units
<1>17. AnswerOK(r)'
  <2>1. admitted[k] \subseteq 1..val[k]
    BY <1>5 DEF CounterOK
  <2>2. took <= val'[k] /\ val'[k] \in Nat /\ ttl'[k] \in Int
    BY <1>3, <1>5, <1>8, <1>9, <1>10
  <2>3. Units(req[r])' \cap admitted'[k] = {}
    BY <1>7, <1>16, <2>1 DEF Units
  <2>4. /\ req'[r].pc \in Ran /\ req'[r].pc # "done" /\ req'[r].pc # "increx_ran"
    BY <1>11 DEF Ran
  <2>a. req'[r].pc = "increx_sent" => server'
    BY <1>7, <1>11
  <2>b. req'[r].pc = "lua_ran" => req'[r].pttl >= ttl'[k]
    BY <1>11, <2>2
  <2>c. req'[r].here => val'[k] > 0
    BY <1>11
  <2>d. req'[r].incr <= req'[r].new /\ req'[r].new <= val'[k]
    BY <1>11, <2>2
  <2>5. Units(req'[r]) \cap admitted'[k] = {}
    BY <2>3 DEF Units
  <2>6. QED BY <1>12, <2>4, <2>a, <2>b, <2>c, <2>d, <2>5 DEF AnswerOK, Units
<1>18. ASSUME NEW s \in Request, s # r
       PROVE  AnswerOK(s)'
  <2>1. AnswerOK(s) /\ req'[s] = req[s] /\ Current(s)' = Current(s) /\ req[s].new \in Nat
    BY <1>1, <1>12, <1>18, Fields DEF IInv
  <2>2. CASE ~req[s].here
    BY <1>7, <2>1, <2>2 DEF AnswerOK
  <2>3. CASE req[s].here
    <3>1. Current(s).key \in Counter /\ val[Current(s).key] > 0
      <4>1. req[s].pc # "idle" /\ AtCheck(s)
        BY <2>1, <2>3 DEF AnswerOK, Ran, IInv
      <4>2. QED BY <1>1, <2>1, <2>3, <4>1, CurrentCheck DEF AnswerOK, ValidCheck
    <3>2. val'[Current(s).key] >= val[Current(s).key] /\ ttl'[Current(s).key] = ttl[Current(s).key]
      BY <1>5, <1>8, <1>9, <1>10, <3>1, <1>1 DEF CounterOK, TypeOK
    <3>3. val'[Current(s).key] \in Nat /\ val[Current(s).key] \in Nat
      BY <1>1, <1>9, <3>1 DEF TypeOK
    <3>4. QED BY <1>7, <2>1, <3>1, <3>2, <3>3 DEF AnswerOK, Units
  <2>4. QED BY <2>2, <2>3
<1>19. ASSUME NEW s \in Request, s # r, Holds(s), Current(s).key = k
       PROVE  Units(req[s]) \cap Units(req'[r]) = {}
  <2>1. req[s].incr <= req[s].new /\ req[s].new <= val[k] /\ req[s].incr > 0
        /\ req[s].new \in Nat /\ req[s].incr \in Nat
    BY <1>1, <1>19, Fields DEF IInv, AnswerOK, Holds
  <2>2. Units(req[s]) \subseteq 1..val[k]
    BY <1>5, <2>1 DEF Units
  <2>3. QED BY <1>16, <2>2
<1>20. ASSUME NEW s \in Request, NEW t \in Request, s # t
       PROVE  Apart(s, t)'
  <2>1. Apart(s, t)
    BY <1>20 DEF IInv
  <2>2. CASE s = r
    BY <1>12, <1>19, <1>20, <2>2 DEF Apart, Holds, Units
  <2>3. CASE t = r
    BY <1>12, <1>19, <1>20, <2>3 DEF Apart, Holds, Units
  <2>4. CASE s # r /\ t # r
    BY <1>12, <2>1, <2>4 DEF Apart, Holds, Units
  <2>5. QED BY <2>2, <2>3, <2>4
<1>21. CapabilityTrue'
  BY <1>1, <1>7 DEF CapabilityTrue, Truth
<1>22. QED BY <1>13, <1>14, <1>15, <1>17, <1>18, <1>20, <1>21 DEF IInv

\* When windows end, by a reset or by the clock, nobody holds anything of them;
\* whoever waits for another one has as much less to wait as it has to live.
LEMMA OverStep ==
  ASSUME IInv, NEW K \in SUBSET Counter, NEW n \in {0, 1}, Over(K, n),
         val' = [k \in Counter |-> IF k \in K THEN 0 ELSE val[k]],
         ttl' = [k \in Counter |-> IF k \in K THEN Absent
                                   ELSE IF ttl[k] > 0 THEN ttl[k] - n ELSE ttl[k]],
         n = 1 => \A k \in Counter \ K : ttl[k] # 0,
         server' = server, caps' = caps
  PROVE  IInv'
<1>1. TypeOK /\ CapabilityTrue
  BY DEF IInv
<1>2. admitted' = [k \in Counter |-> IF k \in K THEN {} ELSE admitted[k]]
  BY DEF Over
<1>3. TypeOK' /\ \A s \in Request :
        /\ req'[s] \in Requests
        /\ req'[s].pc = req[s].pc /\ req'[s].plan = req[s].plan /\ req'[s].at = req[s].at
        /\ req'[s].new = req[s].new /\ req'[s].incr = req[s].incr /\ req'[s].pttl = req[s].pttl
        /\ req'[s].seen = req[s].seen /\ req'[s].shown = req[s].shown
        /\ req'[s].here => /\ req[s].here /\ Current(s).key \notin K
                           /\ req[s].pc = "done" => req'[s].wait = req[s].wait - n
  <2>1. ASSUME NEW s \in Request
        PROVE  /\ req'[s] \in Requests
               /\ req'[s].pc = req[s].pc /\ req'[s].plan = req[s].plan /\ req'[s].at = req[s].at
               /\ req'[s].new = req[s].new /\ req'[s].incr = req[s].incr
               /\ req'[s].pttl = req[s].pttl
               /\ req'[s].seen = req[s].seen /\ req'[s].shown = req[s].shown
               /\ req'[s].here => /\ req[s].here /\ Current(s).key \notin K
                                  /\ req[s].pc = "done" => req'[s].wait = req[s].wait - n
    <3>1. req[s] \in Requests /\ req[s].wait - n \in Int
      BY <1>1, Fields
    <3>2. CASE ~req[s].here
      BY <3>1, <3>2 DEF Over
    <3>3. CASE req[s].here /\ Current(s).key \in K
      <4>1. req'[s] = [req[s] EXCEPT !.here = FALSE, !.wait = 0]
        BY <3>3 DEF Over
      <4>2. req'[s] \in Requests
        BY <3>1, <4>1, 0 \in Int DEF Requests
      <4>3. QED BY <3>1, <4>1, <4>2 DEF Requests
    <3>4. CASE req[s].here /\ Current(s).key \notin K /\ req[s].pc = "done"
      <4>1. req'[s] = [req[s] EXCEPT !.wait = @ - n]
        BY <3>4 DEF Over
      <4>2. PICK m \in Int : m = req[s].wait - n
        BY <3>1
      <4>3. req'[s] = [req[s] EXCEPT !.wait = m]
        BY <4>1, <4>2
      <4>4. req'[s] \in Requests /\ req'[s].wait = m
        BY <3>1, <4>3 DEF Requests
      <4>5. /\ req'[s].pc = req[s].pc /\ req'[s].plan = req[s].plan
            /\ req'[s].at = req[s].at /\ req'[s].new = req[s].new
            /\ req'[s].incr = req[s].incr /\ req'[s].pttl = req[s].pttl
        BY <3>1, <4>3 DEF Requests
      <4>6. /\ req'[s].seen = req[s].seen /\ req'[s].shown = req[s].shown
            /\ req'[s].here = req[s].here
        BY <3>1, <4>3 DEF Requests
      <4>7. QED BY <3>4, <4>2, <4>4, <4>5, <4>6
    <3>5. CASE req[s].here /\ Current(s).key \notin K /\ req[s].pc # "done"
      <4>1. req'[s] = req[s]
        BY <3>5 DEF Over
      <4>2. QED BY <3>1, <3>5, <4>1
    <3>6. QED BY <3>2, <3>3, <3>4, <3>5
  <2>2. req' \in [Request -> Requests]
    <3>1. req' = [s \in Request |-> req'[s]]
      BY DEF Over
    <3>2. QED BY <2>1, <3>1
  <2>3. \A k \in Counter : ttl[k] \in Int /\ ttl'[k] \in Int /\ ttl'[k] >= Absent
    BY <1>1 DEF TypeOK, Absent
  <2>4. QED BY <1>1, <1>2, <2>1, <2>2, <2>3 DEF TypeOK
<1>4. \A s \in Request : Current(s)' = Current(s)
  BY <1>3 DEF Current
<1>5. ASSUME NEW k \in Counter PROVE CounterOK(k)'
  <2>1. CounterOK(k) /\ val[k] \in Nat /\ ttl[k] \in Int /\ ttl[k] >= Absent
    BY <1>1 DEF IInv, TypeOK
  <2>2. QED BY <1>2, <2>1 DEF CounterOK, Absent, NoTTL
<1>6. ASSUME NEW s \in Request PROVE AtCheck(s)' /\ ShownOK(s)'
  <2>1. AtCheck(s) /\ ShownOK(s)
    BY DEF IInv
  <2>2. QED BY <1>3, <2>1 DEF AtCheck, ShownOK
<1>7. ASSUME NEW s \in Request PROVE AnswerOK(s)'
  <2>1. AnswerOK(s)
    BY DEF IInv
  <2>2. CASE ~req'[s].here
    BY <1>3, <2>1, <2>2 DEF AnswerOK
  <2>3. CASE req'[s].here
    <3> DEFINE k == Current(s).key
    <3>1. req[s].here /\ k \notin K /\ (req[s].pc = "done" => req'[s].wait = req[s].wait - n)
      BY <1>3, <2>3
    <3>2. k \in Counter
      <4>1. req[s].pc # "idle" /\ AtCheck(s)
        BY <2>1, <3>1 DEF AnswerOK, Ran, IInv
      <4>2. QED BY <1>1, <4>1, CurrentCheck DEF ValidCheck
    <3>3. val'[k] = val[k] /\ admitted'[k] = admitted[k] /\ ttl[k] \in Int /\ req[s].pttl \in Int
          /\ req[s].wait \in Int
      BY <1>1, <1>2, <3>1, <3>2, Fields DEF TypeOK
    <3>4. ttl'[k] <= ttl[k] /\ (ttl'[k] = ttl[k] - n \/ n = 0)
      <4>1. ttl[k] > 0 \/ n = 0
        <5>1. val[k] > 0 /\ CounterOK(k) /\ ttl[k] >= Absent
          BY <1>1, <2>1, <3>1, <3>2 DEF AnswerOK, IInv, TypeOK
        <5>2. QED BY <3>1, <3>2, <3>3, <5>1 DEF CounterOK, Absent, NoTTL
      <4>2. QED BY <3>1, <3>2, <3>3, <4>1
    <3>5. req[s].pc = "done" => req'[s].wait >= ttl'[k]
      <4>1. req[s].pc = "done" => req[s].wait >= ttl[k]
        BY <2>1, <3>1 DEF AnswerOK
      <4>2. ttl'[k] \in Int
        BY <1>3, <3>2 DEF TypeOK
      <4>3. n = 0 => ttl'[k] = ttl[k]
        BY <3>1, <3>2, <3>3
      <4>4. QED BY <3>1, <3>3, <3>4, <4>1, <4>2, <4>3
    <3>6. req[s].pc \in {"increx_ran", "lua_ran"} => req'[s].pttl >= ttl'[k]
      <4>1. ttl'[k] \in Int
        BY <1>3, <3>2 DEF TypeOK
      <4>2. QED BY <1>3, <2>1, <3>1, <3>3, <3>4, <4>1 DEF AnswerOK
    <3>7. QED BY <1>3, <1>4, <2>1, <3>1, <3>3, <3>5, <3>6 DEF AnswerOK, Units
  <2>4. QED BY <2>2, <2>3
<1>8. ASSUME NEW s \in Request, NEW t \in Request, s # t
      PROVE  Apart(s, t)'
  <2>1. Apart(s, t)
    BY <1>8 DEF IInv
  <2>2. QED BY <1>3, <1>4, <2>1 DEF Apart, Holds, Units
<1>9. CapabilityTrue'
  BY <1>1 DEF CapabilityTrue, Truth
<1>10. QED BY <1>3, <1>5, <1>6, <1>7, <1>8, <1>9 DEF IInv

-----------------------------------------------------------------------------
(***************************************************************************)
(* The theorems                                                            *)
(***************************************************************************)

LEMMA InvariantInit == Init => IInv
<1> SUFFICES ASSUME Init PROVE IInv
  OBVIOUS
<1>1. << >> \in Seq(Check) /\ 0 \in Nat /\ Absent \in Int /\ 0 \in Int /\ {} \in SUBSET Results
      /\ NoResult \in Results \cup {NoResult}
  BY DEF Absent
<1>2. Idle \in Requests
  BY <1>1 DEF Idle, Requests
<1>3. TypeOK
  BY <1>2 DEF Init, TypeOK, Answers, Absent
<1>4. \A r \in Request : req[r].pc = "idle" /\ req[r].here = FALSE /\ req[r].incr = 0
                         /\ req[r].seen = {} /\ req[r].shown = NoResult
  BY DEF Init, Idle
<1>5. \A r \in Request : AtCheck(r) /\ AnswerOK(r) /\ ShownOK(r) /\ ~Holds(r)
  BY <1>4 DEF AtCheck, AnswerOK, ShownOK, Holds
<1>6. \A k \in Counter : CounterOK(k)
  BY DEF Init, CounterOK, Absent, NoTTL
<1>7. CapabilityTrue
  BY DEF Init, CapabilityTrue
<1>8. QED BY <1>3, <1>5, <1>6, <1>7 DEF IInv, Apart

LEMMA InvariantStep == IInv /\ [Next]_vars => IInv'
<1> SUFFICES ASSUME IInv, [Next]_vars PROVE IInv'
  OBVIOUS
<1>1. ASSUME NEW r \in Request, Step(r) PROVE IInv'
  BY <1>1, LocalStep, FallbackStep, AnswerStep, ReadStep, PeekErrorStep, HitStep DEF Step
<1>2. ASSUME NEW k \in Counter, Reset(k) PROVE IInv'
  <2>1. {k} \in SUBSET Counter /\ 0 \in {0, 1} /\ Over({k}, 0)
        /\ server' = server /\ caps' = caps
    BY <1>2 DEF Reset
  <2>2. val' = [j \in Counter |-> IF j \in {k} THEN 0 ELSE val[j]]
    BY <1>2 DEF Reset, IInv, TypeOK
  <2>3. ttl' = [j \in Counter |-> IF j \in {k} THEN Absent
                                  ELSE IF ttl[j] > 0 THEN ttl[j] - 0 ELSE ttl[j]]
    <3>1. \A j \in Counter : ttl[j] \in Int
      BY DEF IInv, TypeOK
    <3>2. ttl' = [j \in Counter |-> IF j = k THEN Absent ELSE ttl[j]]
      BY <1>2 DEF Reset, IInv, TypeOK
    <3>3. QED BY <3>1, <3>2
  <2>4. QED BY <2>1, <2>2, <2>3, OverStep
<1>3. ASSUME Tick PROVE IInv'
  <2> DEFINE K == {k \in Counter : ttl[k] = 0}
  <2>1. K \in SUBSET Counter /\ 1 \in {0, 1} /\ Over(K, 1) /\ server' = server /\ caps' = caps
        /\ \A k \in Counter \ K : ttl[k] # 0
    BY <1>3 DEF Tick
  <2>2. val' = [k \in Counter |-> IF k \in K THEN 0 ELSE val[k]]
    BY <1>3 DEF Tick
  <2>3. ttl' = [k \in Counter |-> IF k \in K THEN Absent
                                  ELSE IF ttl[k] > 0 THEN ttl[k] - 1 ELSE ttl[k]]
    BY <1>3 DEF Tick
  <2> HIDE DEF K
  <2>4. QED BY <2>1, <2>2, <2>3, OverStep
<1>4. CASE UNCHANGED vars
  <2>1. /\ val' = val /\ ttl' = ttl /\ server' = server /\ caps' = caps /\ req' = req
        /\ admitted' = admitted
    BY <1>4 DEF vars
  <2>2. TypeOK' /\ CapabilityTrue'
    BY <2>1 DEF IInv, TypeOK, CapabilityTrue, Truth
  <2>3. \A r \in Request : AtCheck(r)' /\ AnswerOK(r)' /\ ShownOK(r)'
    BY <2>1 DEF IInv, AtCheck, AnswerOK, ShownOK, Current, Units
  <2>4. \A k \in Counter : CounterOK(k)'
    BY <2>1 DEF IInv, CounterOK
  <2>5. \A r, s \in Request : r # s => Apart(r, s)'
    BY <2>1 DEF IInv, Apart, Holds, Current, Units
  <2>6. QED BY <2>2, <2>3, <2>4, <2>5 DEF IInv
<1>5. QED BY <1>1, <1>2, <1>3, <1>4 DEF Next

LEMMA InvariantHolds == Spec => []IInv
BY InvariantInit, InvariantStep, PTL DEF Spec

\* Types: what is left to a client is never negative, on counters that routes
\* with different limits share included.
THEOREM TypeCorrect == Spec => []TypeOK
<1>1. IInv => TypeOK
  BY DEF IInv
<1>2. QED BY <1>1, InvariantHolds, PTL

\* Every counter that exists has an expiry, whichever tier created it.
THEOREM NobodyLimitedForEver == Spec => []CounterExpires
<1>1. IInv => CounterExpires
  BY DEF IInv, CounterOK, CounterExpires
<1>2. QED BY <1>1, InvariantHolds, PTL

\* What the process remembers of the server is never wrong, whatever probes
\* and attempts of concurrent requests overwrite.
THEOREM CapabilityRight == Spec => []CapabilityTrue
<1>1. IInv => CapabilityTrue
  BY DEF IInv
<1>2. QED BY <1>1, InvariantHolds, PTL

\* The headers of a response describe the check that binds first.
THEOREM HeadersTightest == Spec => []ShowsTightest
<1>1. IInv => ShowsTightest
  BY DEF IInv, ShownOK, ShowsTightest
<1>2. QED BY <1>1, InvariantHolds, PTL

\* A window admits no more than one of its checks allows, and nothing twice,
\* for any number of concurrent requests, tiers, failures and lost replies.
THEOREM LimitHolds == Spec => []NoOvershoot
<1>1. ASSUME IInv PROVE NoOvershoot
  <2>1. ASSUME NEW k \in Counter, admitted[k] # {}
        PROVE  \E c \in Check : c.key = k /\ Cardinality(admitted[k]) <= c.limit
    <3>1. CounterOK(k) /\ val[k] \in Nat
      BY <1>1 DEF IInv, TypeOK
    <3>2. val[k] > 0
      BY <2>1, <3>1 DEF CounterOK
    <3>3. PICK c \in Check : c.key = k /\ val[k] <= c.limit
      BY <3>1, <3>2 DEF CounterOK
    <3>4. IsFiniteSet(1..val[k]) /\ Cardinality(1..val[k]) = val[k]
      <4>1. 1 \in Int /\ val[k] \in Int
        BY <3>1
      <4>2. /\ IsFiniteSet(1..val[k])
            /\ Cardinality(1..val[k]) = IF 1 > val[k] THEN 0 ELSE val[k] - 1 + 1
        BY <4>1, FS_Interval
      <4>3. QED BY <3>1, <3>2, <4>2
    <3>5. Cardinality(admitted[k]) <= val[k] /\ Cardinality(admitted[k]) \in Nat
      BY <3>1, <3>4, FS_Subset, FS_CardinalityType DEF CounterOK
    <3>6. c.limit \in Nat
      BY ChecksAssumption DEF ValidCheck
    <3>7. QED BY <3>1, <3>3, <3>5, <3>6
  <2>2. QED BY <1>1, <2>1 DEF NoOvershoot, IInv, AnswerOK
<1>2. QED BY <1>1, InvariantHolds, PTL

\* A refused client that waits longer than it was told no longer finds the
\* window that refused it.
THEOREM WaitingSuffices == Spec => []RetryAfterSuffices
<1>1. ASSUME IInv, NEW r \in Request, req[r].pc = "done", req[r].here
      PROVE  req[r].wait >= 0
  <2>1. AnswerOK(r) /\ AtCheck(r) /\ TypeOK /\ req[r].wait \in Int
    BY <1>1, Fields DEF IInv
  <2>2. Current(r).key \in Counter
    BY <1>1, <2>1, CurrentCheck DEF ValidCheck
  <2>3. CounterOK(Current(r).key) /\ ttl[Current(r).key] \in Int /\ ttl[Current(r).key] >= Absent
        /\ val[Current(r).key] \in Nat
    BY <1>1, <2>2 DEF IInv, TypeOK
  <2>4. ttl[Current(r).key] >= 0
    BY <1>1, <2>1, <2>3 DEF AnswerOK, CounterOK, Absent, NoTTL
  <2>5. QED BY <1>1, <2>1, <2>3, <2>4 DEF AnswerOK
<1>2. IInv => RetryAfterSuffices
  BY <1>1 DEF RetryAfterSuffices
<1>3. QED BY <1>2, InvariantHolds, PTL

-----------------------------------------------------------------------------
(***************************************************************************)
(* The counters implement fixed windows                                    *)
(***************************************************************************)

\* The window a counter stands for.
LeftOf == [k \in Counter |-> IF ttl[k] >= 0 THEN ttl[k] ELSE -1]

\* Every step is an admission, a reset, a tick of the windows, or none.
LEMMA WindowStep ==
  ASSUME IInv, [Next]_vars
  PROVE  [Windows!WindowNext]_(Windows!windowVars)
<1>1. TypeOK /\ \A k \in Counter : CounterOK(k) /\ val[k] \in Nat /\ ttl[k] \in Int /\ ttl[k] >= Absent
  BY DEF IInv, TypeOK
<1>2. CASE UNCHANGED <<val, ttl>>
  BY <1>2 DEF Windows!windowVars
<1>3. ASSUME NEW r \in Request, SendIncrex(r) \/ SendScript(r)
      PROVE  UNCHANGED <<val, ttl>> \/ Windows!WindowNext
  <2>0. Current(r) \in Check /\ ValidCheck(Current(r))
    BY <1>1, <1>3, CurrentCheck DEF IInv, SendIncrex, SendScript
  <2>1. PICK c \in Check : c = Current(r) /\ ValidCheck(c)
    BY <2>0
  <2>2. CounterOK(c.key) /\ (Increx(c) \/ Script(c))
    BY <1>1, <1>3, <2>1 DEF ValidCheck, SendIncrex, SendScript, Increx, Script, Fits
  <2>3. CASE ~Fits(c)
    BY <1>1, <2>1, <2>2, <2>3, CounterStep
  <2>4. CASE Fits(c)
    <3>1. /\ val' = [val EXCEPT ![c.key] = @ + c.cost]
          /\ ttl' = [ttl EXCEPT ![c.key] = IF @ = Absent THEN c.window * Sec ELSE @]
      BY <1>1, <2>1, <2>2, <2>4, CounterStep
    <3>2. c.key \in Counter /\ c.window * Sec \in Nat
      BY <2>1, SecAssumption DEF ValidCheck
    <3>3. ttl[c.key] = Absent \/ ttl[c.key] >= 0
      BY <1>1, <3>2 DEF CounterOK, Absent, NoTTL
    <3>4. LeftOf' = [LeftOf EXCEPT ![c.key] = IF @ = -1 THEN c.window * Sec ELSE @]
      BY <1>1, <3>1, <3>2, <3>3 DEF LeftOf, TypeOK, Absent
    <3>5. Windows!Admit(c)
      <4>1. val[c.key] + c.cost <= c.limit
        BY <2>4 DEF Fits
      <4>2. [k \in Counter |-> IF ttl[k] >= 0 THEN ttl[k] ELSE -1]'
              = [[k \in Counter |-> IF ttl[k] >= 0 THEN ttl[k] ELSE -1]
                   EXCEPT ![c.key] = IF @ = -1 THEN c.window * Sec ELSE @]
        BY <3>4 DEF LeftOf
      <4>3. QED BY <4>1, <4>2, <3>1, Zenon DEF Windows!Admit, Windows!Closed
    <3>6. QED BY <2>1, <3>5 DEF Windows!WindowNext
  <2>5. QED BY <2>3, <2>4
<1>4. ASSUME NEW r \in Request, Step(r), ~(SendIncrex(r) \/ SendScript(r))
      PROVE  UNCHANGED <<val, ttl>>
  BY <1>4 DEF Step, Arrive, Bypass, Unidentified, Execute, Probe, SendPttl, UnknownCommand,
              Answer, Error, Finish, Peek, PeekGet, PeekPttl, PeekError
<1>5. ASSUME NEW k \in Counter, Reset(k)
      PROVE  Windows!WindowNext
  <2>1. LeftOf' = [LeftOf EXCEPT ![k] = -1]
    <3>1. \A j \in Counter : ttl'[j] = IF j = k THEN -2 ELSE ttl[j]
      BY <1>1, <1>5 DEF Reset, TypeOK, Absent
    <3>2. \A j \in Counter : LeftOf'[j] = IF j = k THEN -1 ELSE LeftOf[j]
      BY <1>1, <3>1 DEF LeftOf
    <3>3. QED BY <3>2 DEF LeftOf
  <2>2. Windows!Cut(k)
    BY <1>5, <2>1 DEF Reset, Windows!Cut, Windows!Closed, LeftOf
  <2>3. QED BY <2>2 DEF Windows!WindowNext
<1>6. ASSUME Tick
      PROVE  Windows!WindowNext
  <2>1. \A k \in Counter : ttl[k] = Absent \/ ttl[k] >= 0
    BY <1>1 DEF CounterOK, Absent, NoTTL
  <2>2. LeftOf' = [k \in Counter |-> IF LeftOf[k] = -1 THEN -1 ELSE LeftOf[k] - 1]
    BY <1>1, <1>6, <2>1 DEF Tick, LeftOf, Absent
  <2>3. val' = [k \in Counter |-> IF LeftOf[k] <= 0 THEN 0 ELSE val[k]]
    BY <1>1, <1>6, <2>1 DEF Tick, LeftOf, Absent, CounterOK
  <2>4. Windows!Elapse
    BY <2>2, <2>3 DEF Windows!Elapse, Windows!Closed, LeftOf
  <2>5. QED BY <2>4 DEF Windows!WindowNext
<1>7. CASE UNCHANGED vars
  BY <1>2, <1>7 DEF vars
<1>8. QED BY <1>2, <1>3, <1>4, <1>5, <1>6, <1>7 DEF Next

\* Both tiers, mixed in any way and with any failures, implement fixed windows
\* that no hit extends.
THEOREM LimiterImplementsFixedWindow == Spec => ImplementsFixedWindow
<1>1. Init => Windows!WindowInit
  BY DEF Init, Windows!WindowInit, Windows!Closed, Absent
<1>2. IInv /\ [Next]_vars => [Windows!WindowNext]_(Windows!windowVars)
  BY WindowStep
<1>3. QED BY <1>1, <1>2, InvariantHolds, PTL DEF Spec, ImplementsFixedWindow, Windows!WindowSpec

-----------------------------------------------------------------------------
(***************************************************************************)
(* Who is refused stays refused                                            *)
(***************************************************************************)

\* A client refused by a check, or told by peek that the counter is full, would
\* be refused by that check again for as long as the window it was told about
\* is open: nobody is turned away whom the limit would have let through.
RefusedWhileFull ==
  \A r \in Request : req[r].pc = "done" /\ req[r].here => ~Fits(Current(r))

\* The same of a refusal under way, and what peek has read so far.
Firm(r) ==
  LET q == req[r]
      c == Current(r)
  IN
  /\ q.here /\ q.pc \in Ran /\ q.incr = 0 => ~Fits(c)
  /\ q.here /\ q.pc = "peek_pttl" => q.new <= val[c.key]
  /\ q.here /\ q.pc = "done" => ~Fits(c)

\* What a request was told of an open window is about a declared check.
LEMMA HereAtCheck ==
  ASSUME IInv, NEW r \in Request, req[r].here
  PROVE  /\ Current(r) \in Check /\ Current(r).key \in Counter
         /\ Current(r).cost \in Nat \ {0} /\ Current(r).limit \in Nat
         /\ val[Current(r).key] \in Nat /\ req[r].new \in Nat
<1>1. TypeOK /\ AtCheck(r) /\ req[r].pc # "idle"
  BY DEF IInv, AnswerOK, Ran
<1>2. Current(r) \in Check /\ ValidCheck(Current(r))
  BY <1>1, CurrentCheck
<1>3. QED BY <1>1, <1>2, Fields DEF ValidCheck, TypeOK

\* A counter that has not gone down is as full as it was.
LEMMA FirmStays ==
  ASSUME IInv, NEW r \in Request, Firm(r), val' \in [Counter -> Nat],
         req'[r].here => /\ req[r].here
                         /\ Current(r)' = Current(r)
                         /\ val'[Current(r).key] >= val[Current(r).key],
         /\ req'[r].pc = req[r].pc \/ (req[r].pc \in Ran /\ req'[r].pc \in Ran)
         /\ req'[r].new = req[r].new /\ req'[r].incr = req[r].incr
  PROVE  Firm(r)'
<1>1. CASE ~req'[r].here
  BY <1>1 DEF Firm
<1>2. CASE req'[r].here
  <2>1. PICK c : c = Current(r)
    OBVIOUS
  <2>2. /\ req[r].here /\ Current(r)' = c /\ c.key \in Counter /\ val'[c.key] >= val[c.key]
        /\ c.cost \in Nat /\ c.limit \in Nat /\ val[c.key] \in Nat /\ val'[c.key] \in Nat
        /\ req[r].new \in Nat
    BY <1>2, <2>1, HereAtCheck
  <2>3. ~Fits(c) => ~Fits(c)'
    BY <2>2 DEF Fits
  <2>4. Fits(Current(r))' <=> Fits(c)'
    BY <2>2 DEF Fits
  <2>5. QED BY <1>2, <2>1, <2>2, <2>3, <2>4 DEF Firm, Ran
<1>3. QED BY <1>1, <1>2

\* A request whose answer is about no open window has nothing to keep.
LEMMA NotHereFirm ==
  ASSUME NEW r \in Request, ~req'[r].here
  PROVE  Firm(r)'
BY DEF Firm

\* The others' requests, while the counters do not go down.
LEMMA OthersFirm ==
  ASSUME IInv, NEW r \in Request, NEW s \in Request, s # r, Firm(s),
         req' = [req EXCEPT ![r] = req'[r]], val' \in [Counter -> Nat],
         \A k \in Counter : val'[k] >= val[k]
  PROVE  Firm(s)'
<1>1. req'[s] = req[s]
  BY DEF IInv, TypeOK
<1>2. Current(s)' = Current(s)
  BY <1>1 DEF Current
<1>3. QED BY <1>1, <1>2, HereAtCheck, FirmStays

\* A check counted, or refused because it did not fit.
LEMMA FirmHit ==
  ASSUME IInv, NEW r \in Request, SendIncrex(r) \/ SendScript(r), \A s \in Request : Firm(s)
  PROVE  \A s \in Request : Firm(s)'
<1>1. TypeOK /\ AtCheck(r) /\ req[r] \in Requests /\ req[r].pc \in {"increx", "lua"}
  BY DEF IInv, TypeOK, SendIncrex, SendScript
<1>2. PICK c : c = Current(r)
  OBVIOUS
<1>3. c \in Check /\ ValidCheck(c) /\ c.key \in Counter /\ c.cost \in Nat \ {0} /\ c.limit \in Nat
  BY <1>1, <1>2, CurrentCheck DEF ValidCheck
<1>4. /\ Fits(c) => val' = [val EXCEPT ![c.key] = @ + c.cost]
      /\ ~Fits(c) => val' = val
  BY <1>1, <1>2, <1>3, CounterStep DEF IInv, SendIncrex, SendScript
<1>5. val' \in [Counter -> Nat] /\ \A k \in Counter : val'[k] >= val[k]
  BY <1>1, <1>3, <1>4 DEF TypeOK
<1>6. PICK p, took, open, left :
        /\ took = IF Fits(c) THEN c.cost ELSE 0
        /\ p \in {"increx_sent", "lua_ran"}
        /\ req' = [req EXCEPT ![r] = [req[r] EXCEPT !.pc = p, !.new = val'[c.key], !.incr = took,
                                                    !.pttl = left, !.here = open]]
  <2>1. CASE SendIncrex(r)
    <3>1. req' = [req EXCEPT ![r] = [req[r] EXCEPT !.pc = "increx_sent", !.new = val'[c.key],
                                        !.incr = IF Fits(c) THEN c.cost ELSE 0,
                                        !.here = (val'[c.key] > 0)]]
      BY <1>2, <2>1 DEF SendIncrex
    <3>2. PICK n, took, open :
            /\ n = val'[c.key] /\ took = (IF Fits(c) THEN c.cost ELSE 0)
            /\ open = (val'[c.key] > 0)
      OBVIOUS
    <3>3. req' = [req EXCEPT ![r] = [req[r] EXCEPT !.pc = "increx_sent", !.new = n,
                                                  !.incr = took, !.here = open]]
      BY <3>1, <3>2
    <3>4. [req[r] EXCEPT !.pc = "increx_sent", !.new = n, !.incr = took, !.here = open]
            = [req[r] EXCEPT !.pc = "increx_sent", !.new = n, !.incr = took,
                             !.pttl = req[r].pttl, !.here = open]
      BY <1>1 DEF Requests
    <3>5. req' = [req EXCEPT ![r] = [req[r] EXCEPT !.pc = "increx_sent", !.new = val'[c.key],
                                                  !.incr = took, !.pttl = req[r].pttl,
                                                  !.here = open]]
      BY <3>2, <3>3, <3>4
    <3>6. QED BY <3>2, <3>5
  <2>2. CASE SendScript(r)
    <3>1. req' = [req EXCEPT ![r] = [req[r] EXCEPT !.pc = "lua_ran", !.new = val'[c.key],
                                        !.incr = IF Fits(c) THEN c.cost ELSE 0,
                                        !.pttl = ttl'[c.key], !.here = (val'[c.key] > 0)]]
      BY <1>2, <2>2 DEF SendScript
    <3>2. QED BY <3>1
  <2>3. QED BY <2>1, <2>2
<1>7. /\ req' = [req EXCEPT ![r] = req'[r]] /\ req'[r].pc = p /\ req'[r].incr = took
      /\ req'[r].plan = req[r].plan /\ req'[r].at = req[r].at
  BY <1>1, <1>6 DEF TypeOK, Requests
<1>8. Current(r)' = c
  BY <1>2, <1>7 DEF Current
<1>9. took = 0 => ~Fits(c)'
  BY <1>3, <1>4, <1>6 DEF Fits
<1>10. Fits(Current(r))' <=> Fits(c)'
  BY <1>8 DEF Fits
<1>11. Firm(r)'
  BY <1>6, <1>7, <1>8, <1>9, <1>10 DEF Firm, Ran
<1>12. QED BY <1>5, <1>7, <1>11, OthersFirm

\* An answer that refuses is about a check that did not fit.
LEMMA FirmAnswer ==
  ASSUME IInv, NEW r \in Request, Answer(r), \A s \in Request : Firm(s)
  PROVE  \A s \in Request : Firm(s)'
<1>1. /\ TypeOK /\ AtCheck(r) /\ req[r] \in Requests /\ req[r].pc \in {"increx_ran", "lua_ran"}
      /\ req[r].new \in Nat /\ req[r].incr \in Nat /\ req[r].pttl \in Int
  BY Fields DEF IInv, Answer
<1>2. PICK c : c = Current(r)
  OBVIOUS
<1>3. c \in Check
  BY <1>1, <1>2, CurrentCheck
<1>4. PICK x, n : /\ x = Result(req[r].incr # 0, Remaining(c, req[r].new), FALSE)
                  /\ n = ResetAfter(c, req[r].pttl)
  OBVIOUS
<1>5. x \in Results /\ (x.allowed <=> req[r].incr # 0)
  BY <1>1, <1>3, <1>4, RemainingIsNat DEF Result, Results
<1>6. n \in Nat /\ n * Sec \in Nat
  BY <1>1, <1>3, <1>4, ResetAfterCovers
<1>7. Conclude(r, req[r], x, n) /\ val' = val
  BY <1>2, <1>4 DEF Answer
<1>8. /\ req' = [req EXCEPT ![r] = req'[r]]
      /\ req'[r].pc \in {"check", "done"}
      /\ req'[r].here => req[r].here /\ ~x.allowed /\ Current(r)' = Current(r)
  BY <1>1, <1>5, <1>6, <1>7, Concluded
<1>9. req'[r].here => ~Fits(c)
  BY <1>1, <1>2, <1>5, <1>8 DEF Firm, Ran
<1>10. req'[r].here => (Fits(Current(r))' <=> Fits(c))
  BY <1>2, <1>7, <1>8 DEF Fits
<1>11. Firm(r)'
  BY <1>8, <1>9, <1>10 DEF Firm, Ran
<1>12. val' \in [Counter -> Nat] /\ \A k \in Counter : val'[k] >= val[k]
  BY <1>1, <1>7 DEF TypeOK
<1>13. QED BY <1>8, <1>11, <1>12, OthersFirm

\* PTTL, and the two trips of peek.
LEMMA FirmRead ==
  ASSUME IInv, NEW r \in Request, SendPttl(r) \/ PeekGet(r) \/ PeekPttl(r),
         \A s \in Request : Firm(s)
  PROVE  \A s \in Request : Firm(s)'
<1>1. /\ TypeOK /\ AtCheck(r) /\ req[r] \in Requests /\ val' = val
      /\ req[r].pc # "idle" /\ req[r].new \in Nat /\ req[r].here \in BOOLEAN
  BY Fields DEF IInv, SendPttl, PeekGet, PeekPttl
<1>2. val' \in [Counter -> Nat] /\ \A k \in Counter : val'[k] >= val[k]
  BY <1>1 DEF TypeOK
<1>3. PICK c : c = Current(r)
  OBVIOUS
<1>4. c \in Check /\ c.key \in Counter /\ c.cost \in Nat \ {0} /\ c.limit \in Nat /\ val[c.key] \in Nat
  BY <1>1, <1>3, CurrentCheck DEF ValidCheck, TypeOK
<1>5. CASE SendPttl(r)
  <2>1. PICK t : req' = [req EXCEPT ![r] = [req[r] EXCEPT !.pc = "increx_ran", !.pttl = t]]
    BY <1>5 DEF SendPttl
  <2>2. /\ req' = [req EXCEPT ![r] = req'[r]] /\ req'[r].pc = "increx_ran"
        /\ req'[r].plan = req[r].plan /\ req'[r].at = req[r].at /\ req'[r].new = req[r].new
        /\ req'[r].incr = req[r].incr /\ req'[r].here = req[r].here
    BY <1>1, <2>1 DEF TypeOK, Requests
  <2>3. Current(r)' = Current(r) /\ req[r].pc \in Ran /\ req'[r].pc \in Ran
    BY <1>5, <2>2 DEF Current, SendPttl, Ran
  <2>4. req'[r].here => req[r].here /\ val'[c.key] >= val[c.key]
    BY <1>2, <1>4, <2>2
  <2>5. Firm(r)'
    BY <1>2, <1>3, <2>2, <2>3, <2>4, FirmStays
  <2>6. QED BY <1>2, <2>2, <2>5, OthersFirm
<1>6. CASE PeekGet(r)
  <2>1. PICK open : req' = [req EXCEPT ![r] = [req[r] EXCEPT !.pc = "peek_pttl", !.new = val[c.key],
                                                             !.here = open]]
    BY <1>3, <1>6 DEF PeekGet
  <2>2. /\ req' = [req EXCEPT ![r] = req'[r]] /\ req'[r].pc = "peek_pttl"
        /\ req'[r].plan = req[r].plan /\ req'[r].at = req[r].at /\ req'[r].new = val[c.key]
    BY <1>1, <2>1 DEF TypeOK, Requests
  <2>3. Current(r)' = c
    BY <1>3, <2>2 DEF Current
  <2>4. Firm(r)'
    BY <1>1, <1>4, <2>2, <2>3 DEF Firm, Ran
  <2>5. QED BY <1>2, <2>2, <2>4, OthersFirm
<1>7. CASE PeekPttl(r)
  <2>1. PICK h, w :
          /\ h <=> (req[r].new >= c.limit /\ req[r].here)
          /\ h \in BOOLEAN
          /\ req' = [req EXCEPT ![r] = [Idle EXCEPT !.pc = "done", !.plan = req[r].plan,
                                                    !.at = req[r].at, !.here = h, !.wait = w]]
    BY <1>1, <1>3, <1>7 DEF PeekPttl
  <2>2. PICK q : q = [Idle EXCEPT !.pc = "done", !.plan = req[r].plan, !.at = req[r].at,
                                  !.here = h, !.wait = w]
    OBVIOUS
  <2>3. /\ q.pc = "done" /\ q.plan = req[r].plan /\ q.at = req[r].at /\ (q.here <=> h)
        /\ req' = [req EXCEPT ![r] = q]
    BY <2>1, <2>2 DEF Idle
  <2>4. req'[r] = q
    BY <1>1, <2>3 DEF TypeOK
  <2>5. Current(r)' = c
    BY <1>3, <2>3, <2>4 DEF Current
  <2>6. req[r].pc = "peek_pttl"
    BY <1>7 DEF PeekPttl
  <2>7. h => ~Fits(c)
    BY <1>3, <1>4, <1>1, <2>1, <2>6 DEF Firm, Fits
  <2>8. Fits(Current(r))' <=> Fits(c)
    BY <1>1, <2>5 DEF Fits
  <2>9. Firm(r)'
    BY <2>3, <2>4, <2>7, <2>8 DEF Firm, Ran
  <2>10. QED BY <1>2, <2>3, <2>4, <2>9, OthersFirm
<1>8. QED BY <1>5, <1>6, <1>7

\* A request that has no answer pending, and one whose answer was lost.
LEMMA FirmElsewhere ==
  ASSUME IInv, NEW r \in Request,
         \/ Arrive(r) \/ Bypass(r) \/ Execute(r) \/ Probe(r) \/ UnknownCommand(r) \/ Finish(r)
         \/ Peek(r) \/ PeekError(r) \/ Unidentified(r) \/ Error(r),
         \A s \in Request : Firm(s)
  PROVE  \A s \in Request : Firm(s)'
<1>1. TypeOK /\ AtCheck(r) /\ AnswerOK(r) /\ req[r] \in Requests
  BY DEF IInv, TypeOK
<1>2. val' = val
  BY DEF Arrive, Bypass, Execute, Probe, UnknownCommand, Finish, Peek, PeekError, Unidentified, Error
<1>3. val' \in [Counter -> Nat] /\ \A k \in Counter : val'[k] >= val[k]
  BY <1>1, <1>2 DEF TypeOK
<1>4. req' = [req EXCEPT ![r] = req'[r]] /\ ~req'[r].here
  <2>1. CASE Arrive(r) \/ Peek(r) \/ PeekError(r) \/ Finish(r)
    <3>1. PICK q : req' = [req EXCEPT ![r] = q] /\ q.here = FALSE
      <4>1. CASE Finish(r)
        <5>1. req' = [req EXCEPT ![r] = Idle]
          BY <4>1 DEF Finish
        <5>2. Idle.here = FALSE
          BY DEF Idle
        <5>3. QED BY <5>1, <5>2
      <4>2. CASE Arrive(r)
        <5>1. PICK p : req' = [req EXCEPT ![r] = [Idle EXCEPT !.pc = "check", !.plan = p, !.at = 1]]
          BY <4>2 DEF Arrive
        <5>2. [Idle EXCEPT !.pc = "check", !.plan = p, !.at = 1].here = FALSE
          BY DEF Idle
        <5>3. QED BY <5>1, <5>2
      <4>3. CASE Peek(r)
        <5>1. PICK c : req' = [req EXCEPT ![r] = [Idle EXCEPT !.pc = "get", !.plan = <<c>>, !.at = 1]]
          BY <4>3 DEF Peek
        <5>2. [Idle EXCEPT !.pc = "get", !.plan = <<c>>, !.at = 1].here = FALSE
          BY DEF Idle
        <5>3. QED BY <5>1, <5>2
      <4>4. CASE PeekError(r)
        <5>1. PICK p, a, w : req' = [req EXCEPT ![r] = [Idle EXCEPT !.pc = "done", !.plan = p,
                                                                    !.at = a, !.wait = w]]
          BY <4>4 DEF PeekError
        <5>2. [Idle EXCEPT !.pc = "done", !.plan = p, !.at = a, !.wait = w].here = FALSE
          BY DEF Idle
        <5>3. QED BY <5>1, <5>2
      <4>5. QED BY <2>1, <4>1, <4>2, <4>3, <4>4
    <3>2. QED BY <1>1, <3>1 DEF TypeOK
  <2>2. CASE Bypass(r)
    <3>1. req[r].pc = "check" /\ ~req[r].here
      BY <1>1, <2>2 DEF Bypass, AnswerOK, Ran
    <3>2. PICK q : q = After(req[r]) /\ req' = [req EXCEPT ![r] = q]
      BY <2>2 DEF Bypass
    <3>3. q.here = req[r].here
      BY <1>1, <3>2 DEF After, Requests
    <3>4. QED BY <1>1, <3>1, <3>2, <3>3 DEF TypeOK
  <2>3. CASE Execute(r) \/ Probe(r) \/ UnknownCommand(r)
    <3>1. req[r].pc \in {"check", "probe", "increx"}
      BY <2>3 DEF Execute, Probe, UnknownCommand
    <3>2. ~req[r].here
      BY <1>1, <3>1 DEF AnswerOK, Ran
    <3>3. PICK p : req' = [req EXCEPT ![r].pc = p]
      BY <2>3 DEF Execute, Probe, UnknownCommand
    <3>4. QED BY <1>1, <3>2, <3>3 DEF TypeOK, Requests
  <2>4. CASE Unidentified(r) \/ Error(r)
    <3>1. PICK c : c = Current(r)
      OBVIOUS
    <3>2. req[r].pc # "idle" /\ c \in Check /\ ValidCheck(c)
      BY <1>1, <2>4, <3>1, CurrentCheck DEF Unidentified, Error
    <3>3. Degraded(c) \in Results /\ c.window \in Nat /\ c.window * Sec \in Nat
      BY <3>2, DegradedIsResult, SecAssumption DEF ValidCheck
    <3>4. CASE Unidentified(r)
      <4>1. ~req[r].here
        BY <1>1, <3>4 DEF Unidentified, AnswerOK, Ran
      <4>2. Conclude(r, req[r], Degraded(c), c.window)
        BY <3>1, <3>4 DEF Unidentified
      <4>3. QED BY <1>1, <3>2, <3>3, <4>1, <4>2, Concluded
    <3>5. CASE Error(r)
      <4>1. PICK q : q = [req[r] EXCEPT !.here = FALSE]
        OBVIOUS
      <4>2. /\ q \in Requests /\ q.plan = req[r].plan /\ q.at = req[r].at /\ q.seen = req[r].seen
            /\ q.shown = req[r].shown /\ ~q.here
        BY <1>1, <4>1 DEF Requests
      <4>3. Conclude(r, q, Degraded(c), c.window)
        BY <3>1, <3>5, <4>1 DEF Error
      <4>4. QED BY <3>2, <3>3, <4>2, <4>3, Concluded
    <3>6. QED BY <2>4, <3>4, <3>5
  <2>5. QED BY <2>1, <2>2, <2>3, <2>4
<1>5. QED BY <1>3, <1>4, NotHereFirm, OthersFirm

\* When a window ends, what was said of it is history.
LEMMA FirmOver ==
  ASSUME IInv, NEW K \in SUBSET Counter, NEW n, Over(K, n),
         val' = [k \in Counter |-> IF k \in K THEN 0 ELSE val[k]],
         NEW s \in Request, Firm(s)
  PROVE  Firm(s)'
<1>1. req[s] \in Requests /\ val \in [Counter -> Nat] /\ val' \in [Counter -> Nat]
  BY DEF IInv, TypeOK
<1>2. req'[s] = IF ~req[s].here THEN req[s]
                ELSE IF Current(s).key \in K THEN [req[s] EXCEPT !.here = FALSE, !.wait = 0]
                ELSE IF req[s].pc = "done" THEN [req[s] EXCEPT !.wait = @ - n]
                ELSE req[s]
  BY DEF Over
<1>3. CASE ~req[s].here \/ Current(s).key \in K
  <2>1. ~req'[s].here
    BY <1>1, <1>2, <1>3 DEF Requests
  <2>2. QED BY <2>1, NotHereFirm
<1>4. CASE req[s].here /\ Current(s).key \notin K
  <2>1. PICK w : req'[s] = req[s] \/ req'[s] = [req[s] EXCEPT !.wait = w]
    BY <1>2, <1>4
  <2>2. /\ req'[s].pc = req[s].pc /\ req'[s].new = req[s].new /\ req'[s].incr = req[s].incr
        /\ req'[s].plan = req[s].plan /\ req'[s].at = req[s].at
    BY <1>1, <2>1 DEF Requests
  <2>3. Current(s)' = Current(s)
    BY <2>2 DEF Current
  <2>4. val'[Current(s).key] >= val[Current(s).key]
    BY <1>1, <1>4, HereAtCheck
  <2>5. QED BY <1>1, <1>4, <2>2, <2>3, <2>4, FirmStays
<1>5. QED BY <1>3, <1>4

\* The refusals of both tiers, and peek's, are firm: early retries are refused
\* too, whatever else is asked of the counter meanwhile.
THEOREM RefusalsAreFirm == Spec => []RefusedWhileFull
<1> DEFINE AllFirm == \A r \in Request : Firm(r)
<1>1. Init => AllFirm
  BY DEF Init, Firm, Idle
<1>2. IInv /\ AllFirm /\ [Next]_vars => AllFirm'
  <2> SUFFICES ASSUME IInv, AllFirm, [Next]_vars PROVE AllFirm'
    OBVIOUS
  <2>1. ASSUME NEW r \in Request, Step(r) PROVE AllFirm'
    BY <2>1, FirmHit, FirmAnswer, FirmRead, FirmElsewhere DEF Step
  <2>2. ASSUME NEW k \in Counter, Reset(k) PROVE AllFirm'
    <3>1. val' = [j \in Counter |-> IF j \in {k} THEN 0 ELSE val[j]]
      BY <2>2 DEF Reset, IInv, TypeOK
    <3>2. Over({k}, 0) /\ {k} \in SUBSET Counter
      BY <2>2 DEF Reset
    <3>3. QED BY <3>1, <3>2, FirmOver
  <2>3. ASSUME Tick PROVE AllFirm'
    <3>1. PICK K \in SUBSET Counter : K = {k \in Counter : ttl[k] = 0}
      OBVIOUS
    <3>2. val' = [k \in Counter |-> IF k \in K THEN 0 ELSE val[k]] /\ Over(K, 1)
      BY <2>3, <3>1 DEF Tick
    <3>3. QED BY <3>2, FirmOver
  <2>4. CASE UNCHANGED vars
    BY <2>4 DEF vars, Firm, Current, Fits
  <2>5. QED BY <2>1, <2>2, <2>3, <2>4 DEF Next
<1>3. AllFirm => RefusedWhileFull
  BY DEF Firm, RefusedWhileFull
<1>4. QED BY <1>1, <1>2, <1>3, InvariantHolds, PTL DEF Spec
=============================================================================

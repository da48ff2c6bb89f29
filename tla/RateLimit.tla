----------------------------- MODULE RateLimit -----------------------------
(***************************************************************************)
(* The rate limiter of ratelimit.py and ratelimit_backend.py.              *)
(*                                                                         *)
(* A request makes its checks one after the other: the global one in the   *)
(* middleware, then those of its route.  A check is INCREX and PTTL in one *)
(* pipeline, or one Lua script; which of the two is remembered in an       *)
(* object all requests of the process share, and is read and written       *)
(* around awaits.  A command may fail before or after the server ran it.   *)
(* A client that was refused waits as long as it was told to.              *)
(***************************************************************************)
EXTENDS Integers, Sequences, FiniteSets

CONSTANTS Counter,     \* counter keys, scope and identity together
          Check,       \* the checks routes declare: [key, limit, window, cost, fail_closed]
          Plans,       \* the sequences of checks requests make
          Sec,         \* ticks of the server's clock in a second; windows are in seconds
          Request      \* concurrent requests

\* parse_rate and _validate_cost: what a route can be declared with.
ValidCheck(c) ==
  /\ c.key \in Counter /\ c.limit \in Nat \ {0} /\ c.window \in Nat \ {0}
  /\ c.cost \in Nat \ {0} /\ c.fail_closed \in BOOLEAN

ASSUME SecAssumption == Sec \in Nat \ {0}
ASSUME ChecksAssumption == \A c \in Check : ValidCheck(c)
ASSUME PlansAssumption == Plans \subseteq Seq(Check) \ {<< >>}

VARIABLES val,       \* val[k]: the counter
          ttl,       \* ttl[k]: its expiry; Absent: no key, NoTTL: no expiry
          server,    \* whether the server implements INCREX; never changes
          caps,      \* _BackendCapabilities.supports_increx
          req,       \* req[r]: a request and the locals of its hit or peek
          admitted   \* history: the units of k's window that let a request pass

vars == <<val, ttl, server, caps, req, admitted>>

\* What PTTL answers.  A key is there through its last instant, PTTL 0.
Absent == -2
NoTTL == -1

\* supports_increx: None, True or False.
Answers == {"unknown", "yes", "no"}
Truth == IF server THEN "yes" ELSE "no"

\* A RateLimitResult, as far as decisions and headers look at it.
Result(ok, n, bad) == [allowed |-> ok, remaining |-> n, degraded |-> bad]
NoResult == Result(TRUE, -1, FALSE)

\* new, incr, pttl: what the server answered.  here: the window the answer is
\* about is still open.  wait: ticks a refused client has still to wait.
Idle == [pc |-> "idle", plan |-> << >>, at |-> 0, new |-> 0, incr |-> 0, pttl |-> Absent,
         here |-> FALSE, seen |-> {}, shown |-> NoResult, wait |-> 0]

\* The check the request is making.
Current(r) == req[r].plan[req[r].at]

\* The units of the window a hit took.
Units(q) == (q.new - q.incr + 1)..q.new

Init ==
  /\ val = [k \in Counter |-> 0]
  /\ ttl = [k \in Counter |-> Absent]
  /\ server \in BOOLEAN
  /\ caps = "unknown"
  /\ req = [r \in Request |-> Idle]
  /\ admitted = [k \in Counter |-> {}]

-----------------------------------------------------------------------------
(***************************************************************************)
(* The two window counters                                                 *)
(***************************************************************************)

\* Mutant of Fits: the bound is tested before the cost is added.
FitsBefore(c) == val[c.key] < c.limit

Fits(c) == val[c.key] + c.cost <= c.limit

\* Mutant of Increx: EX without ENX.
IncrexEveryTime(c) ==
  IF Fits(c)
  THEN /\ val' = [val EXCEPT ![c.key] = @ + c.cost]
       /\ ttl' = [ttl EXCEPT ![c.key] = c.window * Sec]
  ELSE UNCHANGED <<val, ttl>>

\* INCREX key BYINT cost UBOUND limit EX window ENX.
Increx(c) ==
  IF Fits(c)
  THEN /\ val' = [val EXCEPT ![c.key] = @ + c.cost]
       /\ ttl' = [ttl EXCEPT ![c.key] = IF @ >= 0 THEN @ ELSE c.window * Sec]
  ELSE UNCHANGED <<val, ttl>>

\* Mutant of Script: the first unit is recognised by the value 1.
ScriptFirstUnit(c) ==
  IF Fits(c)
  THEN /\ val' = [val EXCEPT ![c.key] = @ + c.cost]
       /\ ttl' = [ttl EXCEPT ![c.key] = IF val[c.key] + c.cost = 1 THEN c.window * Sec
                                        ELSE IF @ = Absent THEN NoTTL ELSE @]
  ELSE UNCHANGED <<val, ttl>>

\* The Lua script: INCRBY, and EXPIRE when the new value is the cost.
Script(c) ==
  IF Fits(c)
  THEN /\ val' = [val EXCEPT ![c.key] = @ + c.cost]
       /\ ttl' = [ttl EXCEPT ![c.key] = IF val[c.key] + c.cost = c.cost THEN c.window * Sec
                                        ELSE IF @ = Absent THEN NoTTL ELSE @]
  ELSE UNCHANGED <<val, ttl>>

-----------------------------------------------------------------------------
(***************************************************************************)
(* _apply_limit, hit and _execute                                          *)
(***************************************************************************)

Arrive(r) ==
  /\ req[r].pc = "idle"
  /\ \E p \in Plans : req' = [req EXCEPT ![r] = [Idle EXCEPT !.pc = "check", !.plan = p, !.at = 1]]
  /\ UNCHANGED <<val, ttl, server, caps, admitted>>

\* What follows a check: the next one, or the endpoint, or the 429.
After(q) == IF q.at = Len(q.plan) THEN [q EXCEPT !.pc = "done"]
            ELSE [q EXCEPT !.pc = "check", !.at = @ + 1]

\* skip_when: the check is not made and nothing is stored.
Bypass(r) ==
  /\ req[r].pc = "check"
  /\ req' = [req EXCEPT ![r] = After(req[r])]
  /\ UNCHANGED <<val, ttl, server, caps, admitted>>

\* A rejection always wins; between two allowed results, the fewer remaining.
_is_more_constraining(new, current) ==
  IF new.allowed # current.allowed THEN ~new.allowed ELSE new.remaining < current.remaining

\* Mutant of _store_state: the last check wins.
StoreLast(q, result) == [q EXCEPT !.seen = @ \cup {result}, !.shown = result]

_store_state(q, result) ==
  [q EXCEPT !.seen = @ \cup {result},
            !.shown = IF @ # NoResult /\ ~_is_more_constraining(result, @) THEN @ ELSE result]

\* The result is stored; an allowed request goes on, a rejected one is done
\* and told to come back after `seconds`.
Conclude(r, q, result, seconds) ==
  LET stored == [_store_state(q, result) EXCEPT !.new = 0, !.incr = 0, !.pttl = Absent] IN
  req' = [req EXCEPT ![r] =
            IF result.allowed THEN After([stored EXCEPT !.here = FALSE])
            ELSE [stored EXCEPT !.pc = "done", !.wait = seconds * Sec]]

\* Redis could not be asked, its answer was lost, or the caller has no
\* identity: fail_closed decides.
Degraded(c) == Result(~c.fail_closed, IF c.fail_closed THEN 0 ELSE c.limit, TRUE)

\* The identifier raised CannotIdentifyClient.
Unidentified(r) ==
  /\ req[r].pc = "check"
  /\ Conclude(r, req[r], Degraded(Current(r)), Current(r).window)
  /\ UNCHANGED <<val, ttl, server, caps, admitted>>

\* _execute: still unknown, so ask; otherwise take the remembered tier.
Execute(r) ==
  /\ req[r].pc = "check"
  /\ req' = [req EXCEPT ![r].pc = CASE caps = "unknown" -> "probe"
                                    [] caps = "yes" -> "increx"
                                    [] caps = "no" -> "lua"]
  /\ UNCHANGED <<val, ttl, server, caps, admitted>>

\* Mutant of Probe: a question that was not answered is cached as "no".
ProbeCachesGuess(r) ==
  /\ req[r].pc = "probe"
  /\ caps' \in {Truth, "no"}
  /\ req' = [req EXCEPT ![r].pc = IF caps' = "no" THEN "lua" ELSE "increx"]
  /\ UNCHANGED <<val, ttl, server, admitted>>

\* COMMAND INFO answered, or the probe could not be made (None); what others
\* have learnt since it was sent is overwritten.
Probe(r) ==
  /\ req[r].pc = "probe"
  /\ caps' \in {Truth, "unknown"}
  /\ req' = [req EXCEPT ![r].pc = IF caps' = "no" THEN "lua" ELSE "increx"]
  /\ UNCHANGED <<val, ttl, server, admitted>>

\* The pipeline's INCREX, on a server that has it.
SendIncrex(r) ==
  LET c == Current(r) IN
  /\ req[r].pc = "increx"
  /\ server
  /\ Increx(c)
  /\ req' = [req EXCEPT ![r].pc = "increx_sent", ![r].new = val'[c.key],
                        ![r].incr = IF Fits(c) THEN c.cost ELSE 0,
                        ![r].here = (val'[c.key] > 0)]
  /\ UNCHANGED <<server, caps, admitted>>

\* The pipeline is no transaction: PTTL may run after the window has ended, or
\* after another request has opened the next one.
SendPttl(r) ==
  /\ req[r].pc = "increx_sent"
  /\ req' = [req EXCEPT ![r].pc = "increx_ran", ![r].pttl = ttl[Current(r).key]]
  /\ UNCHANGED <<val, ttl, server, caps, admitted>>

\* "unknown command": downgrade to the script.
UnknownCommand(r) ==
  /\ req[r].pc = "increx"
  /\ ~server
  /\ caps' = "no"
  /\ req' = [req EXCEPT ![r].pc = "lua"]
  /\ UNCHANGED <<val, ttl, server, admitted>>

SendScript(r) ==
  LET c == Current(r) IN
  /\ req[r].pc = "lua"
  /\ Script(c)
  /\ req' = [req EXCEPT ![r].pc = "lua_ran", ![r].new = val'[c.key],
                        ![r].incr = IF Fits(c) THEN c.cost ELSE 0,
                        ![r].pttl = ttl'[c.key], ![r].here = (val'[c.key] > 0)]
  /\ UNCHANGED <<server, caps, admitted>>

\* Mutant of Remaining: not cut off at zero.
RemainingSigned(c, n) == c.limit - n

Remaining(c, n) == IF n > c.limit THEN 0 ELSE c.limit - n

\* Mutant of ResetAfter: the TTL is cut down to whole seconds.
ResetAfterFloor(c, pttl) == IF pttl > 0 THEN pttl \div Sec ELSE c.window

\* Seconds: the TTL rounded up; a key without one, gone, or in its last
\* instant counts as a fresh window.
ResetAfter(c, pttl) == IF pttl > 0 THEN (pttl + Sec - 1) \div Sec ELSE c.window

\* The reply arrives: INCREX is known to work, and the tail of hit.  What the
\* request took of a window that is still open is admitted.
Answer(r) ==
  LET q == req[r]
      c == Current(r)
  IN
  /\ q.pc \in {"increx_ran", "lua_ran"}
  /\ caps' = IF q.pc = "increx_ran" THEN "yes" ELSE caps
  /\ Conclude(r, q, Result(q.incr # 0, Remaining(c, q.new), FALSE), ResetAfter(c, q.pttl))
  /\ admitted' = IF q.here THEN [admitted EXCEPT ![c.key] = @ \cup Units(q)] ELSE admitted
  /\ UNCHANGED <<val, ttl, server>>

\* RedisError or OSError, before the command ran or after.
Error(r) ==
  /\ req[r].pc \in {"increx", "lua", "increx_sent", "increx_ran", "lua_ran"}
  /\ Conclude(r, [req[r] EXCEPT !.here = FALSE], Degraded(Current(r)), Current(r).window)
  /\ UNCHANGED <<val, ttl, server, caps, admitted>>

\* The response, with the headers of what is shown, has been sent; or the
\* request was cancelled.
Finish(r) ==
  /\ req[r].pc # "idle"
  /\ req' = [req EXCEPT ![r] = Idle]
  /\ UNCHANGED <<val, ttl, server, caps, admitted>>

-----------------------------------------------------------------------------
(***************************************************************************)
(* peek, which consumes nothing and is no part of a request's checks       *)
(***************************************************************************)

Peek(r) ==
  /\ req[r].pc = "idle"
  /\ \E c \in Check : req' = [req EXCEPT ![r] = [Idle EXCEPT !.pc = "get", !.plan = <<c>>, !.at = 1]]
  /\ UNCHANGED <<val, ttl, server, caps, admitted>>

PeekGet(r) ==
  LET k == Current(r).key IN
  /\ req[r].pc = "get"
  /\ req' = [req EXCEPT ![r].pc = "peek_pttl", ![r].new = val[k], ![r].here = (val[k] > 0)]
  /\ UNCHANGED <<val, ttl, server, caps, admitted>>

\* A second trip.  A full counter is reported as a refusal would be.
PeekPttl(r) ==
  LET q == req[r]
      c == Current(r)
      full == q.new >= c.limit
  IN
  /\ q.pc = "peek_pttl"
  /\ req' = [req EXCEPT ![r] = [Idle EXCEPT !.pc = "done", !.plan = q.plan, !.at = q.at,
                                  !.here = full /\ q.here,
                                  !.wait = IF full THEN ResetAfter(c, ttl[c.key]) * Sec ELSE 0]]
  /\ UNCHANGED <<val, ttl, server, caps, admitted>>

\* GET or PTTL failed.  The backend's own fail_closed decides: allowed, or
\* told to wait for a whole window.
PeekError(r) ==
  LET q == req[r] IN
  /\ q.pc \in {"get", "peek_pttl"}
  /\ \E wait \in {0, Current(r).window * Sec} :
        req' = [req EXCEPT ![r] = [Idle EXCEPT !.pc = "done", !.plan = q.plan, !.at = q.at,
                                               !.wait = wait]]
  /\ UNCHANGED <<val, ttl, server, caps, admitted>>

-----------------------------------------------------------------------------
(***************************************************************************)
(* reset, and the server's clock                                           *)
(***************************************************************************)

\* The windows of the counters in K are over: what happened in them is history.
\* The clients that still wait have n ticks less to wait.
Over(K, n) ==
  /\ admitted' = [k \in Counter |-> IF k \in K THEN {} ELSE admitted[k]]
  /\ req' = [r \in Request |->
               IF ~req[r].here THEN req[r]
               ELSE IF Current(r).key \in K THEN [req[r] EXCEPT !.here = FALSE, !.wait = 0]
               ELSE IF req[r].pc = "done" THEN [req[r] EXCEPT !.wait = @ - n]
               ELSE req[r]]

Reset(k) ==
  /\ ttl[k] # Absent
  /\ val' = [val EXCEPT ![k] = 0]
  /\ ttl' = [ttl EXCEPT ![k] = Absent]
  /\ Over({k}, 0)
  /\ UNCHANGED <<server, caps>>

Tick ==
  /\ val' = [k \in Counter |-> IF ttl[k] = 0 THEN 0 ELSE val[k]]
  /\ ttl' = [k \in Counter |-> IF ttl[k] = 0 THEN Absent
                               ELSE IF ttl[k] > 0 THEN ttl[k] - 1 ELSE ttl[k]]
  /\ Over({k \in Counter : ttl[k] = 0}, 1)
  /\ UNCHANGED <<server, caps>>

Step(r) ==
  \/ Arrive(r) \/ Bypass(r) \/ Unidentified(r) \/ Execute(r) \/ Probe(r)
  \/ SendIncrex(r) \/ SendPttl(r) \/ UnknownCommand(r) \/ SendScript(r)
  \/ Answer(r) \/ Error(r) \/ Finish(r)
  \/ Peek(r) \/ PeekGet(r) \/ PeekPttl(r) \/ PeekError(r)

Next ==
  \/ \E r \in Request : Step(r)
  \/ \E k \in Counter : Reset(k)
  \/ Tick

Spec == Init /\ [][Next]_vars

-----------------------------------------------------------------------------
(***************************************************************************)
(* Properties                                                              *)
(***************************************************************************)

Results == [allowed : BOOLEAN, remaining : Nat, degraded : BOOLEAN]
Requests ==
  [pc : {"idle", "check", "probe", "increx", "increx_sent", "increx_ran", "lua", "lua_ran",
         "get", "peek_pttl", "done"},
   plan : Seq(Check), at : Nat, new : Nat, incr : Nat, pttl : Int, here : BOOLEAN,
   seen : SUBSET Results, shown : Results \cup {NoResult}, wait : Int]

\* Every counter, result and program counter is in its range; what is left to
\* a client is never negative, even when routes share a counter.
TypeOK ==
  /\ val \in [Counter -> Nat]
  /\ ttl \in [Counter -> Int]
  /\ \A k \in Counter : ttl[k] >= Absent
  /\ server \in BOOLEAN
  /\ caps \in Answers
  /\ req \in [Request -> Requests]
  /\ admitted \in [Counter -> SUBSET (Nat \ {0})]

\* Both tiers, mixed in any way and with any failures, make one fixed window:
\* it is never extended by a hit, and no request passes beyond its limit.
Windows == INSTANCE FixedWindow
             WITH count <- val, left <- [k \in Counter |-> IF ttl[k] >= 0 THEN ttl[k] ELSE -1]
ImplementsFixedWindow == Windows!WindowSpec

\* "Concurrent requests can never overshoot the limit": what one window admits
\* through checks that got an answer never exceeds what every check allows,
\* and no two requests pass on the same unit.
NoOvershoot ==
  /\ \A k \in Counter :
        admitted[k] # {} => \E c \in Check : c.key = k /\ Cardinality(admitted[k]) <= c.limit
  /\ \A r \in Request : req[r].here /\ req[r].incr > 0 =>
        Units(req[r]) \cap admitted[Current(r).key] = {}

\* A counter that exists has an expiry: nobody is limited for ever.
CounterExpires == \A k \in Counter : ttl[k] # NoTTL

\* The headers describe the limit that binds first: the rejection if there was
\* one, otherwise the answer with the fewest requests left.
ShowsTightest ==
  \A r \in Request :
     LET q == req[r] IN
     q.seen # {} => /\ q.shown \in q.seen
                    /\ \A x \in q.seen : q.shown.allowed =>
                         x.allowed /\ q.shown.remaining <= x.remaining

\* What the process remembers of the server is never wrong.
CapabilityTrue == caps # "unknown" => caps = Truth

\* "retry_after: seconds the client should wait before retrying": a client that
\* has waited longer than it was told, by a refusal or by peek, no longer finds
\* the window that refused it, whatever fell between the counter's answer and
\* the PTTL that was read for it.
RetryAfterSuffices == \A r \in Request : req[r].pc = "done" /\ req[r].here => req[r].wait >= 0
=============================================================================

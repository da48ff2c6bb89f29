------------------------------ MODULE Lifespan ------------------------------
(***************************************************************************)
(* The connection pools of an application: FastAPIRedis.lifespan() of      *)
(* setup.py, redis_lifespan() of lifespan.py, and _PoolState with the      *)
(* dependencies of deps.py that hand it out.                               *)
(*                                                                         *)
(* The lifespan of an application is a stack of handlers, each wrapped     *)
(* around those registered before it.  They are entered from the outermost *)
(* to the innermost and left in reverse, and the application may be        *)
(* started again; requests and background tasks may still run when it      *)
(* stops.                                                                  *)
(***************************************************************************)
EXTENDS Integers, Sequences, FiniteSets

CONSTANTS Feature,       \* what is found out about the server, once per pool
          Probed,        \* the features looked for at startup
          Instrumented,  \* otel_redis_enabled, with its library installed
          Request,       \* requests and background tasks
          MaxLayers,     \* bound: handlers
          MaxStates      \* bound: times a pool is made

ASSUME FeatureAssumption == Probed \subseteq Feature
ASSUME SettingsAssumption == Instrumented \in BOOLEAN
ASSUME BoundsAssumption == MaxLayers \in Nat \ {0} /\ MaxStates \in Nat

VARIABLES mode,     \* settings: one server, a cluster, or sentinels
          layers,   \* the handlers, innermost first
          phase,    \* of the application
          at,       \* the layer being entered or left
          step,     \* where redis_lifespan is, in that layer
          local,    \* local[i]: the _PoolState of layer i
          made,     \* how many of them there have been
          ps,       \* ps[n]: the n-th
          current,  \* app.state._redis, or 0
          otel,     \* redis-py is instrumented
          server,   \* the features the server has
          req,      \* req[r]: what a request does with its backend
          failed    \* history: the _PoolStates whose set-up or closing failed

vars == <<mode, layers, phase, at, step, local, made, ps, current, otel, server, req, failed>>

\* Nothing is known yet, or nobody has asked.
Unknown == "unknown"
NoCaps == [f \in Feature |-> "none"]

\* pool stands for the pool or the cluster; resets counts the clears of caps.
NoState == [pool |-> "none", sentinel |-> "none", caps |-> NoCaps, resets |-> 0]

NoBackend == [pc |-> "idle", of |-> 0, resets |-> 0, feature |-> "none"]

Init ==
  /\ mode \in {"single", "cluster", "sentinel"}
  /\ layers = <<"other">>
  /\ phase = "setup" /\ at = 0 /\ step = "none"
  /\ local = [i \in 1..MaxLayers |-> 0]
  /\ made = 0
  /\ ps = [n \in 1..MaxStates |-> NoState]
  /\ current = 0
  /\ otel = FALSE
  /\ server \in SUBSET Feature
  /\ req = [r \in Request |-> NoBackend]
  /\ failed = {}

-----------------------------------------------------------------------------
(***************************************************************************)
(* Set-up                                                                  *)
(***************************************************************************)

\* FastAPIRedis.lifespan(), a no-op if the outermost handler is its own.
lifespan ==
  /\ phase = "setup"
  /\ Len(layers) < MaxLayers
  /\ layers[Len(layers)] # "redis"
  /\ layers' = Append(layers, "redis")
  /\ UNCHANGED <<mode, phase, at, step, local, made, ps, current, otel, server, req, failed>>

\* Another library wraps the lifespan, in the same way.
Another ==
  /\ phase = "setup"
  /\ Len(layers) < MaxLayers
  /\ layers' = Append(layers, "other")
  /\ UNCHANGED <<mode, phase, at, step, local, made, ps, current, otel, server, req, failed>>

-----------------------------------------------------------------------------
(***************************************************************************)
(* Start: from the outermost layer in                                      *)
(***************************************************************************)

\* Goes on with the next layer inside, or serves when there is none.
Inwards ==
  /\ at' = at - 1
  /\ step' = "none"
  /\ phase' = IF at = 1 THEN "serving" ELSE "starting"

\* Mutant of Outwards: one layer too many.
OutwardsPast ==
  /\ at' = at + 1
  /\ step' = "none"
  /\ phase' = IF at > Len(layers) THEN "stopped" ELSE "stopping"

\* Goes on with the next layer outside, or has stopped when there is none.
Outwards ==
  /\ at' = IF at = Len(layers) THEN 0 ELSE at + 1
  /\ step' = "none"
  /\ phase' = IF at = Len(layers) THEN "stopped" ELSE "stopping"

\* The layers that are redis_lifespan's.
Redis == {i \in 1..Len(layers) : layers[i] = "redis"}

\* The application starts, while there is room for the pools it will make.
Start ==
  /\ phase \in {"setup", "stopped"}
  /\ made + Cardinality(Redis) <= MaxStates
  /\ phase' = "starting"
  /\ at' = Len(layers)
  /\ step' = "none"
  /\ UNCHANGED <<mode, layers, local, made, ps, current, otel, server, req, failed>>

\* Another handler starts; or raises, and the layers around it are left.
EnterOther ==
  /\ phase = "starting" /\ layers[at] = "other"
  /\ Inwards \/ Outwards
  /\ UNCHANGED <<mode, layers, local, made, ps, current, otel, server, req, failed>>

\* Mutant of Attached: a _PoolState that is there is kept.
AttachedOnce(n) == IF current = 0 THEN n ELSE current

\* app.state._redis
Attached(n) == n

\* Mutant of Opened: what was known before is taken over.
OpenedWarm ==
  [NoState EXCEPT !.pool = "open", !.sentinel = IF mode = "sentinel" THEN "open" ELSE "none",
                  !.caps = IF current = 0 THEN NoCaps ELSE ps[current].caps]

\* Mutant of Opened: with sentinels the pool itself is forgotten.
OpenedSentinel ==
  IF mode = "sentinel" THEN [NoState EXCEPT !.sentinel = "open"]
  ELSE [NoState EXCEPT !.pool = "open"]

\* A new _PoolState, with its pool and perhaps sentinels.
Opened ==
  [NoState EXCEPT !.pool = "open", !.sentinel = IF mode = "sentinel" THEN "open" ELSE "none"]

\* redis_lifespan up to the probe.  Building the pool may raise.  There is room
\* for it: Start has seen to that.
EnterRedis ==
  /\ phase = "starting" /\ layers[at] = "redis" /\ step = "none"
  /\ made < MaxStates
  /\ made' = made + 1
  /\ current' = Attached(made + 1)
  /\ otel' = Instrumented
  /\ \/ /\ ps' = [ps EXCEPT ![made + 1] = Opened]
        /\ local' = [local EXCEPT ![at] = made + 1]
        /\ step' = "probe"
        /\ UNCHANGED <<phase, at, failed>>
     \/ /\ Outwards
        /\ failed' = failed \cup {made + 1}
        /\ UNCHANGED <<ps, local>>
  /\ UNCHANGED <<mode, layers, server, req>>

\* What a probe finds, if the server answers.
Found(f) == {Unknown, IF f \in server THEN "yes" ELSE "no"}

\* _probe_rate_limit_capabilities: the answer, or nothing; whatever it raises
\* is swallowed.
StartupProbe ==
  /\ phase = "starting" /\ step = "probe"
  /\ \E answer \in {g \in [Feature -> {"none", Unknown, "yes", "no"}] :
                      \A f \in Feature : g[f] \in (IF f \in Probed THEN Found(f) \cup {"none"}
                                                   ELSE {"none"})} :
        ps' = [ps EXCEPT ![local[at]].caps =
                 [f \in Feature |-> IF answer[f] = "none" THEN @[f] ELSE answer[f]]]
  /\ step' = "safety"
  /\ UNCHANGED <<mode, layers, phase, at, local, made, current, otel, server, req, failed>>

\* It asks for the eviction policy, logs, and raises nothing.
_check_cache_eviction_safety ==
  /\ phase = "starting" /\ step = "safety"
  /\ Inwards
  /\ UNCHANGED <<mode, layers, local, made, ps, current, otel, server, req, failed>>

\* The startup is cancelled in one of the two: the pool is left as it is.
Cancelled ==
  /\ phase = "starting" /\ step \in {"probe", "safety"}
  /\ Outwards
  /\ failed' = failed \cup {local[at]}
  /\ UNCHANGED <<mode, layers, local, made, ps, current, otel, server, req>>

-----------------------------------------------------------------------------
(***************************************************************************)
(* Stop: from the innermost layer out                                      *)
(***************************************************************************)

Stop ==
  /\ phase = "serving"
  /\ phase' = "stopping" /\ at' = 1
  /\ UNCHANGED <<mode, layers, step, local, made, ps, current, otel, server, req, failed>>

\* Another handler ends, or raises.
ExitOther ==
  /\ phase = "stopping" /\ layers[at] = "other"
  /\ Outwards
  /\ UNCHANGED <<mode, layers, local, made, ps, current, otel, server, req, failed>>

\* The layer being left is one of redis_lifespan's.
Leaving(s) == phase = "stopping" /\ layers[at] = "redis" /\ step = s

\* Leaving a layer fails: what it had yet to do is not done.
Breaks ==
  /\ Outwards
  /\ failed' = failed \cup {local[at]}

\* _PoolState.clear()
clear ==
  /\ Leaving("none")
  /\ step' = "pool"
  /\ ps' = [ps EXCEPT ![local[at]].caps = NoCaps, ![local[at]].resets = @ + 1]
  /\ UNCHANGED <<mode, layers, phase, at, local, made, current, otel, server, req, failed>>

\* Mutant of AfterPool: sentinels are taken for a part of the pool.
AfterPoolOtel == "otel"

AfterPool == IF mode = "sentinel" THEN "sentinel" ELSE "otel"

ClosePool ==
  /\ Leaving("pool")
  /\ \/ /\ ps' = [ps EXCEPT ![local[at]].pool = "none"]
        /\ step' = AfterPool
        /\ UNCHANGED <<phase, at, failed>>
     \/ /\ Breaks
        /\ UNCHANGED ps
  /\ UNCHANGED <<mode, layers, local, made, current, otel, server, req>>

CloseSentinels ==
  /\ Leaving("sentinel")
  /\ \/ /\ ps' = [ps EXCEPT ![local[at]].sentinel = "none"]
        /\ step' = "otel"
        /\ UNCHANGED <<phase, at, failed>>
     \/ /\ Breaks
        /\ UNCHANGED ps
  /\ UNCHANGED <<mode, layers, local, made, current, otel, server, req>>

\* What it raises is swallowed.
_shutdown_redis_otel ==
  /\ Leaving("otel")
  /\ otel' = FALSE
  /\ Outwards
  /\ UNCHANGED <<mode, layers, local, made, ps, current, server, req, failed>>

-----------------------------------------------------------------------------
(***************************************************************************)
(* Requests                                                                *)
(***************************************************************************)

\* get_rate_limit_backend and get_session_store: what is known of the server
\* is kept with the pool, and its place is made before the pool is looked for;
\* without a pool they raise.  A task that outlived the application may ask at
\* any time.  (Before the first lifespan there is nothing to hand out, and what
\* _get_pool_state then makes is replaced by the first start.)
GetBackend(r, f) ==
  /\ current # 0
  /\ req[r].pc = "idle"
  /\ ps' = [ps EXCEPT ![current].caps[f] = IF @ = "none" THEN Unknown ELSE @]
  /\ req' = IF ps[current].pool = "none" THEN req
            ELSE [req EXCEPT ![r] = [pc |-> "probe", of |-> current,
                                     resets |-> ps[current].resets, feature |-> f]]
  /\ UNCHANGED <<mode, layers, phase, at, step, local, made, current, otel, server, failed>>

\* The backend asks the server, and notes the answer where it was made to; if
\* the pool has been cleared since, nobody else sees it.
Probe(r) ==
  LET q == req[r] IN
  /\ q.pc = "probe"
  /\ \E answer \in Found(q.feature) :
        ps' = IF ps[q.of].resets = q.resets /\ ps[q.of].caps[q.feature] = Unknown
              THEN [ps EXCEPT ![q.of].caps[q.feature] = answer]
              ELSE ps
  /\ req' = [req EXCEPT ![r] = NoBackend]
  /\ UNCHANGED <<mode, layers, phase, at, step, local, made, current, otel, server, failed>>

\* Between two lives of the application the server is replaced.
Upgrade ==
  /\ phase = "stopped"
  /\ server' \in SUBSET Feature
  /\ UNCHANGED <<mode, layers, phase, at, step, local, made, ps, current, otel, req, failed>>

Next ==
  \/ lifespan \/ Another \/ Start \/ EnterOther \/ EnterRedis
  \/ StartupProbe \/ _check_cache_eviction_safety \/ Cancelled
  \/ Stop \/ ExitOther \/ clear \/ ClosePool \/ CloseSentinels \/ _shutdown_redis_otel
  \/ \E r \in Request : (\E f \in Feature : GetBackend(r, f)) \/ Probe(r)
  \/ Upgrade

Spec == Init /\ [][Next]_vars

-----------------------------------------------------------------------------
(***************************************************************************)
(* Properties                                                              *)
(***************************************************************************)

Caps == {"none", Unknown, "yes", "no"}

Pools ==
  [pool : {"none", "open"}, sentinel : {"none", "open"}, caps : [Feature -> Caps], resets : Nat]
Tasks ==
  [pc : {"idle", "probe"}, of : 0..MaxStates, resets : Nat, feature : Feature \cup {"none"}]

\* Everything has its type, and only a pool that was made is used.
TypeOK ==
  /\ mode \in {"single", "cluster", "sentinel"}
  /\ layers \in Seq({"redis", "other"}) /\ Len(layers) <= MaxLayers
  /\ phase \in {"setup", "starting", "serving", "stopping", "stopped"}
  /\ at \in 0..Len(layers)
  /\ phase \in {"starting", "stopping"} => at # 0
  /\ step \in {"none", "probe", "safety", "pool", "sentinel", "otel"}
  /\ local \in [1..MaxLayers -> 0..made]
  /\ made \in 0..MaxStates
  /\ ps \in [1..MaxStates -> Pools]
  /\ current \in 0..made
  /\ otel \in BOOLEAN
  /\ server \in SUBSET Feature
  /\ req \in [Request -> Tasks]
  /\ failed \subseteq 1..made

\* Whatever happened in earlier lives of the application, while it serves the
\* pool requests are given is open.
UpWhileServing ==
  phase = "serving" /\ Redis # {} => current # 0 /\ ps[current].pool = "open"

\* "Redis pools are available for the duration of the app (and for any other
\* lifespan handlers already registered)": both when they start and when they
\* end.
HandlersHaveRedis ==
  \A i \in 1..Len(layers) :
     /\ phase \in {"starting", "stopping"} /\ at = i /\ layers[i] = "other"
     /\ \E j \in Redis : j > i
     => current # 0 /\ ps[current].pool = "open"

\* The promise holds where lifespan() took effect once.
HandlersHaveRedisOnce ==
  (\A i, j \in Redis : i = j) => HandlersHaveRedis

\* A stop leaves nothing behind, but for the pool that could not be opened or
\* closed itself; that one keeps no other from being closed.
NothingLeft ==
  phase = "stopped" =>
    /\ \A n \in 1..MaxStates :
          n \notin failed => ps[n].pool = "none" /\ ps[n].sentinel = "none"
    /\ otel => failed # {}

\* While the application serves, what is known of the server is about the
\* server there is now, although tasks of its earlier life may still ask, and
\* be answered, at any time.
CapabilityOfServer ==
  phase = "serving" /\ current # 0 =>
    \A f \in Feature : ps[current].caps[f] \in {"none"} \cup Found(f)
=============================================================================

--------------------------- MODULE LifespanProofs ---------------------------
(***************************************************************************)
(* Theorems about Lifespan, for every number of handlers, of lives of the  *)
(* application and of requests.                                            *)
(*                                                                         *)
(* A pool is open only while the layer that made it is entered, or if that *)
(* layer failed; while the application starts and serves, the pool in use  *)
(* is the one of the last redis layer entered, and what is known of the    *)
(* server was found out in this life.                                      *)
(***************************************************************************)
EXTENDS Lifespan, TLAPS

\* The redis layers around the one being entered or left.
Around == {i \in Redis : i > at}

\* The redis layers that have been entered, and are not past these steps.
Inside(steps) ==
  {i \in Redis :
     \/ phase = "serving"
     \/ phase \in {"starting", "stopping"} /\ i > at
     \/ phase = "starting" /\ i = at /\ step \in {"probe", "safety"}
     \/ phase = "stopping" /\ i = at /\ step \in steps}

\* Those with a pool, with sentinels, with anything that is yet to be closed.
WithPool == Inside({"none", "pool"})
WithSentinel == Inside({"none", "pool", "sentinel"})
WithOtel == Inside({"none", "pool", "sentinel", "otel"})

\* Where the application is, and what its tasks hold.
PlaceOK ==
  /\ Len(layers) >= 1
  /\ phase \in {"starting", "stopping"} => at \in 1..Len(layers)
  /\ phase \notin {"starting", "stopping"} => step = "none"
  /\ phase = "starting" => step \in {"none", "probe", "safety"}
  /\ phase = "stopping" => step \in {"none", "pool", "sentinel", "otel"}
  /\ step # "none" => layers[at] = "redis"
  /\ phase = "setup" => current = 0
  /\ current # 0 => Redis # {}
  /\ \A i \in WithOtel : local[i] \in 1..MaxStates
  /\ \A n \in 1..MaxStates : ps[n].sentinel = "open" => mode = "sentinel"
  /\ \A r \in Request : req[r].pc = "probe" =>
        req[r].of \in 1..MaxStates /\ req[r].feature \in Feature

\* Whatever is open belongs to a layer, or to one that failed.
OpenOK ==
  /\ \A n \in 1..MaxStates : n \notin failed =>
       /\ ps[n].pool = "open" => \E i \in WithPool : local[i] = n
       /\ ps[n].sentinel = "open" => \E i \in WithSentinel : local[i] = n
  /\ otel => failed # {} \/ WithOtel # {}

\* No redis layer has been left, and none was left out.
Entire == WithPool = Redis

\* The pool that requests are given, while the application starts and serves,
\* and while it stops until the first redis layer is left.
InUseOK ==
  WithPool # {} /\ (phase \in {"starting", "serving"} \/ (phase = "stopping" /\ Entire)) =>
    current # 0 /\ ps[current].pool = "open"

\* What is known of the server there is now.
KnownOK ==
  WithPool # {} /\ phase \in {"starting", "serving"} =>
    \A f \in Feature : ps[current].caps[f] \in {"none"} \cup Found(f)

IInv == TypeOK /\ PlaceOK /\ OpenOK /\ InUseOK /\ KnownOK

-----------------------------------------------------------------------------

\* Going in, the layer that was being entered has been.
LEMMA InwardsInside ==
  ASSUME TypeOK, PlaceOK, phase = "starting", Inwards, layers' = layers, NEW S
  PROVE  /\ Inside(S)' = Around \cup {i \in Redis : i = at}
         /\ phase' \in {"starting", "serving"} /\ step' = "none"
         /\ phase' = "starting" => at' \in 1..Len(layers)
         /\ at' \in 0..Len(layers)
BY DEF TypeOK, PlaceOK, Inwards, Inside, Around, Redis

\* Going out, only the layers around remain.
LEMMA OutwardsInside ==
  ASSUME TypeOK, PlaceOK, phase \in {"starting", "stopping"}, Outwards, layers' = layers,
         NEW S, "none" \in S
  PROVE  /\ Inside(S)' = Around
         /\ phase' \in {"stopping", "stopped"} /\ step' = "none"
         /\ phase' = "stopping" => at' \in 1..Len(layers)
         /\ at' \in 0..Len(layers)
BY DEF TypeOK, PlaceOK, Outwards, Inside, Around, Redis

\* The layers around have been entered.
LEMMA AroundInside ==
  ASSUME TypeOK, phase \in {"starting", "stopping"}, NEW S
  PROVE  /\ Around \subseteq Inside(S)
         /\ phase = "starting" /\ step = "none" => Inside(S) = Around
         /\ step \notin S \cup {"probe", "safety"} => Inside(S) = Around
BY DEF TypeOK, Around, Inside

\* A _PoolState before it has a pool.
LEMMA NoStateType == NoState \in Pools
<1>1. NoCaps \in [Feature -> Caps]
  BY DEF NoCaps, Caps
<1>2. QED BY <1>1 DEF NoState, Pools

\* A request before it has a backend.
LEMMA NoBackendType == NoBackend \in Tasks
<1>1. 0 \in 0..MaxStates
  BY BoundsAssumption
<1>2. QED BY <1>1 DEF NoBackend, Tasks

\* Initially nothing is open.
LEMMA InvariantInit == Init => IInv
<1> SUFFICES ASSUME Init PROVE IInv
  OBVIOUS
<1>1. layers \in Seq({"redis", "other"}) /\ Len(layers) = 1
  BY DEF Init
<1>2. NoState \in Pools /\ NoBackend \in Tasks
  BY NoBackendType, NoStateType
<1>3. TypeOK
  <2>1. local \in [1..MaxLayers -> 0..made] /\ made \in 0..MaxStates /\ Len(layers) <= MaxLayers
    BY <1>1, BoundsAssumption DEF Init
  <2>2. ps \in [1..MaxStates -> Pools] /\ req \in [Request -> Tasks]
    BY <1>2 DEF Init
  <2>3. at \in 0..Len(layers) /\ current \in 0..made /\ failed \subseteq 1..made
    BY <1>1 DEF Init
  <2>4. /\ mode \in {"single", "cluster", "sentinel"} /\ phase = "setup" /\ step = "none"
        /\ otel \in BOOLEAN /\ server \in SUBSET Feature
    BY DEF Init
  <2>5. QED BY <1>1, <2>1, <2>2, <2>3, <2>4 DEF TypeOK
<1>4. WithPool = {} /\ WithSentinel = {} /\ WithOtel = {}
  BY DEF Init, WithPool, WithSentinel, WithOtel, Inside
<1>5. PlaceOK /\ OpenOK /\ InUseOK /\ KnownOK
  BY <1>4 DEF Init, PlaceOK, OpenOK, InUseOK, KnownOK, NoState, NoBackend
<1>6. QED BY <1>3, <1>5 DEF IInv

\* What is found out about the server is one of three answers.
LEMMA FoundCaps ==
  ASSUME NEW f \in Feature
  PROVE  Found(f) \subseteq Caps /\ Unknown \in Found(f) /\ Unknown \in Caps /\ "none" \in Caps
BY DEF Found, Caps

-----------------------------------------------------------------------------
(***************************************************************************)
(* Set-up and start                                                        *)
(***************************************************************************)

\* While the application is set up nothing is open.
LEMMA SetupStep ==
  ASSUME IInv, lifespan \/ Another
  PROVE  IInv'
<1>0. PICK layer \in {"redis", "other"} :
         phase = "setup" /\ Len(layers) < MaxLayers /\ layers' = Append(layers, layer)
  BY DEF lifespan, Another
<1>1. /\ phase = "setup" /\ phase' = "setup" /\ current = 0
      /\ layers' \in Seq({"redis", "other"}) /\ Len(layers') <= MaxLayers /\ Len(layers') >= 1
      /\ Len(layers') = Len(layers) + 1 /\ at' = at
  BY <1>0, BoundsAssumption DEF IInv, TypeOK, PlaceOK, lifespan, Another
<1>2. /\ WithPool = {} /\ WithSentinel = {} /\ WithOtel = {}
      /\ WithPool' = {} /\ WithSentinel' = {} /\ WithOtel' = {}
  BY <1>1 DEF WithPool, WithSentinel, WithOtel, Inside
<1>3. UNCHANGED <<mode, phase, at, step, local, made, ps, current, otel, server, req, failed>>
  BY DEF lifespan, Another
<1>4. TypeOK'
  BY <1>1, <1>3 DEF IInv, TypeOK
<1>5. PlaceOK'
  BY <1>1, <1>2, <1>3 DEF IInv, PlaceOK
<1>6. OpenOK' /\ InUseOK' /\ KnownOK'
  BY <1>2, <1>3 DEF IInv, OpenOK, InUseOK, KnownOK
<1>7. QED BY <1>4, <1>5, <1>6 DEF IInv

\* A start finds nothing open, but for what failed before.
LEMMA StartStep ==
  ASSUME IInv, Start
  PROVE  IInv'
<1>1. /\ phase \in {"setup", "stopped"} /\ phase' = "starting" /\ at' = Len(layers) /\ step' = "none"
      /\ UNCHANGED <<mode, layers, local, made, ps, current, otel, server, req, failed>>
  BY DEF Start
<1>2. Len(layers) \in Nat
  BY DEF IInv, TypeOK
<1>3. /\ WithPool = {} /\ WithSentinel = {} /\ WithOtel = {}
      /\ WithPool' = {} /\ WithSentinel' = {} /\ WithOtel' = {}
  BY <1>1, <1>2 DEF WithPool, WithSentinel, WithOtel, Inside, Redis
<1>4. TypeOK'
  BY <1>1, <1>2 DEF IInv, TypeOK, PlaceOK
<1>5. PlaceOK'
  BY <1>1, <1>2, <1>3 DEF IInv, PlaceOK, Redis
<1>6. OpenOK' /\ InUseOK' /\ KnownOK'
  BY <1>1, <1>3 DEF IInv, OpenOK, InUseOK, KnownOK
<1>7. QED BY <1>4, <1>5, <1>6 DEF IInv

\* Passing another library's layer opens and closes nothing.
LEMMA OtherStep ==
  ASSUME IInv, EnterOther \/ ExitOther
  PROVE  IInv'
<1>1. /\ phase \in {"starting", "stopping"} /\ layers[at] = "other"
      /\ Outwards \/ (phase = "starting" /\ Inwards)
      /\ UNCHANGED <<mode, layers, local, made, ps, current, otel, server, req, failed>>
  BY DEF EnterOther, ExitOther
<1>2. ASSUME NEW S, "none" \in S
      PROVE  Inside(S) = Around /\ Inside(S)' = Around
  <2>1. {i \in Redis : i = at} = {}
    BY <1>1 DEF Redis
  <2>2. QED BY <1>1, <1>2, <2>1, InwardsInside, OutwardsInside DEF IInv, Inside, Around
<1>3. /\ WithPool' = WithPool /\ WithSentinel' = WithSentinel /\ WithOtel' = WithOtel
  BY <1>2 DEF WithPool, WithSentinel, WithOtel
<1>4. /\ phase' \in {"starting", "serving", "stopping", "stopped"} /\ step' = "none"
      /\ phase' \in {"starting", "stopping"} => at' \in 1..Len(layers)
      /\ at' \in 0..Len(layers)
      /\ phase' \in {"starting", "serving"} => phase = "starting"
  BY <1>1, InwardsInside, OutwardsInside DEF IInv, Outwards
<1>5. TypeOK'
  BY <1>1, <1>4 DEF IInv, TypeOK
<1>6. PlaceOK'
  BY <1>1, <1>3, <1>4 DEF IInv, PlaceOK, Redis
<1>7. OpenOK'
  BY <1>1, <1>3 DEF IInv, OpenOK
<1>8. InUseOK' /\ KnownOK'
  BY <1>1, <1>3, <1>4 DEF IInv, InUseOK, KnownOK, Entire, Redis, Found
<1>9. QED BY <1>5, <1>6, <1>7, <1>8 DEF IInv

\* Opening gives the new _PoolState its pool, and knows nothing of the server.
LEMMA OpenedFields ==
  ASSUME TypeOK
  PROVE  /\ Opened \in Pools
         /\ Opened.pool = "open"
         /\ Opened.sentinel = "open" => mode = "sentinel"
         /\ Opened.caps = NoCaps
BY NoStateType DEF Opened, NoState, Pools

\* A layer is entered: its pool is the one in use from here on; or it is not.
LEMMA EnterRedisStep ==
  ASSUME IInv, EnterRedis
  PROVE  IInv'
<1> DEFINE n == made + 1
<1>0. TypeOK /\ PlaceOK /\ OpenOK /\ InUseOK /\ KnownOK
  BY DEF IInv
<1>1. /\ phase = "starting" /\ step = "none" /\ layers[at] = "redis" /\ made < MaxStates
      /\ made' = n /\ current' = n /\ otel' = Instrumented
      /\ UNCHANGED <<mode, layers, server, req>>
  BY DEF EnterRedis, Attached
<1>2. /\ n \in 1..MaxStates /\ made \in Nat /\ at \in 1..Len(layers) /\ at \in Redis
      /\ local \in [1..MaxLayers -> 0..made] /\ at \in 1..MaxLayers /\ n \notin 1..made
  BY <1>0, <1>1, BoundsAssumption DEF TypeOK, PlaceOK, Redis
<1> HIDE DEF n
<1>3. WithPool = Around /\ WithSentinel = Around /\ WithOtel = Around
  BY <1>0, <1>1, AroundInside DEF WithPool, WithSentinel, WithOtel
<1>4. \A i \in Around : i # at
  BY <1>0, <1>2 DEF Around, Redis, TypeOK
<1>5. CASE /\ ps' = [ps EXCEPT ![n] = Opened]
           /\ local' = [local EXCEPT ![at] = n]
           /\ step' = "probe"
           /\ UNCHANGED <<phase, at, failed>>
  <2>1. /\ ps' \in [1..MaxStates -> Pools]
        /\ ps'[n] = Opened
        /\ \A m \in 1..MaxStates : m # n => ps'[m] = ps[m]
    BY <1>0, <1>2, <1>5, OpenedFields DEF TypeOK
  <2>2. /\ local' \in [1..MaxLayers -> 0..made'] /\ local'[at] = n
        /\ \A i \in Around : local'[i] = local[i]
    BY <1>0, <1>1, <1>2, <1>4, <1>5 DEF n, TypeOK, Around, Redis
  <2>3. /\ WithPool' = Around \cup {at} /\ WithSentinel' = Around \cup {at}
        /\ WithOtel' = Around \cup {at}
    BY <1>1, <1>2, <1>5 DEF WithPool, WithSentinel, WithOtel, Inside, Around, Redis
  <2>4. TypeOK'
    BY <1>0, <1>1, <1>2, <1>5, <2>1, <2>2, SettingsAssumption DEF TypeOK, n
  <2>5. PlaceOK'
    BY <1>0, <1>1, <1>2, <1>3, <1>5, <2>1, <2>2, <2>3, OpenedFields DEF PlaceOK, Redis
  <2>6. OpenOK'
    BY <1>0, <1>2, <1>3, <1>5, <2>1, <2>2, <2>3 DEF OpenOK
  <2>7. InUseOK' /\ KnownOK'
    <3>1. current' = n /\ n # 0 /\ ps'[n].pool = "open"
      BY <1>1, <1>2, <2>1, <1>0, OpenedFields
    <3>2. \A f \in Feature : ps'[n].caps[f] = "none"
      BY <2>1, <1>0, OpenedFields DEF NoCaps
    <3>3. QED BY <3>1, <3>2 DEF InUseOK, KnownOK
  <2>8. QED BY <2>4, <2>5, <2>6, <2>7 DEF IInv
<1>6. CASE /\ Outwards
           /\ failed' = failed \cup {n}
           /\ UNCHANGED <<ps, local>>
  <2>1. WithPool' = Around /\ WithSentinel' = Around /\ WithOtel' = Around
    BY <1>0, <1>1, <1>6, OutwardsInside DEF WithPool, WithSentinel, WithOtel
  <2>2. /\ phase' \in {"stopping", "stopped"} /\ step' = "none"
        /\ phase' = "stopping" => at' \in 1..Len(layers)
        /\ at' \in 0..Len(layers)
    BY <1>0, <1>1, <1>6, OutwardsInside
  <2>3. TypeOK'
    BY <1>0, <1>1, <1>2, <1>6, <2>2, SettingsAssumption DEF TypeOK, n
  <2>4. PlaceOK'
    BY <1>0, <1>1, <1>2, <1>3, <1>6, <2>1, <2>2 DEF PlaceOK, Redis
  <2>5. OpenOK'
    BY <1>0, <1>3, <1>6, <2>1 DEF OpenOK
  <2>6. InUseOK' /\ KnownOK'
    BY <1>1, <1>2, <1>4, <2>1, <2>2 DEF InUseOK, KnownOK, Entire, Around, Redis
  <2>7. QED BY <2>3, <2>4, <2>5, <2>6 DEF IInv
<1>7. QED BY <1>5, <1>6 DEF EnterRedis, n

\* Changing what is known of the server opens and closes nothing.
LEMMA CapsChange ==
  ASSUME NEW q \in Pools, NEW g \in [Feature -> Caps]
  PROVE  /\ [q EXCEPT !.caps = g] \in Pools
         /\ [q EXCEPT !.caps = g].pool = q.pool
         /\ [q EXCEPT !.caps = g].sentinel = q.sentinel
         /\ [q EXCEPT !.caps = g].caps = g
BY DEF Pools

\* The probe finds out about the server there is, for the pool just opened.
LEMMA StartupProbeStep ==
  ASSUME IInv, StartupProbe
  PROVE  IInv'
<1>0. TypeOK /\ PlaceOK /\ OpenOK /\ InUseOK /\ KnownOK
  BY DEF IInv
<1> DEFINE n == local[at]
<1>1. /\ phase = "starting" /\ step = "probe" /\ step' = "safety"
      /\ UNCHANGED <<mode, layers, phase, at, local, made, current, otel, server, req, failed>>
  BY DEF StartupProbe
<1>2. /\ at \in Redis
      /\ WithPool = Around \cup {i \in Redis : i = at}
      /\ WithSentinel = Around \cup {i \in Redis : i = at}
      /\ WithOtel = Around \cup {i \in Redis : i = at}
  BY <1>0, <1>1 DEF PlaceOK, WithPool, WithSentinel, WithOtel, Inside, Around, Redis
<1>3. n \in 1..MaxStates
  BY <1>0, <1>2 DEF PlaceOK
<1>4. PICK answer \in [Feature -> {"none", Unknown, "yes", "no"}] :
         /\ \A f \in Feature : answer[f] \in Found(f) \cup {"none"}
         /\ ps' = [ps EXCEPT ![n].caps =
                     [f \in Feature |-> IF answer[f] = "none" THEN @[f] ELSE answer[f]]]
  BY DEF StartupProbe
<1> HIDE DEF n
<1> DEFINE g == [f \in Feature |-> IF answer[f] = "none" THEN ps[n].caps[f] ELSE answer[f]]
<1>5. ps[n] \in Pools /\ ps[n].caps \in [Feature -> Caps]
  BY <1>0, <1>3 DEF TypeOK, Pools
<1>6. g \in [Feature -> Caps] /\ \A f \in Feature : g[f] \in Found(f) \cup {ps[n].caps[f]}
  BY <1>4, <1>5 DEF Caps
<1>7. ps' = [ps EXCEPT ![n].caps = g]
  BY <1>4
<1> HIDE DEF g
<1>8. /\ ps' \in [1..MaxStates -> Pools]
      /\ \A m \in 1..MaxStates :
           /\ ps'[m].pool = ps[m].pool /\ ps'[m].sentinel = ps[m].sentinel
           /\ ps'[m].caps = IF m = n THEN g ELSE ps[m].caps
  <2> DEFINE p == [ps[n] EXCEPT !.caps = g]
  <2>1. p \in Pools /\ p.pool = ps[n].pool /\ p.sentinel = ps[n].sentinel /\ p.caps = g
    BY <1>5, <1>6, CapsChange
  <2>2. ps' = [ps EXCEPT ![n] = p] /\ ps \in [1..MaxStates -> Pools]
    BY <1>0, <1>7 DEF TypeOK
  <2> HIDE DEF p
  <2>3. QED BY <1>3, <2>1, <2>2
<1>9. WithPool' = WithPool /\ WithSentinel' = WithSentinel /\ WithOtel' = WithOtel
  BY <1>1 DEF WithPool, WithSentinel, WithOtel, Inside, Redis
<1>11. TypeOK'
  BY <1>0, <1>1, <1>8 DEF TypeOK
<1>12. PlaceOK'
  BY <1>0, <1>1, <1>8, <1>9 DEF PlaceOK, Redis
<1>13. OpenOK'
  BY <1>0, <1>1, <1>8, <1>9 DEF OpenOK
<1>14. current \in 0..MaxStates
  BY <1>0, BoundsAssumption DEF TypeOK
<1>15. InUseOK' /\ KnownOK'
  BY <1>0, <1>1, <1>6, <1>8, <1>9, <1>14 DEF InUseOK, KnownOK, Found
<1>16. QED BY <1>11, <1>12, <1>13, <1>15 DEF IInv

\* The check of the eviction policy ends the layer's start.
LEMMA SafetyStep ==
  ASSUME IInv, _check_cache_eviction_safety
  PROVE  IInv'
<1>0. TypeOK /\ PlaceOK /\ OpenOK /\ InUseOK /\ KnownOK
  BY DEF IInv
<1>1. /\ phase = "starting" /\ step = "safety" /\ Inwards
      /\ UNCHANGED <<mode, layers, local, made, ps, current, otel, server, req, failed>>
  BY DEF _check_cache_eviction_safety
<1>2. /\ at \in Redis
      /\ WithPool = Around \cup {i \in Redis : i = at}
      /\ WithSentinel = Around \cup {i \in Redis : i = at}
      /\ WithOtel = Around \cup {i \in Redis : i = at}
  BY <1>0, <1>1 DEF PlaceOK, WithPool, WithSentinel, WithOtel, Inside, Around, Redis
<1>3. WithPool' = WithPool /\ WithSentinel' = WithSentinel /\ WithOtel' = WithOtel
  BY <1>0, <1>1, <1>2, InwardsInside DEF WithPool, WithSentinel, WithOtel
<1>4. /\ phase' \in {"starting", "serving"} /\ step' = "none"
      /\ phase' = "starting" => at' \in 1..Len(layers)
      /\ at' \in 0..Len(layers)
  BY <1>0, <1>1, InwardsInside
<1>5. TypeOK'
  BY <1>0, <1>1, <1>4 DEF TypeOK
<1>6. PlaceOK'
  BY <1>0, <1>1, <1>3, <1>4 DEF PlaceOK, Redis
<1>7. OpenOK'
  BY <1>0, <1>1, <1>3 DEF OpenOK
<1>8. InUseOK' /\ KnownOK'
  BY <1>0, <1>1, <1>3 DEF InUseOK, KnownOK, Found
<1>9. QED BY <1>5, <1>6, <1>7, <1>8 DEF IInv

\* A startup that is cancelled leaves its pool to nobody.
LEMMA CancelledStep ==
  ASSUME IInv, Cancelled
  PROVE  IInv'
<1>0. TypeOK /\ PlaceOK /\ OpenOK /\ InUseOK /\ KnownOK
  BY DEF IInv
<1>1. /\ phase = "starting" /\ step \in {"probe", "safety"} /\ Outwards
      /\ failed' = failed \cup {local[at]}
      /\ UNCHANGED <<mode, layers, local, made, ps, current, otel, server, req>>
  BY DEF Cancelled
<1>2. at \in Redis /\ at \in 1..MaxLayers
  BY <1>0, <1>1, BoundsAssumption DEF TypeOK, PlaceOK, Redis
<1>3. /\ WithPool = Around \cup {at} /\ WithSentinel = Around \cup {at}
      /\ WithOtel = Around \cup {at}
  BY <1>1, <1>2 DEF WithPool, WithSentinel, WithOtel, Inside, Around, Redis
<1>4. WithPool' = Around /\ WithSentinel' = Around /\ WithOtel' = Around
  BY <1>0, <1>1, OutwardsInside DEF WithPool, WithSentinel, WithOtel
<1>5. /\ phase' \in {"stopping", "stopped"} /\ step' = "none"
      /\ phase' = "stopping" => at' \in 1..Len(layers)
      /\ at' \in 0..Len(layers)
  BY <1>0, <1>1, OutwardsInside
<1>6. local[at] \in 1..MaxStates /\ local[at] \in 0..made
  BY <1>0, <1>2, <1>3 DEF PlaceOK, TypeOK
<1>7. TypeOK'
  <2> DEFINE n == local[at]
  <2>0. n \in 1..made
    <3>1. made \in Nat /\ MaxStates \in Nat
      BY <1>0, BoundsAssumption DEF TypeOK
    <3> HIDE DEF n
    <3>2. QED BY <1>6, <3>1 DEF n
  <2>1. failed' \subseteq 1..made
    BY <1>0, <1>1, <2>0 DEF TypeOK
  <2>2. QED BY <1>0, <1>1, <1>5, <2>1 DEF TypeOK
<1>8. PlaceOK'
  BY <1>0, <1>1, <1>3, <1>4, <1>5 DEF PlaceOK, Redis
<1>9. OpenOK'
  BY <1>0, <1>1, <1>3, <1>4 DEF OpenOK
<1>10. InUseOK' /\ KnownOK'
  BY <1>0, <1>1, <1>2, <1>4, <1>5 DEF InUseOK, KnownOK, Entire, Around, Redis, TypeOK
<1>11. QED BY <1>7, <1>8, <1>9, <1>10 DEF IInv

-----------------------------------------------------------------------------
(***************************************************************************)
(* Stop                                                                    *)
(***************************************************************************)

\* The application begins to stop: all its layers are still entered.
LEMMA StopStep ==
  ASSUME IInv, Stop
  PROVE  IInv'
<1>0. TypeOK /\ PlaceOK /\ OpenOK /\ InUseOK /\ KnownOK
  BY DEF IInv
<1>1. /\ phase = "serving" /\ phase' = "stopping" /\ at' = 1 /\ step = "none" /\ step' = "none"
      /\ UNCHANGED <<mode, layers, local, made, ps, current, otel, server, req, failed>>
  BY <1>0 DEF Stop, PlaceOK
<1>2. Len(layers) \in Nat /\ 1 \in 1..Len(layers)
  BY <1>0 DEF TypeOK, PlaceOK
<1>3. WithPool' = WithPool /\ WithSentinel' = WithSentinel /\ WithOtel' = WithOtel
  BY <1>1, <1>2 DEF WithPool, WithSentinel, WithOtel, Inside, Redis
<1>4. TypeOK'
  BY <1>0, <1>1, <1>2 DEF TypeOK
<1>5. PlaceOK'
  BY <1>0, <1>1, <1>2, <1>3 DEF PlaceOK, Redis
<1>6. OpenOK' /\ InUseOK' /\ KnownOK'
  BY <1>0, <1>1, <1>3 DEF OpenOK, InUseOK, KnownOK
<1>7. QED BY <1>4, <1>5, <1>6 DEF IInv

\* Leaving a layer: where its parts stand between the steps.
LEMMA LeavingInside ==
  ASSUME TypeOK, PlaceOK, NEW s, Leaving(s)
  PROVE  /\ phase = "stopping" /\ step = s /\ at \in Redis /\ at \in 1..MaxLayers
         /\ \A S : s \in S => Inside(S) = Around \cup {at}
         /\ \A S : s \notin S => Inside(S) = Around
         /\ at \notin Around
BY BoundsAssumption DEF TypeOK, PlaceOK, Leaving, Inside, Around, Redis

\* What is known is forgotten, for tasks of an earlier life as well.
LEMMA ClearStep ==
  ASSUME IInv, clear
  PROVE  IInv'
<1>0. TypeOK /\ PlaceOK /\ OpenOK /\ InUseOK /\ KnownOK
  BY DEF IInv
<1> DEFINE n == local[at]
<1>1. /\ Leaving("none") /\ step' = "pool"
      /\ UNCHANGED <<mode, layers, phase, at, local, made, current, otel, server, req, failed>>
  BY DEF clear
<1>2. /\ phase = "stopping" /\ step = "none" /\ at \in Redis
      /\ WithPool = Around \cup {at} /\ WithSentinel = Around \cup {at}
      /\ WithOtel = Around \cup {at}
  BY <1>0, <1>1, LeavingInside DEF WithPool, WithSentinel, WithOtel
<1>3. WithPool' = WithPool /\ WithSentinel' = WithSentinel /\ WithOtel' = WithOtel
  BY <1>1, <1>2 DEF WithPool, WithSentinel, WithOtel, Inside, Redis
<1>4. n \in 1..MaxStates
  BY <1>0, <1>2 DEF PlaceOK
<1> HIDE DEF n
<1>5. ps[n] \in Pools /\ NoCaps \in [Feature -> Caps]
  BY <1>0, <1>4 DEF TypeOK, NoCaps, Caps
<1> DEFINE p == [ps[n] EXCEPT !.caps = NoCaps, !.resets = @ + 1]
<1>6. p \in Pools /\ p.pool = ps[n].pool /\ p.sentinel = ps[n].sentinel
  <2> DEFINE k == ps[n].resets + 1
  <2>1. k \in Nat
    BY <1>5 DEF Pools
  <2>2. p = [ps[n] EXCEPT !.caps = NoCaps, !.resets = k]
    BY <1>5 DEF Pools
  <2> HIDE DEF k, p
  <2>3. QED BY <1>5, <2>1, <2>2 DEF Pools
<1>7. ps' = [ps EXCEPT ![n] = p]
  BY <1>0, <1>4 DEF clear, n, TypeOK
<1> HIDE DEF p
<1>8. /\ ps' \in [1..MaxStates -> Pools]
      /\ \A m \in 1..MaxStates : ps'[m].pool = ps[m].pool /\ ps'[m].sentinel = ps[m].sentinel
  BY <1>0, <1>4, <1>6, <1>7 DEF TypeOK
<1>9. TypeOK'
  BY <1>0, <1>1, <1>8 DEF TypeOK
<1>10. PlaceOK'
  BY <1>0, <1>1, <1>2, <1>3, <1>8 DEF PlaceOK, Redis
<1>11. OpenOK'
  BY <1>0, <1>1, <1>3, <1>8 DEF OpenOK
<1>12. current \in 0..MaxStates
  BY <1>0, BoundsAssumption DEF TypeOK
<1>13. InUseOK' /\ KnownOK'
  BY <1>0, <1>1, <1>2, <1>3, <1>8, <1>12 DEF InUseOK, KnownOK, Entire, Redis
<1>14. QED BY <1>9, <1>10, <1>11, <1>13 DEF IInv

\* Leaving a layer fails: it has failed, and what is around it remains.
LEMMA BreaksStep ==
  ASSUME IInv, NEW s, Leaving(s), s # "otel", Breaks,
         UNCHANGED <<mode, layers, local, made, ps, current, otel, server, req>>
  PROVE  IInv'
<1>0. TypeOK /\ PlaceOK /\ OpenOK /\ InUseOK /\ KnownOK
  BY DEF IInv
<1>1. /\ phase = "stopping" /\ step = s /\ at \in Redis /\ at \in 1..MaxLayers
      /\ WithPool \subseteq Around \cup {at} /\ WithSentinel \subseteq Around \cup {at}
      /\ WithOtel = Around \cup {at} /\ Around \subseteq WithPool
  <2>1. s \in {"none", "pool", "sentinel", "otel"}
    BY <1>0, LeavingInside DEF PlaceOK
  <2>2. QED BY <1>0, <2>1, LeavingInside DEF WithPool, WithSentinel, WithOtel
<1>2. Outwards /\ failed' = failed \cup {local[at]}
  BY DEF Breaks
<1>3. WithPool' = Around /\ WithSentinel' = Around /\ WithOtel' = Around
  BY <1>0, <1>1, <1>2, OutwardsInside DEF WithPool, WithSentinel, WithOtel
<1>4. /\ phase' \in {"stopping", "stopped"} /\ step' = "none"
      /\ phase' = "stopping" => at' \in 1..Len(layers)
      /\ at' \in 0..Len(layers)
  BY <1>0, <1>1, <1>2, OutwardsInside
<1>5. local[at] \in 1..MaxStates /\ local[at] \in 0..made
  BY <1>0, <1>1 DEF PlaceOK, TypeOK
<1>6. TypeOK'
  <2> DEFINE n == local[at]
  <2>0. n \in 1..made
    <3>1. made \in Nat /\ MaxStates \in Nat
      BY <1>0, BoundsAssumption DEF TypeOK
    <3> HIDE DEF n
    <3>2. QED BY <1>5, <3>1 DEF n
  <2>1. failed' \subseteq 1..made
    BY <1>0, <1>2, <2>0 DEF TypeOK
  <2>2. QED BY <1>0, <1>4, <2>1 DEF TypeOK
<1>7. PlaceOK'
  BY <1>0, <1>1, <1>3, <1>4 DEF PlaceOK, Redis
<1>8. OpenOK'
  BY <1>0, <1>1, <1>2, <1>3 DEF OpenOK
<1>9. InUseOK' /\ KnownOK'
  BY <1>0, <1>1, <1>3, <1>4 DEF InUseOK, KnownOK, Entire, Around, Redis
<1>10. QED BY <1>6, <1>7, <1>8, <1>9 DEF IInv

\* Closing a part of the pool of a layer leaves those of the others alone.
LEMMA Closed ==
  ASSUME ps \in [1..MaxStates -> Pools], NEW n \in 1..MaxStates, NEW part \in {"pool", "sentinel"},
         \/ part = "pool" /\ ps' = [ps EXCEPT ![n].pool = "none"]
         \/ part = "sentinel" /\ ps' = [ps EXCEPT ![n].sentinel = "none"]
  PROVE  /\ ps' \in [1..MaxStates -> Pools]
         /\ part = "pool" => ps'[n].pool = "none" /\ ps'[n].sentinel = ps[n].sentinel
         /\ part = "sentinel" => ps'[n].sentinel = "none" /\ ps'[n].pool = ps[n].pool
         /\ \A m \in 1..MaxStates : m # n => ps'[m] = ps[m]
<1>1. ps[n] \in Pools
  OBVIOUS
<1>2. /\ [ps[n] EXCEPT !.pool = "none"] \in Pools
      /\ [ps[n] EXCEPT !.sentinel = "none"] \in Pools
  BY <1>1 DEF Pools
<1>3. CASE part = "pool"
  BY <1>1, <1>2, <1>3 DEF Pools
<1>4. CASE part = "sentinel"
  BY <1>1, <1>2, <1>4 DEF Pools
<1>5. QED BY <1>3, <1>4

\* The pool of the layer is closed; sentinels come after it.
LEMMA ClosePoolStep ==
  ASSUME IInv, ClosePool
  PROVE  IInv'
<1>0. TypeOK /\ PlaceOK /\ OpenOK /\ InUseOK /\ KnownOK
  BY DEF IInv
<1> DEFINE n == local[at]
<1>1. /\ Leaving("pool")
      /\ UNCHANGED <<mode, layers, local, made, current, otel, server, req>>
  BY DEF ClosePool
<1>2. /\ phase = "stopping" /\ step = "pool" /\ at \in Redis /\ at \notin Around
      /\ WithPool = Around \cup {at} /\ WithSentinel = Around \cup {at}
      /\ WithOtel = Around \cup {at}
  BY <1>0, <1>1, LeavingInside DEF WithPool, WithSentinel, WithOtel
<1>3. n \in 1..MaxStates
  BY <1>0, <1>2 DEF PlaceOK
<1> HIDE DEF n
<1>4. CASE Breaks /\ UNCHANGED ps
  BY <1>1, <1>4, BreaksStep
<1>5. CASE /\ ps' = [ps EXCEPT ![n].pool = "none"]
           /\ step' = AfterPool
           /\ UNCHANGED <<phase, at, failed>>
  <2>1. /\ ps' \in [1..MaxStates -> Pools]
        /\ ps'[n].pool = "none" /\ ps'[n].sentinel = ps[n].sentinel
        /\ \A m \in 1..MaxStates : m # n => ps'[m] = ps[m]
    BY <1>0, <1>3, <1>5, Closed DEF TypeOK
  <2>2. /\ step' \in {"sentinel", "otel"} /\ (step' = "sentinel" <=> mode = "sentinel")
    BY <1>5 DEF AfterPool
  <2>3. /\ WithPool' = Around /\ WithOtel' = Around \cup {at}
        /\ WithSentinel' = IF mode = "sentinel" THEN Around \cup {at} ELSE Around
    BY <1>1, <1>2, <1>5, <2>2 DEF WithPool, WithSentinel, WithOtel, Inside, Around, Redis
  <2>4. TypeOK'
    BY <1>0, <1>1, <1>5, <2>1, <2>2 DEF TypeOK
  <2>5. PlaceOK'
    BY <1>0, <1>1, <1>2, <1>5, <2>1, <2>2, <2>3 DEF PlaceOK, Leaving, Redis
  <2>6. OpenOK'
    <3>1. ASSUME NEW m \in 1..MaxStates, m \notin failed
          PROVE  /\ ps'[m].pool = "open" => \E i \in Around : local[i] = m
                 /\ ps'[m].sentinel = "open" =>
                      mode = "sentinel" /\ \E i \in Around \cup {at} : local[i] = m
      BY <1>0, <1>2, <2>1, <3>1 DEF OpenOK, PlaceOK, n
    <3>2. QED BY <1>0, <1>1, <1>2, <1>5, <2>3, <3>1 DEF OpenOK
  <2>7. InUseOK' /\ KnownOK'
    BY <1>1, <1>2, <1>5, <2>3 DEF InUseOK, KnownOK, Entire, Around, Redis
  <2>8. QED BY <2>4, <2>5, <2>6, <2>7 DEF IInv
<1>6. QED BY <1>4, <1>5 DEF ClosePool, n

\* Then the sentinels.
LEMMA CloseSentinelsStep ==
  ASSUME IInv, CloseSentinels
  PROVE  IInv'
<1>0. TypeOK /\ PlaceOK /\ OpenOK /\ InUseOK /\ KnownOK
  BY DEF IInv
<1> DEFINE n == local[at]
<1>1. /\ Leaving("sentinel")
      /\ UNCHANGED <<mode, layers, local, made, current, otel, server, req>>
  BY DEF CloseSentinels
<1>2. /\ phase = "stopping" /\ step = "sentinel" /\ at \in Redis /\ at \notin Around
      /\ WithPool = Around /\ WithSentinel = Around \cup {at} /\ WithOtel = Around \cup {at}
  BY <1>0, <1>1, LeavingInside DEF WithPool, WithSentinel, WithOtel
<1>3. n \in 1..MaxStates
  BY <1>0, <1>2 DEF PlaceOK
<1> HIDE DEF n
<1>4. CASE Breaks /\ UNCHANGED ps
  BY <1>1, <1>4, BreaksStep
<1>5. CASE /\ ps' = [ps EXCEPT ![n].sentinel = "none"]
           /\ step' = "otel"
           /\ UNCHANGED <<phase, at, failed>>
  <2>1. /\ ps' \in [1..MaxStates -> Pools]
        /\ ps'[n].sentinel = "none" /\ ps'[n].pool = ps[n].pool
        /\ \A m \in 1..MaxStates : m # n => ps'[m] = ps[m]
    BY <1>0, <1>3, <1>5, Closed DEF TypeOK
  <2>2. /\ WithPool' = Around /\ WithSentinel' = Around /\ WithOtel' = Around \cup {at}
    BY <1>1, <1>2, <1>5 DEF WithPool, WithSentinel, WithOtel, Inside, Around, Redis
  <2>3. TypeOK'
    BY <1>0, <1>1, <1>5, <2>1 DEF TypeOK
  <2>4. PlaceOK'
    BY <1>0, <1>1, <1>2, <1>5, <2>1, <2>2 DEF PlaceOK, Leaving, Redis
  <2>5. OpenOK'
    <3>1. ASSUME NEW m \in 1..MaxStates, m \notin failed
          PROVE  /\ ps'[m].pool = "open" => \E i \in Around : local[i] = m
                 /\ ps'[m].sentinel = "open" => \E i \in Around : local[i] = m
      BY <1>0, <1>2, <2>1, <3>1 DEF OpenOK, n
    <3>2. QED BY <1>0, <1>1, <1>2, <1>5, <2>2, <3>1 DEF OpenOK
  <2>6. current \in 0..MaxStates
    BY <1>0, BoundsAssumption DEF TypeOK
  <2>7. InUseOK' /\ KnownOK'
    BY <1>0, <1>1, <1>2, <1>5, <2>1, <2>2, <2>6 DEF InUseOK, KnownOK, Entire, Redis
  <2>8. QED BY <2>3, <2>4, <2>5, <2>7 DEF IInv
<1>6. QED BY <1>4, <1>5 DEF CloseSentinels, n

\* Last, the instrumentation; the layer has been left.
LEMMA OtelStep ==
  ASSUME IInv, _shutdown_redis_otel
  PROVE  IInv'
<1>0. TypeOK /\ PlaceOK /\ OpenOK /\ InUseOK /\ KnownOK
  BY DEF IInv
<1>1. /\ Leaving("otel") /\ otel' = FALSE /\ Outwards
      /\ UNCHANGED <<mode, layers, local, made, ps, current, server, req, failed>>
  BY DEF _shutdown_redis_otel
<1>2. /\ phase = "stopping" /\ WithPool = Around /\ WithSentinel = Around
      /\ WithOtel = Around \cup {at}
  BY <1>0, <1>1, LeavingInside DEF WithPool, WithSentinel, WithOtel
<1>3. WithPool' = Around /\ WithSentinel' = Around /\ WithOtel' = Around
  BY <1>0, <1>1, <1>2, OutwardsInside DEF WithPool, WithSentinel, WithOtel
<1>4. /\ phase' \in {"stopping", "stopped"} /\ step' = "none"
      /\ phase' = "stopping" => at' \in 1..Len(layers)
      /\ at' \in 0..Len(layers)
  BY <1>0, <1>1, <1>2, OutwardsInside
<1>5. TypeOK'
  <2>1. otel' \in BOOLEAN
    BY <1>1
  <2>2. /\ phase' \in {"setup", "starting", "serving", "stopping", "stopped"}
        /\ phase' \in {"starting", "stopping"} => at' # 0
        /\ at' \in 0..Len(layers)
        /\ step' \in {"none", "probe", "safety", "pool", "sentinel", "otel"}
    BY <1>4
  <2>3. QED BY <1>0, <1>1, <2>1, <2>2 DEF TypeOK
<1>6. PlaceOK'
  BY <1>0, <1>1, <1>2, <1>3, <1>4 DEF PlaceOK, Redis
<1>7. OpenOK' /\ InUseOK' /\ KnownOK'
  BY <1>0, <1>1, <1>2, <1>3, <1>4 DEF OpenOK, InUseOK, KnownOK, Entire, Redis
<1>8. QED BY <1>5, <1>6, <1>7 DEF IInv
-----------------------------------------------------------------------------
(***************************************************************************)
(* Requests                                                                *)
(***************************************************************************)

\* While a request is served, and once the server is replaced, nothing is
\* opened or closed.
LEMMA NothingMoves ==
  ASSUME IInv, UNCHANGED <<mode, layers, phase, at, step, local, made, current, otel, failed>>,
         ps' \in [1..MaxStates -> Pools],
         \A m \in 1..MaxStates : ps'[m].pool = ps[m].pool /\ ps'[m].sentinel = ps[m].sentinel,
         server' \in SUBSET Feature,
         req' \in [Request -> Tasks],
         \A r \in Request : req'[r].pc = "probe" =>
            req'[r].of \in 1..MaxStates /\ req'[r].feature \in Feature
  PROVE  TypeOK' /\ PlaceOK' /\ OpenOK' /\ InUseOK' /\ WithPool' = WithPool
<1>0. TypeOK /\ PlaceOK /\ OpenOK /\ InUseOK
  BY DEF IInv
<1>1. WithPool' = WithPool /\ WithSentinel' = WithSentinel /\ WithOtel' = WithOtel
  BY DEF WithPool, WithSentinel, WithOtel, Inside, Redis
<1>2. TypeOK'
  BY <1>0 DEF TypeOK
<1>3. PlaceOK'
  BY <1>0, <1>1 DEF PlaceOK, Redis
<1>4. OpenOK'
  BY <1>0, <1>1 DEF OpenOK
<1>5. current \in 0..MaxStates
  BY <1>0, BoundsAssumption DEF TypeOK
<1>6. InUseOK'
  BY <1>0, <1>1, <1>5 DEF InUseOK, Entire, Redis
<1>7. QED BY <1>1, <1>2, <1>3, <1>4, <1>6

\* A request asks for a backend: a place is made for what will be found out.
LEMMA GetBackendStep ==
  ASSUME IInv, NEW r \in Request, NEW f \in Feature, GetBackend(r, f)
  PROVE  IInv'
<1>0. TypeOK /\ PlaceOK /\ KnownOK
  BY DEF IInv
<1>1. /\ current # 0
      /\ UNCHANGED <<mode, layers, phase, at, step, local, made, current, otel, server, failed>>
  BY DEF GetBackend
<1>2. current \in 1..MaxStates /\ current \in 0..MaxStates
  BY <1>0, <1>1, BoundsAssumption DEF TypeOK
<1>3. /\ ps \in [1..MaxStates -> Pools] /\ ps[current] \in Pools
      /\ ps[current].caps[f] \in Caps /\ ps[current].resets \in Nat
  BY <1>0, <1>2 DEF TypeOK, Pools
<1> DEFINE c == IF ps[current].caps[f] = "none" THEN Unknown ELSE ps[current].caps[f]
<1>4. c \in Caps
  BY <1>3, FoundCaps
<1>5. ps' = [ps EXCEPT ![current].caps[f] = c]
  BY <1>3 DEF GetBackend
<1>6. /\ ps' \in [1..MaxStates -> Pools]
      /\ \A m \in 1..MaxStates :
           /\ ps'[m].pool = ps[m].pool /\ ps'[m].sentinel = ps[m].sentinel
           /\ \A g \in Feature :
                ps'[m].caps[g] = IF m = current /\ g = f THEN c ELSE ps[m].caps[g]
  <2> HIDE DEF c
  <2> DEFINE h == [ps[current].caps EXCEPT ![f] = c]
  <2>1. ps' = [ps EXCEPT ![current].caps = h]
    BY <1>5
  <2>2. /\ h \in [Feature -> Caps]
        /\ \A g \in Feature : h[g] = IF g = f THEN c ELSE ps[current].caps[g]
    BY <1>3, <1>4 DEF Pools
  <2>3. h \in [Feature -> Caps]
    BY <2>2
  <2> HIDE DEF h
  <2>4. /\ ps' \in [1..MaxStates -> Pools]
        /\ \A m \in 1..MaxStates :
             /\ ps'[m].pool = ps[m].pool /\ ps'[m].sentinel = ps[m].sentinel
             /\ ps'[m].caps = IF m = current THEN h ELSE ps[m].caps
    <3> DEFINE p == [ps[current] EXCEPT !.caps = h]
    <3>1. p \in Pools /\ p.pool = ps[current].pool /\ p.sentinel = ps[current].sentinel /\ p.caps = h
      BY <1>3, <2>3, CapsChange
    <3>2. ps' = [ps EXCEPT ![current] = p]
      BY <2>1
    <3> HIDE DEF p
    <3>3. QED BY <1>2, <1>3, <3>1, <3>2
  <2>5. QED BY <1>2, <2>2, <2>4
<1> DEFINE q == [pc |-> "probe", of |-> current, resets |-> ps[current].resets, feature |-> f]
<1>7. q \in Tasks
  BY <1>2, <1>3 DEF Tasks
<1>8. req' = req \/ req' = [req EXCEPT ![r] = q]
  BY DEF GetBackend
<1>9. /\ req' \in [Request -> Tasks]
      /\ \A t \in Request : req'[t].pc = "probe" =>
            req'[t].of \in 1..MaxStates /\ req'[t].feature \in Feature
  <2>1. q.of \in 1..MaxStates /\ q.feature \in Feature
    BY <1>2
  <2>2. req \in [Request -> Tasks]
    BY <1>0 DEF TypeOK
  <2> HIDE DEF q
  <2>3. QED BY <1>0, <1>7, <1>8, <2>1, <2>2 DEF PlaceOK
<1>10. server' \in SUBSET Feature
  BY <1>0, <1>1 DEF TypeOK
<1>11. TypeOK' /\ PlaceOK' /\ OpenOK' /\ InUseOK' /\ WithPool' = WithPool
  <2> HIDE DEF q, c
  <2>1. QED BY <1>1, <1>6, <1>9, <1>10, NothingMoves
<1>12. KnownOK'
  <2>1. c \in {ps[current].caps[f], Unknown}
    OBVIOUS
  <2> HIDE DEF c
  <2>2. QED BY <1>0, <1>1, <1>2, <1>6, <1>11, <2>1, FoundCaps DEF KnownOK, Found
<1>13. QED BY <1>11, <1>12 DEF IInv

\* The answer is about the server there is: a task of an earlier life has no
\* place left to note it in.
LEMMA ProbeStep ==
  ASSUME IInv, NEW r \in Request, Probe(r)
  PROVE  IInv'
<1>0. TypeOK /\ PlaceOK /\ KnownOK
  BY DEF IInv
<1> DEFINE n == req[r].of
           f == req[r].feature
<1>1. /\ req[r].pc = "probe" /\ req' = [req EXCEPT ![r] = NoBackend]
      /\ UNCHANGED <<mode, layers, phase, at, step, local, made, current, otel, server, failed>>
  BY DEF Probe
<1>2. n \in 1..MaxStates /\ f \in Feature
  BY <1>0, <1>1 DEF PlaceOK
<1>3. PICK answer \in Found(f) : ps' = ps \/ ps' = [ps EXCEPT ![n].caps[f] = answer]
  BY DEF Probe
<1>4. answer \in Caps
  BY <1>2, <1>3, FoundCaps
<1>5. ps \in [1..MaxStates -> Pools] /\ req \in [Request -> Tasks]
  BY <1>0 DEF TypeOK
<1> HIDE DEF n, f
<1>6. /\ ps' \in [1..MaxStates -> Pools]
      /\ \A m \in 1..MaxStates :
           /\ ps'[m].pool = ps[m].pool /\ ps'[m].sentinel = ps[m].sentinel
           /\ \A g \in Feature :
                ps'[m].caps[g] = ps[m].caps[g] \/ (g = f /\ ps'[m].caps[g] = answer)
  <2>1. CASE ps' = ps
    BY <1>5, <2>1
  <2>2. CASE ps' = [ps EXCEPT ![n].caps[f] = answer]
    <3> DEFINE h == [ps[n].caps EXCEPT ![f] = answer]
    <3>1. ps' = [ps EXCEPT ![n].caps = h]
      BY <2>2
    <3>2. ps[n] \in Pools
      BY <1>2, <1>5
    <3>3. /\ h \in [Feature -> Caps]
          /\ \A g \in Feature : h[g] = IF g = f THEN answer ELSE ps[n].caps[g]
      BY <1>2, <1>4, <3>2 DEF Pools
    <3>4. h \in [Feature -> Caps]
      BY <3>3
    <3> HIDE DEF h
    <3>5. /\ ps' \in [1..MaxStates -> Pools]
          /\ \A m \in 1..MaxStates :
               /\ ps'[m].pool = ps[m].pool /\ ps'[m].sentinel = ps[m].sentinel
               /\ ps'[m].caps = IF m = n THEN h ELSE ps[m].caps
      <4> DEFINE p == [ps[n] EXCEPT !.caps = h]
      <4>1. p \in Pools /\ p.pool = ps[n].pool /\ p.sentinel = ps[n].sentinel /\ p.caps = h
        BY <3>2, <3>4, CapsChange
      <4>2. ps' = [ps EXCEPT ![n] = p]
        BY <3>1
      <4> HIDE DEF p
      <4>3. QED BY <1>2, <1>5, <4>1, <4>2
    <3>6. QED BY <3>3, <3>5
  <2>3. QED BY <1>3, <2>1, <2>2
<1>7. /\ req' \in [Request -> Tasks]
      /\ \A t \in Request : req'[t].pc = "probe" =>
            req'[t].of \in 1..MaxStates /\ req'[t].feature \in Feature
  <2>1. NoBackend.pc = "idle"
    BY DEF NoBackend
  <2>2. req' = [req EXCEPT ![r] = NoBackend]
    BY <1>1
  <2>3. QED BY <1>0, <1>5, <2>1, <2>2, NoBackendType DEF PlaceOK
<1>8. server' \in SUBSET Feature
  BY <1>0, <1>1 DEF TypeOK
<1>9. TypeOK' /\ PlaceOK' /\ OpenOK' /\ InUseOK' /\ WithPool' = WithPool
  BY <1>1, <1>6, <1>7, <1>8, NothingMoves
<1>10. current' # 0 => current \in 1..MaxStates
  BY <1>0, <1>1, BoundsAssumption DEF TypeOK
<1>11. KnownOK'
  <2>1. SUFFICES ASSUME WithPool # {}, phase \in {"starting", "serving"}, NEW g \in Feature
                 PROVE  ps'[current].caps[g] \in {"none"} \cup Found(g)
    BY <1>1, <1>9 DEF KnownOK, Found
  <2>2. current \in 1..MaxStates
    BY <1>1, <1>10, <2>1 DEF IInv, InUseOK
  <2>3. ps[current].caps[g] \in {"none"} \cup Found(g)
    BY <1>0, <2>1 DEF KnownOK
  <2>4. QED BY <1>3, <1>6, <2>2, <2>3
<1>12. QED BY <1>9, <1>11 DEF IInv

\* The server is replaced while nothing is known of it.
LEMMA UpgradeStep ==
  ASSUME IInv, Upgrade
  PROVE  IInv'
<1>0. TypeOK /\ PlaceOK
  BY DEF IInv
<1>1. /\ phase = "stopped" /\ server' \in SUBSET Feature
      /\ UNCHANGED <<mode, layers, phase, at, step, local, made, ps, current, otel, req, failed>>
  BY DEF Upgrade
<1>2. TypeOK' /\ PlaceOK' /\ OpenOK' /\ InUseOK'
  BY <1>0, <1>1, NothingMoves DEF TypeOK, PlaceOK
<1>3. KnownOK'
  BY <1>1 DEF KnownOK
<1>4. QED BY <1>2, <1>3 DEF IInv

-----------------------------------------------------------------------------
(***************************************************************************)
(* Theorems                                                                *)
(***************************************************************************)

\* Every step keeps the invariant.
LEMMA InvariantStep == IInv /\ [Next]_vars => IInv'
<1> SUFFICES ASSUME IInv, [Next]_vars PROVE IInv'
  OBVIOUS
<1>1. CASE lifespan \/ Another
  BY <1>1, SetupStep
<1>2. CASE Start
  BY <1>2, StartStep
<1>3. CASE EnterOther \/ ExitOther
  BY <1>3, OtherStep
<1>4. CASE EnterRedis
  BY <1>4, EnterRedisStep
<1>5. CASE StartupProbe
  BY <1>5, StartupProbeStep
<1>6. CASE Cancelled \/ _check_cache_eviction_safety
  BY <1>6, CancelledStep, SafetyStep
<1>7. CASE Stop
  BY <1>7, StopStep
<1>8. CASE clear
  BY <1>8, ClearStep
<1>9. CASE ClosePool
  BY <1>9, ClosePoolStep
<1>10. CASE CloseSentinels
  BY <1>10, CloseSentinelsStep
<1>11. CASE _shutdown_redis_otel
  BY <1>11, OtelStep
<1>12. ASSUME NEW r \in Request, NEW f \in Feature, GetBackend(r, f) PROVE IInv'
  BY <1>12, GetBackendStep
<1>13. ASSUME NEW r \in Request, Probe(r) PROVE IInv'
  BY <1>13, ProbeStep
<1>14. CASE Upgrade
  BY <1>14, UpgradeStep
<1>15. CASE UNCHANGED vars
  <2>1. UNCHANGED <<mode, layers, phase, at, step, local, made, ps, current, otel, server, req,
                    failed>>
    BY <1>15 DEF vars
  <2>2. TypeOK' /\ PlaceOK' /\ OpenOK' /\ InUseOK' /\ WithPool' = WithPool
    BY <2>1, NothingMoves DEF IInv, TypeOK, PlaceOK
  <2>3. KnownOK'
    BY <2>1, <2>2 DEF IInv, KnownOK, Found
  <2>4. QED BY <2>2, <2>3 DEF IInv
<1>16. QED BY <1>1, <1>2, <1>3, <1>4, <1>5, <1>6, <1>7, <1>8, <1>9, <1>10, <1>11, <1>12, <1>13,
              <1>14, <1>15 DEF Next

\* So it holds throughout.
LEMMA InvariantHolds == Spec => []IInv
<1>1. QED BY InvariantInit, InvariantStep, PTL DEF Spec

\* Every variable keeps its type, and only a pool that was made is used.
THEOREM TypeCorrect == Spec => []TypeOK
<1>1. IInv => TypeOK
  BY DEF IInv
<1>2. QED BY <1>1, InvariantHolds, PTL

\* While the application serves, the pool that get_redis gives requests is
\* open, after whatever starts and stops came before.
THEOREM ServingHasPool == Spec => []UpWhileServing
<1>1. IInv => UpWhileServing
  BY DEF IInv, InUseOK, UpWhileServing, WithPool, Inside
<1>2. QED BY <1>1, InvariantHolds, PTL

\* The handlers registered before the one lifespan() added have Redis when
\* they start and when they end.
THEOREM HandlersKeepRedis == Spec => []HandlersHaveRedisOnce
<1>1. IInv => HandlersHaveRedisOnce
  <2>1. SUFFICES ASSUME IInv, \A i, j \in Redis : i = j, NEW i \in 1..Len(layers),
                        phase \in {"starting", "stopping"}, at = i, NEW j \in Redis, j > i
                 PROVE  current # 0 /\ ps[current].pool = "open"
    BY DEF HandlersHaveRedisOnce, HandlersHaveRedis
  <2>2. j \in WithPool /\ Entire
    BY <2>1 DEF WithPool, Inside, Entire
  <2>3. QED BY <2>1, <2>2 DEF IInv, InUseOK
<1>2. QED BY <1>1, InvariantHolds, PTL

\* A stop closes every pool, every sentinel connection and the
\* instrumentation, but for the layer whose set-up or closing failed.
THEOREM StopLeavesNothing == Spec => []NothingLeft
<1>1. IInv => NothingLeft
  <2>1. SUFFICES ASSUME IInv, phase = "stopped" PROVE NothingLeft
    BY DEF NothingLeft
  <2>2. WithPool = {} /\ WithSentinel = {} /\ WithOtel = {}
    BY <2>1 DEF WithPool, WithSentinel, WithOtel, Inside
  <2>3. \A n \in 1..MaxStates : ps[n].pool \in {"none", "open"} /\ ps[n].sentinel \in {"none", "open"}
    BY <2>1 DEF IInv, TypeOK, Pools
  <2>4. QED BY <2>1, <2>2, <2>3 DEF IInv, OpenOK, NothingLeft
<1>2. QED BY <1>1, InvariantHolds, PTL

\* What a serving application believes of its server is true of the server it
\* has now, although requests of an earlier life may still be answered.
THEOREM KnowsItsServer == Spec => []CapabilityOfServer
<1>1. IInv => CapabilityOfServer
  BY DEF IInv, PlaceOK, KnownOK, CapabilityOfServer, WithPool, Inside
<1>2. QED BY <1>1, InvariantHolds, PTL

\* A handler with a redis layer around it, while it starts; and while it ends,
\* unless there is a redis layer inside it as well.
HandlersHaveRedisOutside ==
  \A i \in 1..Len(layers) :
     /\ phase \in {"starting", "stopping"} /\ at = i /\ layers[i] = "other"
     /\ \E j \in Redis : j > i
     /\ (phase = "starting" \/ \A j \in Redis : j > i)
     => current # 0 /\ ps[current].pool = "open"

\* However often lifespan() took effect, the promise to the handlers is broken
\* in one case only: for a handler that ends after a redis layer inside it.
THEOREM HandlersOutsideKeepRedis == Spec => []HandlersHaveRedisOutside
<1>1. IInv => HandlersHaveRedisOutside
  <2>1. SUFFICES ASSUME IInv, NEW i \in 1..Len(layers), phase \in {"starting", "stopping"},
                        at = i, NEW j \in Redis, j > i,
                        phase = "starting" \/ \A k \in Redis : k > i
                 PROVE  current # 0 /\ ps[current].pool = "open"
    BY DEF HandlersHaveRedisOutside
  <2>2. j \in WithPool
    BY <2>1 DEF WithPool, Inside
  <2>3. phase = "stopping" => Entire
    BY <2>1 DEF Entire, WithPool, Inside
  <2>4. QED BY <2>1, <2>2, <2>3 DEF IInv, InUseOK
<1>2. QED BY <1>1, InvariantHolds, PTL

\* The layer has been entered in this life and not been left.
Entered(i) == phase = "serving" \/ (phase \in {"starting", "stopping"} /\ i >= at)

\* A pool is open only under the layer that will close it, or when that layer
\* failed.
PoolsHaveOwners ==
  \A n \in 1..MaxStates :
     ps[n].pool = "open" \/ ps[n].sentinel = "open" =>
       n \in failed \/ \E i \in Redis : Entered(i) /\ local[i] = n

\* At any moment, and not only when everything has stopped, whoever is to close
\* an open pool still knows it: starting twice does not orphan one.
THEOREM EveryPoolIsOwned == Spec => []PoolsHaveOwners
<1>1. ASSUME TypeOK, NEW S, NEW i \in Inside(S) PROVE i \in Redis /\ Entered(i)
  BY <1>1 DEF Inside, Entered, Redis, TypeOK
<1>2. IInv => PoolsHaveOwners
  BY <1>1 DEF IInv, OpenOK, WithPool, WithSentinel, PoolsHaveOwners
<1>3. QED BY <1>2, InvariantHolds, PTL
=============================================================================

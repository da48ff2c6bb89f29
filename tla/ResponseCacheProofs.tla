------------------------ MODULE ResponseCacheProofs ------------------------
(***************************************************************************)
(* Theorems about ResponseCache, for every set of callers, requests and    *)
(* declarations, and any number of writes.                                 *)
(*                                                                         *)
(* The invariant says what an entry may be (EntryOK), and what a request   *)
(* holds at each place of its way (Good): a response about to be stored    *)
(* lies under the key of the caller it was rendered for, or is known to    *)
(* leak; and one that is older than what its key was last settled at is    *)
(* known to race.                                                          *)
(***************************************************************************)
EXTENDS ResponseCache, TLAPS

\* An entry of key k.
EntryOK(k) ==
  LET e == entry[k] IN
  /\ e.body.of = Anyone \/ (route.vary = "yes" /\ e.body.of = k)
  /\ e # NoEntry /\ route.gate = "after" => e.through
  /\ e.ttl # 0 => e.age <= e.ttl - e.left
  /\ e # NoEntry /\ ~raced[k] => e.body.ver >= settled[k]

\* What a hit gives a request.
HitOK(q) ==
  q.hit # NoEntry =>
    /\ q.pc = "done"
    /\ q.hit.body.of \in {Anyone, q.who}
    /\ route.gate # "none" => (q.who # Nobody /\ route.gate = "before") \/ q.hit.through
    /\ q.max_age # -1 /\ q.hit.ttl \in 1..route.ttl => q.hit.age < q.max_age

\* A response rendered for somebody is kept under their key, or leaks.
OwnOK(q) ==
  \/ q.body.of = Anyone
  \/ q.body.of = q.who /\ q.op = "get" /\ route.vary = "yes"
  \/ _leaks_across_users(q)

\* A request, on its way.
Good(q) ==
  /\ q.pc \in {"gate", "lookup", "misplaced", "endpoint"} => q.op = "get"
  /\ q.pc = "write" => q.op # "get"
  /\ q.pc = "lookup" /\ route.gate = "before" => q.who # Nobody
  /\ q.pc \in {"endpoint", "store"} /\ q.op = "get" =>
       q.key = cache_key(q) /\ route.gate # "after"
  /\ q.pc \in {"store", "evict", "scan"} => q.body.ver \in 0..version
  /\ q.pc = "store" => q.op \in {"get", "put"} /\ OwnOK(q)
  /\ q.pc = "store" => (q.body.ver < settled[q.key] => raced[q.key])
  /\ HitOK(q)

IInv ==
  /\ TypeOK
  /\ \A k \in Key : EntryOK(k)
  /\ \A r \in Request : Good(req[r])

-----------------------------------------------------------------------------

\* No entry, and a request that has not begun.
LEMMA NullTypes ==
  /\ NoBody \in Bodies /\ NoEntry \in Entries /\ Idle \in Requests
  /\ NoEntry.body.of = Anyone /\ NoEntry.ttl = 0 /\ NoEntry.left = 0
<1>1. NoBody \in Bodies
  BY BoundsAssumption DEF NoBody, Bodies
<1>2. NoEntry \in Entries
  BY <1>1, BoundsAssumption DEF NoEntry, Entries
<1>3. Idle \in Requests
  BY <1>1, <1>2 DEF Idle, Requests, Age, Key
<1>4. QED BY <1>1, <1>2, <1>3 DEF NoEntry, NoBody

\* A request that has not begun is good.
LEMMA IdleGood == Good(Idle)
BY DEF Good, Idle, HitOK

\* The same of the next state.
LEMMA IdleGoodNext == Good(Idle)'
BY DEF Good, Idle, HitOK

\* A route's declaration, as its assumption says.
LEMMA RouteFields ==
  ASSUME route \in Routes
  PROVE  /\ route.vary \in {"yes", "no", "unset"} /\ route.gate \in {"none", "before", "after"}
         /\ route.ttl \in Nat /\ route.put_ttl \in Nat
BY RoutesAssumption

\* Initially there is no entry.
LEMMA InvariantInit == Init => IInv
<1> SUFFICES ASSUME Init PROVE IInv
  OBVIOUS
<1>1. entry \in [Key -> Entries] /\ req \in [Request -> Requests]
  BY NullTypes DEF Init
<1>2. version \in 0..MaxVersion /\ settled \in [Key -> 0..version] /\ raced \in [Key -> BOOLEAN]
  BY BoundsAssumption DEF Init
<1>3. TypeOK
  BY <1>1, <1>2 DEF Init, TypeOK
<1>4. ASSUME NEW k \in Key PROVE EntryOK(k)
  BY <1>4, NullTypes DEF Init, EntryOK
<1>5. ASSUME NEW r \in Request PROVE Good(req[r])
  BY <1>5, IdleGood DEF Init
<1>6. QED BY <1>3, <1>4, <1>5 DEF IInv

-----------------------------------------------------------------------------
(***************************************************************************)
(* Steps of one request that leave Redis alone                             *)
(***************************************************************************)

\* What was good stays good while only the data gets newer.
LEMMA GoodStays ==
  ASSUME TypeOK, NEW q \in Requests, Good(q),
         UNCHANGED <<route, settled, raced>>, version' \in {version, version + 1}
  PROVE  Good(q)'
<1>1. version \in Nat /\ version' \in Nat /\ version' >= version
  BY BoundsAssumption DEF TypeOK
<1>2. q.pc \in {"store", "evict", "scan"} => q.body.ver \in 0..version'
  BY <1>1 DEF Good
<1>3. QED BY <1>2 DEF Good, HitOK, OwnOK, _leaks_across_users, cache_key

\* One request goes on; Redis is as it was.
LEMMA RequestStep ==
  ASSUME IInv, NEW r \in Request, NEW q \in Requests, Good(q)',
         req' = [req EXCEPT ![r] = q],
         UNCHANGED <<route, entry, settled, raced>>,
         version' \in {version, version + 1}, version' \in 0..MaxVersion
  PROVE  IInv'
<1>0. TypeOK /\ \A s \in Request : req[s] \in Requests
  BY DEF IInv, TypeOK
<1>1. version \in Nat /\ version' \in Nat /\ version' >= version
  BY <1>0, BoundsAssumption DEF TypeOK
<1>2. TypeOK'
  <2>1. req' \in [Request -> Requests]
    BY <1>0 DEF TypeOK
  <2>2. settled' \in [Key -> 0..version']
    BY <1>0, <1>1 DEF TypeOK
  <2>3. ASSUME NEW k \in Key, entry'[k] # NoEntry
        PROVE  /\ entry'[k].body.ver \in 0..version'
               /\ entry'[k].left \in (IF entry'[k].ttl = 0 THEN {0} ELSE 1..entry'[k].ttl)
    BY <1>0, <1>1, <2>3 DEF TypeOK
  <2>4. route' \in Routes /\ entry' \in [Key -> Entries] /\ raced' \in [Key -> BOOLEAN]
    BY <1>0 DEF TypeOK
  <2>5. QED BY <2>1, <2>2, <2>3, <2>4 DEF TypeOK
<1>3. ASSUME NEW k \in Key PROVE EntryOK(k)'
  BY <1>3 DEF IInv, EntryOK
<1>4. ASSUME NEW s \in Request PROVE Good(req[s])'
  <2>1. CASE s = r
    <3>1. req'[s] = q
      BY <1>0, <2>1 DEF TypeOK
    <3>2. QED BY <3>1
  <2>2. CASE s # r
    <3>1. PICK p \in Requests : p = req[s]
      BY <1>0
    <3>2. Good(p)'
      BY <1>0, <3>1, GoodStays DEF IInv
    <3>3. req'[s] = p
      BY <1>0, <2>2, <3>1 DEF TypeOK
    <3>4. QED BY <3>2, <3>3
  <2>3. QED BY <2>1, <2>2
<1>5. QED BY <1>2, <1>3, <1>4 DEF IInv

\* A request is over.
LEMMA EndsStep ==
  ASSUME IInv, NEW r \in Request, Ends(r), UNCHANGED <<route, entry, version, settled, raced>>
  PROVE  IInv'
<1>1. PICK q : q = Idle
  OBVIOUS
<1>2. q \in Requests /\ Good(q)'
  BY <1>1, NullTypes, IdleGoodNext
<1>3. version' \in 0..MaxVersion
  BY DEF IInv, TypeOK
<1>4. QED BY <1>1, <1>2, <1>3, RequestStep DEF Ends

\* A read arrives.
LEMMA GetStep ==
  ASSUME IInv, NEW r \in Request, Get(r)
  PROVE  IInv'
<1>1. PICK w, a, q :
        /\ w \in Key /\ a \in Age
        /\ q = [Idle EXCEPT !.pc = IF route.gate = "before" THEN "gate" ELSE "lookup",
                            !.who = w, !.max_age = a]
        /\ req' = [req EXCEPT ![r] = q]
  BY DEF Get
<1>2. /\ q \in Requests /\ q.op = "get" /\ q.hit = NoEntry
      /\ q.pc = IF route.gate = "before" THEN "gate" ELSE "lookup"
  BY <1>1, NullTypes DEF Requests, Idle
<1>3. UNCHANGED <<route, entry, version, settled, raced>> /\ version' \in 0..MaxVersion
  BY DEF Get, IInv, TypeOK
<1>4. Good(q)'
  BY <1>2, <1>3 DEF Good, HitOK
<1>5. QED BY <1>1, <1>2, <1>3, <1>4, RequestStep

\* The gate lets callers with a session go on.
LEMMA GateStep ==
  ASSUME IInv, NEW r \in Request, Gate(r)
  PROVE  IInv'
<1>1. UNCHANGED <<route, entry, version, settled, raced>> /\ version' \in 0..MaxVersion
  BY DEF Gate, IInv, TypeOK
<1>2. CASE req[r].who = Nobody
  BY <1>1, <1>2, EndsStep DEF Gate
<1>3. CASE req[r].who # Nobody
  <2>1. req[r] \in Requests /\ Good(req[r]) /\ req[r].pc = "gate"
    BY DEF IInv, TypeOK, Gate
  <2>2. PICK q : q = [req[r] EXCEPT !.pc = "lookup"]
    OBVIOUS
  <2>3. /\ q \in Requests /\ q.op = "get" /\ q.hit = NoEntry /\ q.pc = "lookup"
        /\ q.who # Nobody
    BY <1>3, <2>1, <2>2 DEF Requests, Good, HitOK
  <2>4. Good(q)'
    BY <2>3 DEF Good, HitOK
  <2>5. req' = [req EXCEPT ![r] = q]
    BY <1>3, <2>2 DEF Gate
  <2>6. QED BY <1>1, <2>3, <2>4, <2>5, RequestStep
<1>4. QED BY <1>2, <1>3

\* A hit is what the gate and the client allow, and was made for the caller.
LEMMA HitStep ==
  ASSUME IInv, NEW r \in Request, Hit(r)
  PROVE  IInv'
<1>0. TypeOK /\ route \in Routes
  BY DEF IInv, TypeOK
<1>1. /\ UNCHANGED <<route, entry, version, settled, raced>> /\ version' \in 0..MaxVersion
      /\ req[r].pc = "lookup"
  BY <1>0 DEF Hit, TypeOK
<1>2. req[r] \in Requests /\ Good(req[r])
  BY DEF IInv, TypeOK
<1>3. PICK k, e, q :
        /\ k = cache_key(req[r]) /\ e = entry[k] /\ e # NoEntry
        /\ ~_is_stale_for_client(e, req[r])
        /\ q = [req[r] EXCEPT !.pc = "done", !.hit = e]
        /\ req' = [req EXCEPT ![r] = q]
  BY <1>0, <1>2 DEF Hit, TypeOK
<1>4. k \in Key /\ e \in Entries /\ EntryOK(k)
  BY <1>0, <1>2, <1>3 DEF IInv, TypeOK, cache_key, Requests, Key
<1>5. /\ q \in Requests /\ q.pc = "done" /\ q.hit = e /\ q.who = req[r].who
      /\ q.max_age = req[r].max_age
  BY <1>2, <1>3, <1>4 DEF Requests
<1>6. e.body.of \in {Anyone, q.who}
  BY <1>3, <1>4, <1>5 DEF EntryOK, cache_key
<1>7. route.gate # "none" => (q.who # Nobody /\ route.gate = "before") \/ e.through
  BY <1>0, <1>1, <1>2, <1>3, <1>4, <1>5, RouteFields DEF EntryOK, Good
<1>8. ASSUME q.max_age # -1, e.ttl \in 1..route.ttl
      PROVE  e.age < q.max_age
  <2>1. e.age <= e.ttl - e.left
    BY <1>0, <1>3, <1>4, <1>8, RouteFields DEF EntryOK
  <2>2. e.left \in Nat /\ e.age \in Nat /\ e.ttl \in Nat /\ route.ttl \in Nat
    BY <1>0, <1>4, BoundsAssumption, RouteFields DEF Entries
  <2>3. q.max_age \in Nat
    BY <1>5, <1>8, BoundsAssumption DEF Requests, Age
  <2>4. ~(route.ttl - e.left >= q.max_age)
    BY <1>3, <1>5, <1>8 DEF _is_stale_for_client
  <2>5. e.ttl <= route.ttl
    BY <1>8, <2>2
  <2>6. QED BY <2>1, <2>2, <2>3, <2>4, <2>5
<1>9. HitOK(q)'
  BY <1>1, <1>5, <1>6, <1>7, <1>8 DEF HitOK
<1>10. Good(q)'
  BY <1>5, <1>9 DEF Good
<1>11. QED BY <1>1, <1>3, <1>5, <1>10, RequestStep

\* A miss goes on to the endpoint; behind a misplaced gate it does not.
LEMMA MissStep ==
  ASSUME IInv, NEW r \in Request, Miss(r)
  PROVE  IInv'
<1>0. TypeOK /\ route \in Routes
  BY DEF IInv, TypeOK
<1>1. /\ UNCHANGED <<route, entry, version, settled, raced>> /\ version' \in 0..MaxVersion
      /\ req[r].pc = "lookup"
  BY <1>0 DEF Miss, TypeOK
<1>2. req[r] \in Requests /\ Good(req[r])
  BY DEF IInv, TypeOK
<1>3. PICK reads \in BOOLEAN : reads <=> (route.vary = "yes" \/ route.gate # "none")
  OBVIOUS
<1>4. PICK p, q :
        /\ p = (IF route.gate = "after" THEN "misplaced" ELSE "endpoint")
        /\ q = [req[r] EXCEPT !.pc = p, !.key = cache_key(req[r]), !.max_age = -1,
                              !.read = reads]
        /\ req' = [req EXCEPT ![r] = q]
  <2>1. PICK p : p = IF route.gate = "after" THEN "misplaced" ELSE "endpoint"
    OBVIOUS
  <2>2. PICK e : e = (route.vary = "yes" \/ route.gate # "none")
    OBVIOUS
  <2>3. req' = [req EXCEPT ![r].pc = p, ![r].key = cache_key(req[r]), ![r].max_age = -1,
                           ![r].read = e]
    BY <2>1, <2>2 DEF Miss
  <2>4. e = reads
    BY <1>3, <2>2
  <2>5. QED BY <2>1, <2>3, <2>4
<1>5. cache_key(req[r]) \in Key
  BY <1>2 DEF cache_key, Requests, Key
<1>6. /\ q \in Requests /\ q.op = "get" /\ q.hit = NoEntry /\ q.pc = p /\ q.who = req[r].who
      /\ q.key = cache_key(req[r])
  BY <1>1, <1>2, <1>4, <1>5 DEF Requests, Good, HitOK, Age
<1>7. cache_key(q)' = q.key
  BY <1>1, <1>6 DEF cache_key
<1>8. Good(q)'
  BY <1>1, <1>4, <1>6, <1>7 DEF Good, HitOK
<1>9. QED BY <1>1, <1>4, <1>6, <1>8, RequestStep

\* The endpoint's body lies under the key of the caller it was made for, or
\* leaks; it is as new as the data.
LEMMA EndpointStep ==
  ASSUME IInv, NEW r \in Request, Endpoint(r)
  PROVE  IInv'
<1>0. TypeOK /\ route \in Routes
  BY DEF IInv, TypeOK
<1>1. /\ UNCHANGED <<route, entry, version, settled, raced>> /\ version' \in 0..MaxVersion
      /\ req[r].pc = "endpoint"
  BY <1>0 DEF Endpoint, TypeOK
<1>2. req[r] \in Requests /\ Good(req[r])
  BY DEF IInv, TypeOK
<1>3. PICK reads \in (IF route.vary = "unset" THEN BOOLEAN ELSE {FALSE}) :
        req' = [req EXCEPT
                  ![r].pc = "store",
                  ![r].read = @ \/ reads,
                  ![r].body = [ver |-> version,
                               of |-> IF reads \/ route.vary = "yes" THEN req[r].who
                                      ELSE Anyone]]
  BY DEF Endpoint
<1>4. PICK owner \in Key \cup {Anyone} :
        owner = IF reads \/ route.vary = "yes" THEN req[r].who ELSE Anyone
  BY <1>2 DEF Requests
<1>5. PICK seen \in BOOLEAN : seen <=> (req[r].read \/ reads)
  OBVIOUS
<1>6. PICK b : b = [ver |-> version, of |-> owner]
  OBVIOUS
<1>7. b \in Bodies /\ b.ver = version /\ b.of = owner
  BY <1>0, <1>4, <1>6, BoundsAssumption DEF Bodies, TypeOK
<1>8. PICK q : q = [req[r] EXCEPT !.pc = "store", !.read = seen, !.body = b]
  OBVIOUS
<1>9. req' = [req EXCEPT ![r] = q]
  <2>1. (req[r].read \/ reads) = seen
    BY <1>2, <1>3, <1>5 DEF Requests
  <2>2. QED BY <1>3, <1>4, <1>6, <1>8, <2>1
<1>10. /\ q \in Requests /\ q.op = "get" /\ q.hit = NoEntry /\ q.pc = "store"
       /\ q.who = req[r].who /\ q.key = req[r].key /\ q.body = b /\ (q.read <=> seen)
  BY <1>1, <1>2, <1>7, <1>8 DEF Requests, Good, HitOK
<1>11. cache_key(q)' = q.key /\ route.gate # "after"
  BY <1>1, <1>2, <1>10 DEF cache_key, Good
<1>12. OwnOK(q)'
  BY <1>1, <1>3, <1>4, <1>5, <1>7, <1>10 DEF OwnOK, _leaks_across_users
<1>13. q.body.ver \in 0..version' /\ ~(q.body.ver < settled'[q.key])
  BY <1>0, <1>1, <1>7, <1>10, BoundsAssumption DEF TypeOK, Requests
<1>14. Good(q)'
  BY <1>1, <1>10, <1>11, <1>12, <1>13 DEF Good, HitOK
<1>15. QED BY <1>1, <1>9, <1>10, <1>14, RequestStep

\* A write arrives.
LEMMA ChangeStep ==
  ASSUME IInv, NEW r \in Request, Change(r)
  PROVE  IInv'
<1>1. UNCHANGED <<route, entry, version, settled, raced>> /\ version' \in 0..MaxVersion
  BY DEF Change, IInv, TypeOK
<1>2. PICK op, w, q :
        /\ op \in {"evict_key", "evict_group", "put"} /\ w \in Key
        /\ q = [Idle EXCEPT !.pc = "write", !.op = op, !.who = w]
        /\ req' = [req EXCEPT ![r] = q]
  BY DEF Change
<1>3. q \in Requests /\ q.op # "get" /\ q.hit = NoEntry /\ q.pc = "write"
  BY <1>2, NullTypes DEF Requests, Idle
<1>4. Good(q)'
  BY <1>3 DEF Good, HitOK
<1>5. QED BY <1>1, <1>2, <1>3, <1>4, RequestStep

\* The data has been written: the response of a put is as new.
LEMMA WriteStep ==
  ASSUME IInv, NEW r \in Request, Write(r)
  PROVE  IInv'
<1>0. TypeOK
  BY DEF IInv
<1>1. /\ UNCHANGED <<route, entry, settled, raced>> /\ version' = version + 1
      /\ version' \in 0..MaxVersion /\ version \in Nat /\ req[r].pc = "write"
  BY <1>0, BoundsAssumption DEF Write, TypeOK
<1>2. req[r] \in Requests /\ Good(req[r])
  BY DEF IInv, TypeOK
<1>3. PICK reads \in (IF req[r].op = "put" THEN BOOLEAN ELSE {FALSE}) :
        req' = [req EXCEPT ![r].pc = IF req[r].op = "put" THEN "store" ELSE "evict",
                           ![r].read = reads,
                           ![r].body = [ver |-> version + 1,
                                        of |-> IF reads THEN req[r].who ELSE Anyone]]
  BY DEF Write
<1>4. PICK owner \in Key \cup {Anyone} : owner = IF reads THEN req[r].who ELSE Anyone
  BY <1>2 DEF Requests
<1>5. PICK b : b = [ver |-> version + 1, of |-> owner]
  OBVIOUS
<1>6. b \in Bodies /\ b.ver = version' /\ b.of = owner
  BY <1>1, <1>4, <1>5, BoundsAssumption DEF Bodies
<1>7. PICK p \in {"store", "evict"} : p = IF req[r].op = "put" THEN "store" ELSE "evict"
  OBVIOUS
<1>8. PICK q : q = [req[r] EXCEPT !.pc = p, !.read = reads, !.body = b]
  OBVIOUS
<1>9. req' = [req EXCEPT ![r] = q]
  BY <1>3, <1>4, <1>5, <1>7, <1>8
<1>10. reads \in BOOLEAN
  BY <1>3
<1>11. /\ q \in Requests /\ q.op = req[r].op /\ q.op # "get" /\ q.hit = NoEntry /\ q.pc = p
       /\ q.body = b /\ q.read = reads
  BY <1>1, <1>2, <1>6, <1>7, <1>8, <1>10 DEF Requests, Good, HitOK
<1>12. q.pc = "store" => OwnOK(q)'
  BY <1>4, <1>6, <1>7, <1>11 DEF OwnOK, _leaks_across_users
<1>13. q.body.ver \in 0..version' /\ ~(q.body.ver < settled'[q.key])
  BY <1>0, <1>1, <1>6, <1>11, BoundsAssumption DEF TypeOK, Requests
<1>14. Good(q)'
  BY <1>7, <1>11, <1>12, <1>13 DEF Good, HitOK
<1>15. QED BY <1>1, <1>9, <1>11, <1>14, RequestStep

\* The keys of the group are to be deleted one by one.
LEMMA ScanStep ==
  ASSUME IInv, NEW r \in Request, Scan(r)
  PROVE  IInv'
<1>1. /\ UNCHANGED <<route, entry, version, settled, raced>> /\ version' \in 0..MaxVersion
      /\ req[r].pc = "evict"
  BY DEF Scan, IInv, TypeOK
<1>2. req[r] \in Requests /\ Good(req[r])
  BY DEF IInv, TypeOK
<1>3. PICK q : q = [req[r] EXCEPT !.pc = "scan", !.todo = Group]
  OBVIOUS
<1>4. /\ q \in Requests /\ q.hit = NoEntry /\ q.pc = "scan" /\ q.body = req[r].body
  BY <1>1, <1>2, <1>3 DEF Requests, Good, HitOK, Group
<1>5. Good(q)'
  BY <1>1, <1>2, <1>4 DEF Good, HitOK
<1>6. req' = [req EXCEPT ![r] = q]
  BY <1>3 DEF Scan
<1>7. QED BY <1>1, <1>4, <1>5, <1>6, RequestStep

-----------------------------------------------------------------------------
(***************************************************************************)
(* Steps that change entries                                               *)
(***************************************************************************)

\* An entry's body is no newer than the data, and its expiry is its own.
BoundOK(e) ==
  e # NoEntry => e.body.ver \in 0..version /\ e.left \in (IF e.ttl = 0 THEN {0} ELSE 1..e.ttl)

\* One request goes on, and changes entries.
LEMMA RedisStep ==
  ASSUME IInv, NEW r \in Request, NEW q \in Requests, Good(q)',
         req' = [req EXCEPT ![r] = q], UNCHANGED <<route, version>>,
         settled' \in [Key -> 0..version], raced' \in [Key -> BOOLEAN],
         entry' \in [Key -> Entries],
         \A k \in Key : EntryOK(k)' /\ BoundOK(entry'[k]),
         \A s \in Request \ {r} : req[s].pc = "store" =>
            (req[s].body.ver < settled'[req[s].key] => raced'[req[s].key])
  PROVE  IInv'
<1>0. TypeOK /\ \A s \in Request : req[s] \in Requests
  BY DEF IInv, TypeOK
<1>1. req' \in [Request -> Requests]
  BY <1>0 DEF TypeOK
<1>2. TypeOK'
  BY <1>0, <1>1 DEF TypeOK, BoundOK
<1>3. ASSUME NEW s \in Request PROVE Good(req[s])'
  <2>1. CASE s = r
    <3>1. req'[s] = q
      BY <1>0, <2>1 DEF TypeOK
    <3>2. QED BY <3>1
  <2>2. CASE s # r
    <3>1. PICK p \in Requests : p = req[s]
      BY <1>0
    <3>2. Good(p) /\ (p.pc = "store" => (p.body.ver < settled'[p.key] => raced'[p.key]))
      BY <2>2, <3>1 DEF IInv
    <3>3. Good(p)'
      BY <3>2 DEF Good, HitOK, OwnOK, _leaks_across_users, cache_key
    <3>4. req'[s] = p
      BY <1>0, <2>2, <3>1 DEF TypeOK
    <3>5. QED BY <3>3, <3>4
  <2>3. QED BY <2>1, <2>2
<1>4. QED BY <1>2, <1>3 DEF IInv

\* Settling keys keeps track of the older responses that may still reach them.
LEMMA SettleEffect ==
  ASSUME TypeOK, NEW r \in Request, NEW K, K \subseteq Key, NEW v \in 0..version, Settle(K, v, r),
         \A s \in Request : Good(req[s])
  PROVE  /\ settled' \in [Key -> 0..version] /\ raced' \in [Key -> BOOLEAN]
         /\ \A k \in Key : k \notin K => settled'[k] = settled[k] /\ (raced'[k] <=> raced[k])
         /\ \A k \in K : settled'[k] \in {settled[k], v} /\ settled'[k] >= settled[k]
         /\ \A s \in Request \ {r} : req[s].pc = "store" =>
              (req[s].body.ver < settled'[req[s].key] => raced'[req[s].key])
<1>1. version \in Nat /\ settled \in [Key -> 0..version] /\ raced \in [Key -> BOOLEAN]
  BY BoundsAssumption DEF TypeOK
<1>2. ASSUME NEW k \in Key
      PROVE  Later(settled[k], v) \in {settled[k], v} /\ Later(settled[k], v) >= settled[k]
  BY <1>1 DEF Later
<1>3. settled' = [k \in Key |-> IF k \in K THEN Later(settled[k], v) ELSE settled[k]]
  BY DEF Settle
<1>4. settled' \in [Key -> 0..version]
  BY <1>1, <1>2, <1>3
<1>5. /\ \A k \in Key : k \notin K => settled'[k] = settled[k]
      /\ \A k \in K : settled'[k] = Later(settled[k], v)
  BY <1>3
<1> DEFINE InFlight(k) == \E s \in Request \ {r} : /\ req[s].pc = "store" /\ req[s].key = k
                                                   /\ req[s].body.ver < Later(settled[k], v)
<1>6. raced' = [k \in Key |-> IF k \in K THEN InFlight(k) ELSE raced[k]]
  BY DEF Settle
<1>7. \A k \in Key : InFlight(k) \in BOOLEAN
  OBVIOUS
<1> HIDE DEF InFlight
<1>8. /\ raced' \in [Key -> BOOLEAN]
      /\ \A k \in Key : k \notin K => (raced'[k] <=> raced[k])
      /\ \A k \in K : raced'[k] <=> InFlight(k)
  BY <1>1, <1>6, <1>7
<1>9. ASSUME NEW s \in Request \ {r}, req[s].pc = "store",
             req[s].body.ver < settled'[req[s].key]
      PROVE  raced'[req[s].key]
  <2>1. req[s].key \in Key /\ Good(req[s])
    BY DEF TypeOK, Requests
  <2>2. CASE req[s].key \in K
    <3>1. InFlight(req[s].key)
      BY <1>5, <1>9, <2>2 DEF InFlight
    <3>2. QED BY <1>8, <2>2, <3>1
  <2>3. CASE req[s].key \notin K
    BY <1>5, <1>8, <1>9, <2>1, <2>3 DEF Good
  <2>4. QED BY <2>2, <2>3
<1>10. QED BY <1>2, <1>4, <1>5, <1>8, <1>9

\* A response becomes an entry: the caller's own, as new as its key requires
\* or known to race.
LEMMA StoreStep ==
  ASSUME IInv, NEW r \in Request, _store_cache_entry(r)
  PROVE  IInv'
<1>0. TypeOK /\ route \in Routes /\ req[r] \in Requests /\ Good(req[r])
  BY DEF IInv, TypeOK
<1>1. PICK q \in Requests, k \in Key : q = req[r] /\ k = q.key
  BY <1>0 DEF Requests
<1>2. /\ q.pc = "store" /\ ~_leaks_across_users(q)
      /\ UNCHANGED <<route, version>>
      /\ req' = [req EXCEPT ![r] = Idle]
  BY <1>1 DEF _store_cache_entry, Ends
<1>3. PICK through \in BOOLEAN : through <=> q.op = "put"
  OBVIOUS
<1>4. PICK t \in Nat : t = ttl(q)
  BY <1>0, RouteFields DEF ttl
<1>5. PICK e : e = [body |-> q.body, ttl |-> t, left |-> t, age |-> 0, through |-> through]
  OBVIOUS
<1>6. entry' = [entry EXCEPT ![k] = e]
  <2>1. (q.op = "put") = through
    BY <1>3
  <2>2. QED BY <1>1, <1>4, <1>5, <2>1 DEF _store_cache_entry, ex
<1>7. q.body \in Bodies /\ q.body.ver \in 0..version /\ version \in Nat
  BY <1>0, <1>1, <1>2, BoundsAssumption DEF Requests, Good, TypeOK
<1>8. /\ e \in Entries /\ e.body = q.body /\ e.ttl = t /\ e.left = t /\ e.age = 0
      /\ (e.through <=> through)
  BY <1>5, <1>7, BoundsAssumption DEF Entries
<1>9. entry' \in [Key -> Entries] /\ entry'[k] = e /\ \A j \in Key : j # k => entry'[j] = entry[j]
  BY <1>0, <1>6, <1>8 DEF TypeOK
<1>10. /\ settled' \in [Key -> 0..version] /\ raced' \in [Key -> BOOLEAN]
       /\ \A j \in Key : j # k => settled'[j] = settled[j] /\ (raced'[j] <=> raced[j])
       /\ ~raced'[k] => e.body.ver >= settled'[k]
       /\ \A s \in Request \ {r} : req[s].pc = "store" =>
            (req[s].body.ver < settled'[req[s].key] => raced'[req[s].key])
  <2>1. settled[k] \in Int /\ q.body.ver \in Int
    BY <1>0, <1>7 DEF TypeOK
  <2>2. CASE q.op = "put" /\ q.body.ver >= settled[k]
    <3>1. Settle({k}, q.body.ver, r)
      BY <1>1, <2>2 DEF _store_cache_entry
    <3>2. \A s \in Request : Good(req[s])
      BY DEF IInv
    <3>3. {k} \subseteq Key
      OBVIOUS
    <3>4. /\ settled' \in [Key -> 0..version] /\ raced' \in [Key -> BOOLEAN]
          /\ \A j \in Key : j \notin {k} => settled'[j] = settled[j] /\ (raced'[j] <=> raced[j])
          /\ \A j \in {k} : settled'[j] \in {settled[j], q.body.ver} /\ settled'[j] >= settled[j]
          /\ \A s \in Request \ {r} : req[s].pc = "store" =>
               (req[s].body.ver < settled'[req[s].key] => raced'[req[s].key])
      BY <1>0, <1>7, <3>1, <3>2, <3>3, SettleEffect
    <3>5. q.body.ver >= settled'[k]
      BY <2>1, <2>2, <3>4
    <3>6. QED BY <1>8, <3>4, <3>5
  <2>3. CASE ~(q.op = "put" /\ q.body.ver >= settled[k])
    <3>1. UNCHANGED <<settled, raced>>
      BY <1>1, <2>3 DEF _store_cache_entry
    <3>2. q.body.ver < settled[k] => raced[k]
      BY <1>0, <1>1, <1>2 DEF Good
    <3>3. settled \in [Key -> 0..version] /\ raced \in [Key -> BOOLEAN]
      BY <1>0 DEF TypeOK
    <3>4. \A s \in Request \ {r} : req[s].pc = "store" =>
            (req[s].body.ver < settled[req[s].key] => raced[req[s].key])
      BY DEF IInv, Good
    <3>5. QED BY <1>8, <2>1, <3>1, <3>2, <3>3, <3>4
  <2>4. QED BY <2>2, <2>3
<1>11. ASSUME NEW j \in Key PROVE EntryOK(j)' /\ BoundOK(entry'[j])
  <2>1. CASE j = k
    <3>1. e.body.of = Anyone \/ (route.vary = "yes" /\ e.body.of = k)
      BY <1>0, <1>1, <1>2, <1>8 DEF Good, OwnOK, cache_key
    <3>2. route.gate = "after" => e.through
      BY <1>0, <1>1, <1>2, <1>3, <1>8, RouteFields DEF Good, Requests
    <3>3. e.age <= e.ttl - e.left
      BY <1>4, <1>8
    <3>4. BoundOK(e)
      BY <1>4, <1>7, <1>8 DEF BoundOK
    <3>5. QED BY <1>2, <1>9, <1>10, <2>1, <3>1, <3>2, <3>3, <3>4 DEF EntryOK
  <2>2. CASE j # k
    <3>1. EntryOK(j) /\ BoundOK(entry[j])
      BY DEF IInv, TypeOK, BoundOK
    <3>2. QED BY <1>2, <1>9, <1>10, <2>2, <3>1 DEF EntryOK
  <2>3. QED BY <2>1, <2>2
<1>12. PICK z : z = Idle
  OBVIOUS
<1>13. z \in Requests /\ Good(z)' /\ req' = [req EXCEPT ![r] = z]
  BY <1>2, <1>12, NullTypes, IdleGoodNext
<1>14. QED BY <1>2, <1>9, <1>10, <1>11, <1>13, RedisStep

\* Entries are deleted, and their keys settled.
LEMMA DeleteStep ==
  ASSUME IInv, NEW r \in Request, NEW q \in Requests, Good(q)', req' = [req EXCEPT ![r] = q],
         UNCHANGED <<route, version>>, NEW K, K \subseteq Key, NEW v \in 0..version,
         Settle(K, v, r),
         entry' = [k \in Key |-> IF k \in K THEN NoEntry ELSE entry[k]]
  PROVE  IInv'
<1>0. TypeOK /\ \A s \in Request : Good(req[s])
  BY DEF IInv
<1>1. /\ settled' \in [Key -> 0..version] /\ raced' \in [Key -> BOOLEAN]
      /\ \A k \in Key : k \notin K => settled'[k] = settled[k] /\ (raced'[k] <=> raced[k])
      /\ \A s \in Request \ {r} : req[s].pc = "store" =>
           (req[s].body.ver < settled'[req[s].key] => raced'[req[s].key])
  BY <1>0, SettleEffect
<1>2. /\ entry' \in [Key -> Entries]
      /\ \A k \in K : entry'[k] = NoEntry
      /\ \A k \in Key : k \notin K => entry'[k] = entry[k]
  BY <1>0, NullTypes DEF TypeOK
<1>3. ASSUME NEW k \in Key PROVE EntryOK(k)' /\ BoundOK(entry'[k])
  <2>1. CASE k \in K
    BY <1>2, <2>1, NullTypes DEF EntryOK, BoundOK
  <2>2. CASE k \notin K
    <3>1. EntryOK(k) /\ BoundOK(entry[k])
      BY DEF IInv, TypeOK, BoundOK
    <3>2. QED BY <1>1, <1>2, <2>2, <3>1 DEF EntryOK
  <2>3. QED BY <2>1, <2>2
<1>4. QED BY <1>1, <1>2, <1>3, RedisStep

\* What an eviction is on behalf of.
LEMMA Evicting ==
  ASSUME IInv, NEW r \in Request, req[r].pc \in {"evict", "scan"}
  PROVE  req[r] \in Requests /\ req[r].body.ver \in 0..version
BY DEF IInv, TypeOK, Good

\* An eviction deletes the entries it reaches and ends the request.
LEMMA EvictStep ==
  ASSUME IInv, NEW r \in Request, EvictKey(r) \/ EvictGroup(r)
  PROVE  IInv'
<1>1. PICK K, v :
        /\ K \subseteq Key /\ v = req[r].body.ver /\ Settle(K, v, r)
        /\ entry' = [k \in Key |-> IF k \in K THEN NoEntry ELSE entry[k]]
  <2>1. CASE EvictKey(r)
    <3>1. PICK v : v = req[r].body.ver
      OBVIOUS
    <3>2. Settle({Nobody}, v, r)
      BY <2>1, <3>1 DEF EvictKey
    <3>3. entry' = [k \in Key |-> IF k \in {Nobody} THEN NoEntry ELSE entry[k]]
      BY <2>1 DEF EvictKey, IInv, TypeOK
    <3>4. {Nobody} \subseteq Key
      BY DEF Key
    <3>5. QED BY <3>1, <3>2, <3>3, <3>4
  <2>2. CASE EvictGroup(r)
    <3>1. PICK v : v = req[r].body.ver
      OBVIOUS
    <3>2. Settle(Key, v, r) /\ Group = Key
      BY <2>2, <3>1 DEF EvictGroup, Group
    <3>3. entry' = [k \in Key |-> IF k \in Key THEN NoEntry ELSE entry[k]]
      BY <2>2, <3>2 DEF EvictGroup
    <3>4. QED BY <3>1, <3>2, <3>3
  <2>3. QED BY <2>1, <2>2
<1>2. /\ UNCHANGED <<route, version>> /\ req[r].pc = "evict"
      /\ req' = [req EXCEPT ![r] = Idle]
  BY DEF EvictKey, EvictGroup, Ends
<1>3. v \in 0..version
  BY <1>1, <1>2, Evicting
<1>4. PICK z : z = Idle
  OBVIOUS
<1>5. z \in Requests /\ Good(z)' /\ req' = [req EXCEPT ![r] = z]
  BY <1>2, <1>4, NullTypes, IdleGoodNext
<1>6. QED BY <1>1, <1>2, <1>3, <1>5, DeleteStep

\* So does a scan, key by key.
LEMMA ScanDeleteStep ==
  ASSUME IInv, NEW r \in Request, ScanDelete(r)
  PROVE  IInv'
<1>0. req[r] \in Requests /\ Good(req[r]) /\ req[r].pc = "scan" /\ UNCHANGED <<route, version>>
  BY DEF IInv, TypeOK, ScanDelete
<1>1. PICK k \in req[r].todo :
        /\ entry' = [entry EXCEPT ![k] = NoEntry]
        /\ Settle({k}, req[r].body.ver, r)
        /\ IF req[r].todo = {k} THEN Ends(r) ELSE req' = [req EXCEPT ![r].todo = @ \ {k}]
  BY DEF ScanDelete
<1>2. k \in Key /\ {k} \subseteq Key
  BY <1>0, <1>1 DEF Requests
<1>3. entry' = [j \in Key |-> IF j \in {k} THEN NoEntry ELSE entry[j]]
  BY <1>1, <1>2 DEF IInv, TypeOK
<1>4. PICK v \in 0..version : v = req[r].body.ver
  BY <1>0, Evicting
<1>5. Settle({k}, v, r)
  BY <1>1, <1>4
<1>6. CASE req[r].todo = {k}
  <2>1. PICK z : z = Idle
    OBVIOUS
  <2>2. z \in Requests /\ Good(z)' /\ req' = [req EXCEPT ![r] = z]
    BY <1>1, <1>6, <2>1, NullTypes, IdleGoodNext DEF Ends
  <2>3. QED BY <1>0, <1>2, <1>3, <1>5, <2>2, DeleteStep
<1>7. CASE req[r].todo # {k}
  <2>1. PICK q : q = [req[r] EXCEPT !.todo = @ \ {k}]
    OBVIOUS
  <2>2. q \in Requests /\ q.pc = "scan" /\ q.hit = NoEntry /\ q.body = req[r].body
    BY <1>0, <2>1 DEF Requests, Good, HitOK
  <2>3. Good(q)'
    BY <1>0, <2>2 DEF Good, HitOK
  <2>4. req' = [req EXCEPT ![r] = q]
    BY <1>1, <1>7, <2>1
  <2>5. QED BY <1>0, <1>2, <1>3, <1>5, <2>2, <2>3, <2>4, DeleteStep
<1>8. QED BY <1>6, <1>7

\* An entry gets older, or is gone.
LEMMA AgedEntry ==
  ASSUME NEW e \in Entries, e # NoEntry, BoundOK(e), Aged(e) # NoEntry, version \in Nat
  PROVE  /\ Aged(e) \in Entries /\ BoundOK(Aged(e))
         /\ Aged(e).body = e.body /\ Aged(e).through = e.through /\ Aged(e).ttl = e.ttl
         /\ e.ttl # 0 => Aged(e).left = e.left - 1 /\ Aged(e).age <= e.age + 1
<1>1. e.left # 1 /\ e.left \in Nat /\ e.age \in 0..MaxTime /\ e.ttl \in Nat
  BY DEF Aged, Entries
<1>2. PICK l \in Nat : l = IF e.left = 0 THEN 0 ELSE e.left - 1
  BY <1>1
<1>3. PICK a \in 0..MaxTime : a = IF e.age < MaxTime THEN e.age + 1 ELSE e.age
  BY <1>1, BoundsAssumption
<1>4. Aged(e) = [e EXCEPT !.left = l, !.age = a]
  BY <1>1, <1>2, <1>3 DEF Aged, Entries
<1>5. PICK f : f = Aged(e)
  OBVIOUS
<1>6. /\ f \in Entries /\ f.body = e.body /\ f.through = e.through /\ f.ttl = e.ttl
      /\ f.left = l /\ f.age = a
  BY <1>4, <1>5 DEF Entries
<1>7. e.ttl # 0 => l = e.left - 1 /\ l \in 1..e.ttl
  BY <1>1, <1>2 DEF BoundOK
<1>8. e.ttl = 0 => l = 0
  BY <1>1, <1>2 DEF BoundOK
<1>9. a <= e.age + 1
  BY <1>1, <1>3, BoundsAssumption
<1>10. BoundOK(f)
  BY <1>6, <1>7, <1>8 DEF BoundOK
<1>11. QED BY <1>5, <1>6, <1>7, <1>9, <1>10

\* Time passes for the entries.
LEMMA TickStep ==
  ASSUME IInv, Tick
  PROVE  IInv'
<1>0. /\ TypeOK /\ version \in Nat
      /\ UNCHANGED <<route, version, req, settled, raced>>
      /\ entry' = [k \in Key |-> IF entry[k] = NoEntry THEN NoEntry ELSE Aged(entry[k])]
  BY BoundsAssumption DEF IInv, TypeOK, Tick
<1>1. ASSUME NEW k \in Key
      PROVE  entry'[k] \in Entries /\ EntryOK(k)' /\ BoundOK(entry'[k])
  <2>1. PICK e \in Entries : e = entry[k]
    BY <1>0 DEF TypeOK
  <2>2. EntryOK(k) /\ BoundOK(e)
    BY <2>1 DEF IInv, TypeOK, BoundOK
  <2>3. CASE entry'[k] = NoEntry
    BY <2>3, NullTypes DEF EntryOK, BoundOK
  <2>4. CASE entry'[k] # NoEntry
    <3>1. e # NoEntry /\ entry'[k] = Aged(e)
      BY <1>0, <2>1, <2>4
    <3>2. PICK f : f = Aged(e)
      OBVIOUS
    <3>3. /\ f \in Entries /\ BoundOK(f) /\ f # NoEntry
          /\ f.body = e.body /\ f.through = e.through /\ f.ttl = e.ttl
          /\ e.ttl # 0 => f.left = e.left - 1 /\ f.age <= e.age + 1
      BY <1>0, <2>2, <2>4, <3>1, <3>2, AgedEntry
    <3>4. e.ttl # 0 => f.age <= f.ttl - f.left
      <4>1. /\ e.age \in Int /\ e.ttl \in Int /\ e.left \in Int
            /\ f.age \in Int /\ f.ttl \in Int /\ f.left \in Int
        BY <3>3 DEF Entries
      <4>2. e.ttl # 0 => e.age <= e.ttl - e.left
        BY <2>1, <2>2 DEF EntryOK
      <4>3. QED BY <3>3, <4>1, <4>2
    <3>5. entry'[k] = f
      BY <3>1, <3>2
    <3>6. EntryOK(k)'
      BY <1>0, <2>1, <2>2, <3>1, <3>3, <3>4, <3>5 DEF EntryOK
    <3>7. QED BY <3>3, <3>5, <3>6
  <2>5. QED BY <2>3, <2>4
<1>2. entry' \in [Key -> Entries]
  BY <1>0, <1>1
<1>3. TypeOK'
  BY <1>0, <1>1, <1>2 DEF TypeOK, BoundOK
<1>4. \A r \in Request : Good(req[r])'
  BY <1>0 DEF IInv, Good, HitOK, OwnOK, _leaks_across_users, cache_key
<1>5. QED BY <1>1, <1>3, <1>4 DEF IInv

-----------------------------------------------------------------------------
(***************************************************************************)
(* Theorems                                                                *)
(***************************************************************************)

\* Every step keeps the invariant.
LEMMA InvariantStep == IInv /\ [Next]_vars => IInv'
<1> SUFFICES ASSUME IInv, [Next]_vars PROVE IInv'
  OBVIOUS
<1>1. ASSUME NEW r \in Request, Step(r) PROVE IInv'
  <2>1. CASE Misplaced(r) \/ Refuse(r) \/ Finish(r)
    BY <2>1, EndsStep DEF Misplaced, Refuse, Finish
  <2>2. CASE Get(r) \/ Gate(r) \/ Hit(r) \/ Miss(r)
    BY <2>2, GetStep, GateStep, HitStep, MissStep
  <2>3. CASE Endpoint(r) \/ _store_cache_entry(r)
    BY <2>3, EndpointStep, StoreStep
  <2>4. CASE Change(r) \/ Write(r) \/ Scan(r)
    BY <2>4, ChangeStep, WriteStep, ScanStep
  <2>5. CASE EvictKey(r) \/ EvictGroup(r) \/ ScanDelete(r)
    BY <2>5, EvictStep, ScanDeleteStep
  <2>6. QED BY <1>1, <2>1, <2>2, <2>3, <2>4, <2>5 DEF Step
<1>2. CASE UNCHANGED vars
  <2>1. UNCHANGED <<route, entry, version, req, settled, raced>>
    BY <1>2 DEF vars
  <2>2. TypeOK' /\ \A k \in Key : EntryOK(k)'
    BY <2>1 DEF IInv, TypeOK, EntryOK
  <2>3. \A r \in Request : Good(req[r])'
    BY <2>1 DEF IInv, Good, HitOK, OwnOK, _leaks_across_users, cache_key
  <2>4. QED BY <2>2, <2>3 DEF IInv
<1>3. QED BY <1>1, <1>2, TickStep DEF Next

\* So it holds throughout.
LEMMA InvariantHolds == Spec => []IInv
<1>1. QED BY InvariantInit, InvariantStep, PTL DEF Spec

\* Everything has its type; an entry is gone when its expiry is over, and no
\* body is newer than the data.
THEOREM TypeCorrect == Spec => []TypeOK
<1>1. IInv => TypeOK
  BY DEF IInv
<1>2. QED BY <1>1, InvariantHolds, PTL

\* A caller is never answered from an entry rendered for another one, however
\* the route was declared and whatever the endpoint read.
THEOREM OwnOnly == Spec => []ServedOwn
<1>1. IInv => ServedOwn
  BY NullTypes DEF IInv, Good, HitOK, ServedOwn
<1>2. QED BY <1>1, InvariantHolds, PTL

\* What an eviction or a write-through reached stays as new as what was
\* written, but for responses that had been rendered before.
THEOREM EvictionLasts == Spec => []FreshAfterEviction
<1>1. IInv => FreshAfterEviction
  BY DEF IInv, EntryOK, FreshAfterEviction
<1>2. QED BY <1>1, InvariantHolds, PTL

\* No hit gets round a gate, listed before cache() or after it.
THEOREM GateComesFirst == Spec => []GateBeforeHit
<1>1. IInv => GateBeforeHit
  BY DEF IInv, Good, HitOK, GateBeforeHit
<1>2. QED BY <1>1, InvariantHolds, PTL

\* A client that asked for nothing older than a given age gets nothing older,
\* from entries whose expiry the TTL of the route covers.
THEOREM MaxAgeHonoured == Spec => []HonoursMaxAgeOfExpiring
<1>1. IInv => HonoursMaxAgeOfExpiring
  BY DEF IInv, Good, HitOK, HonoursMaxAgeOfExpiring
<1>2. QED BY <1>1, InvariantHolds, PTL

-----------------------------------------------------------------------------
(***************************************************************************)
(* Under which declarations, and which load, promises hold in full         *)
(***************************************************************************)

\* An entry expires as cache() or cache_put() declared it.
Declared(e) == e # NoEntry => e.ttl \in {route.ttl, route.put_ttl}

\* Every entry does, in Redis or in the hands of a request.
Declarations ==
  /\ \A k \in Key : Declared(entry[k])
  /\ \A r \in Request : Declared(req[r].hit)

\* Getting older leaves an entry's expiry as it was declared.
LEMMA AgedDeclared ==
  ASSUME NEW e \in Entries, Aged(e) # NoEntry
  PROVE  Aged(e).ttl = e.ttl
BY DEF Aged, Entries

\* No step but a store makes an entry, and that one declares it.
LEMMA EntryFromStore ==
  ASSUME TypeOK, [Next]_vars, NEW k \in Key, entry'[k] # NoEntry
  PROVE  \/ entry[k] # NoEntry /\ entry'[k].ttl = entry[k].ttl
         \/ \E r \in Request : entry'[k].ttl = ttl(req[r])
<1>0. entry \in [Key -> Entries] /\ entry[k] \in Entries
  BY DEF TypeOK
<1>1. CASE Tick
  <2>1. entry'[k] = IF entry[k] = NoEntry THEN NoEntry ELSE Aged(entry[k])
    BY <1>1 DEF Tick
  <2>2. QED BY <1>0, <2>1, AgedDeclared
<1>2. ASSUME NEW r \in Request, _store_cache_entry(r)
      PROVE  \/ entry[k] # NoEntry /\ entry'[k].ttl = entry[k].ttl
             \/ \E s \in Request : entry'[k].ttl = ttl(req[s])
  <2>1. PICK e : /\ e = [body |-> req[r].body, ttl |-> ttl(req[r]), left |-> ex(req[r]),
                         age |-> 0, through |-> req[r].op = "put"]
                 /\ entry' = [entry EXCEPT ![req[r].key] = e]
    BY <1>2 DEF _store_cache_entry
  <2>2. CASE k = req[r].key
    BY <1>0, <2>1, <2>2
  <2>3. CASE k # req[r].key
    BY <1>0, <2>1, <2>3
  <2>4. QED BY <2>2, <2>3
<1>3. ASSUME NEW r \in Request, EvictKey(r) \/ EvictGroup(r) \/ ScanDelete(r)
      PROVE  entry'[k] = entry[k]
  BY <1>0, <1>3 DEF EvictKey, EvictGroup, ScanDelete
<1>4. ASSUME NEW r \in Request,
             \/ Get(r) \/ Gate(r) \/ Hit(r) \/ Miss(r) \/ Misplaced(r) \/ Endpoint(r)
             \/ Refuse(r) \/ Change(r) \/ Write(r) \/ Scan(r) \/ Finish(r)
      PROVE  entry' = entry
  BY <1>4 DEF Get, Gate, Hit, Miss, Misplaced, Endpoint, Refuse, Change, Write, Scan, Finish
<1>5. CASE UNCHANGED vars
  BY <1>5 DEF vars
<1>6. QED BY <1>1, <1>2, <1>3, <1>4, <1>5 DEF Next, Step

\* Only a lookup gives a request an entry.
LEMMA HitFromEntry ==
  ASSUME IInv, [Next]_vars, NEW r \in Request, req'[r].hit # NoEntry
  PROVE  req'[r].hit = req[r].hit \/ \E k \in Key : req'[r].hit = entry[k]
<1>0. /\ req \in [Request -> Requests] /\ req[r] \in Requests /\ Idle.hit = NoEntry
      /\ Idle \in Requests /\ TypeOK
  BY NullTypes DEF IInv, TypeOK, Idle
<1>1. ASSUME NEW s \in Request, Hit(s)
      PROVE  req'[r].hit = req[r].hit \/ \E k \in Key : req'[r].hit = entry[k]
  <2>1. cache_key(req[s]) \in Key
    BY <1>0 DEF TypeOK, cache_key, Requests, Key
  <2>2. PICK k \in Key : req' = [req EXCEPT ![s].pc = "done", ![s].hit = entry[k]]
    BY <1>1, <2>1 DEF Hit
  <2>3. QED BY <1>0, <2>2 DEF Requests
<1>2. ASSUME NEW s \in Request, Get(s) \/ Change(s)
      PROVE  req'[r].hit = req[r].hit \/ req'[r].hit = NoEntry
  <2>1. PICK q : q.hit = NoEntry /\ req' = [req EXCEPT ![s] = q]
    BY <1>0, <1>2 DEF Get, Change, Idle
  <2>2. QED BY <1>0, <2>1
<1>3. ASSUME NEW s \in Request, Ends(s)
      PROVE  req'[r].hit = req[r].hit \/ req'[r].hit = NoEntry
  BY <1>0, <1>3 DEF Ends
<1>4. ASSUME NEW s \in Request,
             Gate(s) \/ Miss(s) \/ Endpoint(s) \/ Write(s) \/ Scan(s) \/ ScanDelete(s)
      PROVE  req'[r].hit = req[r].hit \/ Ends(s)
  <2>2. CASE Gate(s)
    BY <1>0, <2>2 DEF Gate, Requests
  <2>3. CASE Miss(s)
    BY <1>0, <2>3 DEF Miss, Requests
  <2>4. CASE Endpoint(s)
    BY <1>0, <2>4 DEF Endpoint, Requests
  <2>5. CASE Write(s)
    BY <1>0, <2>5 DEF Write, Requests
  <2>6. CASE Scan(s)
    BY <1>0, <2>6 DEF Scan, Requests
  <2>7. CASE ScanDelete(s)
    <3>1. PICK k : IF req[s].todo = {k} THEN Ends(s) ELSE req' = [req EXCEPT ![s].todo = @ \ {k}]
      BY <2>7 DEF ScanDelete
    <3>2. QED BY <1>0, <3>1 DEF Requests
  <2>8. QED BY <1>4, <2>2, <2>3, <2>4, <2>5, <2>6, <2>7
<1>5. ASSUME NEW s \in Request,
             \/ Misplaced(s) \/ _store_cache_entry(s) \/ Refuse(s) \/ EvictKey(s)
             \/ EvictGroup(s) \/ Finish(s)
      PROVE  Ends(s)
  BY <1>5 DEF Misplaced, _store_cache_entry, Refuse, EvictKey, EvictGroup, Finish
<1>6. CASE Tick \/ UNCHANGED vars
  BY <1>6 DEF Tick, vars
<1>7. QED BY <1>1, <1>2, <1>3, <1>4, <1>5, <1>6 DEF Next, Step

\* Every entry expires as the route declared, always.
LEMMA DeclarationsHold == Spec => []Declarations
<1>1. Init => Declarations
  BY DEF Init, Declarations, Declared, Idle
<1>2. IInv /\ Declarations /\ [Next]_vars => Declarations'
  <2> SUFFICES ASSUME IInv, Declarations, [Next]_vars PROVE Declarations'
    OBVIOUS
  <2>0. TypeOK /\ UNCHANGED route
    BY DEF IInv, Next, Step, Tick, vars, Get, Gate, Hit, Miss, Misplaced, Endpoint, Refuse,
           _store_cache_entry, Change, Write, EvictKey, EvictGroup, Scan, ScanDelete, Finish
  <2>1. ASSUME NEW k \in Key PROVE Declared(entry[k])'
    BY <2>0, <2>1, EntryFromStore DEF Declarations, Declared, ttl
  <2>2. ASSUME NEW r \in Request PROVE Declared(req[r].hit)'
    BY <2>0, <2>2, HitFromEntry DEF Declarations, Declared
  <2>3. QED BY <2>1, <2>2 DEF Declarations
<1>3. QED BY <1>1, <1>2, InvariantHolds, PTL DEF Spec

\* The promise about max-age, on a route whose entries all expire, and whose
\* write-through declared no longer TTL than the route itself.
HonoursMaxAgeWhereDeclared == route.put_ttl \in 1..route.ttl => HonoursMaxAge

\* A route that declares an expiry, and a write-through that declares none
\* longer than the route's, keep the whole promise about max-age: the entry
\* without an expiry, and the one whose TTL is longer, are all that break it.
THEOREM MaxAgeHonouredWhereEntriesExpire == Spec => []HonoursMaxAgeWhereDeclared
<1>1. IInv /\ Declarations => HonoursMaxAgeWhereDeclared
  <2> SUFFICES ASSUME IInv, Declarations, route.put_ttl \in 1..route.ttl,
                      NEW r \in Request, req[r].hit # NoEntry, req[r].max_age # -1
               PROVE  req[r].hit.age <= req[r].max_age
    BY DEF HonoursMaxAgeWhereDeclared, HonoursMaxAge
  <2>1. route.ttl \in Nat /\ route.put_ttl \in Nat /\ req[r] \in Requests
    BY RouteFields DEF IInv, TypeOK
  <2>2. req[r].hit.ttl \in 1..route.ttl
    BY <2>1 DEF Declarations, Declared
  <2>3. req[r].hit.age < req[r].max_age
    BY <2>2 DEF IInv, Good, HitOK
  <2>4. req[r].hit \in Entries /\ req[r].max_age \in Age
    BY <2>1 DEF Requests
  <2>5. req[r].hit.age \in Int
    BY <2>4, BoundsAssumption DEF Entries
  <2>6. req[r].max_age \in Nat
    BY <2>4, BoundsAssumption DEF Age
  <2>7. QED BY <2>3, <2>5, <2>6
<1>2. QED BY <1>1, InvariantHolds, DeclarationsHold, PTL

\* No response was in flight when its key was settled.
NothingRaced == \A k \in Key : ~raced[k]

\* An entry is never older than what its key was last settled at.
NeverStale == \A k \in Key : entry[k] # NoEntry => entry[k].body.ver >= settled[k]

\* One request at a time: nothing an eviction or a write-through settled comes
\* back.  The exception FreshAfterEviction makes needs a second request.
THEOREM EvictionIsFinalAlone ==
  ASSUME \A r, s \in Request : r = s
  PROVE  Spec => []NeverStale
<1>1. Init => NothingRaced
  BY DEF Init, NothingRaced
<1>2. NothingRaced /\ [Next]_vars => NothingRaced'
  <2> SUFFICES ASSUME NothingRaced, [Next]_vars, NEW j \in Key
               PROVE  ~raced'[j]
    BY DEF NothingRaced
  <2>1. ASSUME NEW K, NEW v, NEW r \in Request, Settle(K, v, r)
        PROVE  ~raced'[j]
    <3>1. Request \ {r} = {}
      OBVIOUS
    <3>2. raced'[j] => \/ j \in K /\ \E s \in Request \ {r} : req[s].key = j
                       \/ raced[j]
      BY <2>1 DEF Settle
    <3>3. QED BY <3>1, <3>2 DEF NothingRaced
  <2>2. CASE UNCHANGED raced
    BY <2>2 DEF NothingRaced
  <2>3. ASSUME NEW r \in Request, Step(r)
        PROVE  UNCHANGED raced \/ \E K, v : Settle(K, v, r)
    <3>1. CASE Get(r) \/ Gate(r) \/ Hit(r) \/ Miss(r) \/ Misplaced(r) \/ Endpoint(r) \/ Refuse(r)
      BY <3>1 DEF Get, Gate, Hit, Miss, Misplaced, Endpoint, Refuse
    <3>2. CASE Change(r) \/ Write(r) \/ Scan(r) \/ Finish(r)
      BY <3>2 DEF Change, Write, Scan, Finish
    <3>3. CASE _store_cache_entry(r)
      BY <3>3 DEF _store_cache_entry
    <3>4. CASE EvictKey(r) \/ EvictGroup(r)
      BY <3>4 DEF EvictKey, EvictGroup
    <3>5. CASE ScanDelete(r)
      BY <3>5 DEF ScanDelete
    <3>6. QED BY <2>3, <3>1, <3>2, <3>3, <3>4, <3>5 DEF Step
  <2>4. CASE Tick \/ UNCHANGED vars
    BY <2>2, <2>4 DEF Tick, vars
  <2>5. QED BY <2>1, <2>2, <2>3, <2>4 DEF Next
<1>3. IInv /\ NothingRaced => NeverStale
  BY DEF IInv, EntryOK, NeverStale, NothingRaced
<1>4. QED BY <1>1, <1>2, <1>3, InvariantHolds, PTL DEF Spec
=============================================================================

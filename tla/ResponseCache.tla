--------------------------- MODULE ResponseCache ---------------------------
(***************************************************************************)
(* The response cache of cache.py: cache() on a read route, cache_evict()  *)
(* and cache_put() on the routes that write what it shows, the middleware  *)
(* that stores responses, and the valid_session() gate listed before or    *)
(* after cache().                                                          *)
(*                                                                         *)
(* There is one path.  Its entries are told apart by the suffix of their   *)
(* key: who the entry is for, or Nobody for the key without a suffix.  The *)
(* data behind the endpoint has a version that writers raise; a body is    *)
(* the version and the caller it was rendered from.                        *)
(***************************************************************************)
EXTENDS Integers, FiniteSets

CONSTANTS Who,         \* subjects, or IDs of sessions without one
          Nobody,      \* a caller without a session
          Anyone,      \* of a body: it does not depend on the session
          Routes,      \* [vary, gate, ttl, put_ttl]: what the app declares
          Request,     \* concurrent requests
          ClientAges,  \* max-age directives clients send
          MaxVersion,  \* bound: writes
          MaxTime      \* bound: ages of entries that never expire

ASSUME NobodyAssumption == Nobody \notin Who /\ Anyone \notin Who \cup {Nobody}
ASSUME RoutesAssumption ==
  Routes \subseteq [vary : {"yes", "no", "unset"}, gate : {"none", "before", "after"},
                    ttl : Nat, put_ttl : Nat]
ASSUME BoundsAssumption ==
  ClientAges \subseteq Nat /\ MaxVersion \in Nat /\ MaxTime \in Nat \ {0}

VARIABLES route,    \* how the application declared the path; never changes
          entry,    \* entry[k]: the entry of key k in Redis
          version,  \* the version of the data
          req,      \* req[r]: a request and what its dependencies hold
          settled,  \* history: settled[k]: version k was last evicted or put at
          raced     \* history: raced[k]: an older fill was in flight at that time

vars == <<route, entry, version, req, settled, raced>>

Key == Who \cup {Nobody}
Age == ClientAges \cup {-1}    \* -1: the client sent no max-age

\* An entry: its body, the expiry it was stored with (0: none), what is left
\* of that, and how old it is.  through: a write-through stored it.
NoBody == [ver |-> -1, of |-> Anyone]
NoEntry == [body |-> NoBody, ttl |-> 0, left |-> 0, age |-> 0, through |-> FALSE]

Idle == [pc |-> "idle", op |-> "get", who |-> Nobody, max_age |-> -1, key |-> Nobody,
         read |-> FALSE, body |-> NoBody, todo |-> {}, hit |-> NoEntry]

Init ==
  /\ route \in Routes
  /\ entry = [k \in Key |-> NoEntry]
  /\ version = 0
  /\ req = [r \in Request |-> Idle]
  /\ settled = [k \in Key |-> 0]
  /\ raced = [k \in Key |-> FALSE]

\* The request has been answered, or has failed; nothing of it is left.
Ends(r) == req' = [req EXCEPT ![r] = Idle]

-----------------------------------------------------------------------------
(***************************************************************************)
(* A GET: the gate, the lookup, the endpoint                               *)
(***************************************************************************)

Get(r) ==
  /\ req[r].pc = "idle"
  /\ \E w \in Key, a \in Age :
        req' = [req EXCEPT ![r] =
                  [Idle EXCEPT !.pc = IF route.gate = "before" THEN "gate" ELSE "lookup",
                               !.who = w, !.max_age = a]]
  /\ UNCHANGED <<route, entry, version, settled, raced>>

\* valid_session() before cache(): no valid session, no answer.
Gate(r) ==
  /\ req[r].pc = "gate"
  /\ IF req[r].who = Nobody THEN Ends(r) ELSE req' = [req EXCEPT ![r].pc = "lookup"]
  /\ UNCHANGED <<route, entry, version, settled, raced>>

\* Mutant of cache_key: the entry is not kept per user.
SharedKey(q) == Nobody

\* The key of the lookup, and of the fill: chosen before the endpoint runs.
cache_key(q) == IF route.vary = "yes" THEN q.who ELSE Nobody

\* Mutant of _is_stale_for_client: off by one.
StaleLater(e, q) == q.max_age # -1 /\ route.ttl - e.left > q.max_age

\* The age is reckoned from the TTL of the route.
_is_stale_for_client(e, q) == q.max_age # -1 /\ route.ttl - e.left >= q.max_age

\* CacheHitException: nothing that comes later runs.
Hit(r) ==
  LET e == entry[cache_key(req[r])] IN
  /\ req[r].pc = "lookup"
  /\ e # NoEntry
  /\ ~_is_stale_for_client(e, req[r])
  /\ req' = [req EXCEPT ![r].pc = "done", ![r].hit = e]
  /\ UNCHANGED <<route, entry, version, settled, raced>>

\* No entry, or a stale one; no-cache, a read that failed or an entry that
\* cannot be decoded are misses too.  The fill is pending.
Miss(r) ==
  /\ req[r].pc = "lookup"
  /\ req' = [req EXCEPT ![r].pc = IF route.gate = "after" THEN "misplaced" ELSE "endpoint",
                        ![r].key = cache_key(req[r]), ![r].max_age = -1,
                        ![r].read = route.vary = "yes" \/ route.gate # "none"]
  /\ UNCHANGED <<route, entry, version, settled, raced>>

\* Mutant of Misplaced: the gate lets callers with a session go on.
GateAfterCache(r) ==
  /\ req[r].pc = "misplaced"
  /\ IF req[r].who = Nobody THEN Ends(r) ELSE req' = [req EXCEPT ![r].pc = "endpoint"]
  /\ UNCHANGED <<route, entry, version, settled, raced>>

\* valid_session() after cache() raises SessionConfigurationError.
Misplaced(r) ==
  /\ req[r].pc = "misplaced"
  /\ Ends(r)
  /\ UNCHANGED <<route, entry, version, settled, raced>>

\* The endpoint reads the data.  On a route that declared nothing it may also
\* read the session, and the body then depends on the caller.
Endpoint(r) ==
  /\ req[r].pc = "endpoint"
  /\ \E reads \in (IF route.vary = "unset" THEN BOOLEAN ELSE {FALSE}) :
        req' = [req EXCEPT
                  ![r].pc = "store",
                  ![r].read = @ \/ reads,
                  ![r].body = [ver |-> version,
                               of |-> IF reads \/ route.vary = "yes" THEN req[r].who
                                      ELSE Anyone]]
  /\ UNCHANGED <<route, entry, version, settled, raced>>

-----------------------------------------------------------------------------
(***************************************************************************)
(* Histories                                                               *)
(***************************************************************************)

Later(m, n) == IF m > n THEN m ELSE n

\* The keys in K have been evicted or overwritten on behalf of version v; a
\* response older than that may still be on its way into one of them.
Settle(K, v, r) ==
  /\ settled' = [k \in Key |-> IF k \in K THEN Later(settled[k], v) ELSE settled[k]]
  /\ raced' = [k \in Key |->
                 IF k \in K
                 THEN \E s \in Request \ {r} : /\ req[s].pc = "store" /\ req[s].key = k
                                               /\ req[s].body.ver < Later(settled[k], v)
                 ELSE raced[k]]

-----------------------------------------------------------------------------
(***************************************************************************)
(* The capture middleware                                                  *)
(***************************************************************************)

\* Mutant of _leaks_across_users: only gated routes count as reading.
LeaksIfGated(q) == route.gate # "none" /\ route.vary = "unset"

\* The endpoint read the session, and nobody said whether the body depends on
\* it.  A write-through never says.
_leaks_across_users(q) == (route.vary = "unset" \/ q.op = "put") /\ q.read

\* The TTL the dependency was declared with.
ttl(q) == IF q.op = "put" THEN route.put_ttl ELSE route.ttl

\* Mutant of ex: a write-through never expires.
ExOfFills(q) == IF q.op = "put" THEN 0 ELSE ttl(q)

\* EX, unless the TTL is 0.
ex(q) == ttl(q)

\* SET; then the response.
_store_cache_entry(r) ==
  LET q == req[r]
      newest == q.body.ver >= settled[q.key]
  IN
  /\ q.pc = "store"
  /\ ~_leaks_across_users(q)
  /\ entry' = [entry EXCEPT ![q.key] =
                 [body |-> q.body, ttl |-> ttl(q), left |-> ex(q), age |-> 0,
                  through |-> q.op = "put"]]
  /\ IF q.op = "put" /\ newest THEN Settle({q.key}, q.body.ver, r) ELSE UNCHANGED <<settled, raced>>
  /\ Ends(r)
  /\ UNCHANGED <<route, version>>

\* Not stored: it would leak, a storage rule refuses it, the SET failed, or
\* the response was not buffered to its end.
Refuse(r) ==
  /\ req[r].pc = "store"
  /\ Ends(r)
  /\ UNCHANGED <<route, entry, version, settled, raced>>

-----------------------------------------------------------------------------
(***************************************************************************)
(* Writers: cache_evict() by key or by group, and cache_put()              *)
(***************************************************************************)

Change(r) ==
  /\ req[r].pc = "idle"
  /\ version < MaxVersion
  /\ \E op \in {"evict_key", "evict_group", "put"}, w \in Key :
        /\ op # "put" => w = Nobody   \* who evicts makes no difference
        /\ req' = [req EXCEPT ![r] = [Idle EXCEPT !.pc = "write", !.op = op, !.who = w]]
  /\ UNCHANGED <<route, entry, version, settled, raced>>

\* The endpoint changes the data.  The response of a put is its new entry; its
\* body depends on the caller only if the endpoint read the session.
Write(r) ==
  /\ req[r].pc = "write"
  /\ version < MaxVersion
  /\ version' = version + 1
  /\ \E reads \in (IF req[r].op = "put" THEN BOOLEAN ELSE {FALSE}) :
        req' = [req EXCEPT ![r].pc = IF req[r].op = "put" THEN "store" ELSE "evict",
                           ![r].read = reads,
                           ![r].body = [ver |-> version + 1,
                                        of |-> IF reads THEN req[r].who ELSE Anyone]]
  /\ UNCHANGED <<route, entry, settled, raced>>

\* _evict_by_key: the key builder knows nothing of the suffix.
EvictKey(r) ==
  /\ req[r].pc = "evict"
  /\ req[r].op = "evict_key"
  /\ entry' = [entry EXCEPT ![Nobody] = NoEntry]
  /\ Settle({Nobody}, req[r].body.ver, r)
  /\ Ends(r)
  /\ UNCHANGED <<route, version>>

\* Mutant of Group: a pattern that matches the path and nothing after it.
GroupWithoutSuffixes == {Nobody}

\* The keys _group_pattern matches.
Group == Key

\* delete_group, by the Lua script, on a single server: its EVAL names no key,
\* and in a cluster one node alone would run it.
EvictGroup(r) ==
  /\ req[r].pc = "evict"
  /\ req[r].op = "evict_group"
  /\ entry' = [k \in Key |-> IF k \in Group THEN NoEntry ELSE entry[k]]
  /\ Settle(Key, req[r].body.ver, r)
  /\ Ends(r)
  /\ UNCHANGED <<route, version>>

\* The script cannot be run: scan for keys, and delete what is found.
Scan(r) ==
  /\ req[r].pc = "evict"
  /\ req[r].op = "evict_group"
  /\ req' = [req EXCEPT ![r].pc = "scan", ![r].todo = Group]
  /\ UNCHANGED <<route, entry, version, settled, raced>>

ScanDelete(r) ==
  /\ req[r].pc = "scan"
  /\ \E k \in req[r].todo :
        /\ entry' = [entry EXCEPT ![k] = NoEntry]
        /\ Settle({k}, req[r].body.ver, r)
        /\ IF req[r].todo = {k} THEN Ends(r) ELSE req' = [req EXCEPT ![r].todo = @ \ {k}]
  /\ UNCHANGED <<route, version>>

\* The endpoint raised, the eviction failed or was cancelled; or a response
\* was sent.
Finish(r) ==
  /\ req[r].pc # "idle"
  /\ Ends(r)
  /\ UNCHANGED <<route, entry, version, settled, raced>>

Aged(e) ==
  IF e.left = 1 THEN NoEntry
  ELSE [e EXCEPT !.left = IF @ = 0 THEN 0 ELSE @ - 1, !.age = IF @ < MaxTime THEN @ + 1 ELSE @]

\* Redis expires what is due.
Tick ==
  /\ entry' = [k \in Key |-> IF entry[k] = NoEntry THEN NoEntry ELSE Aged(entry[k])]
  /\ UNCHANGED <<route, version, req, settled, raced>>

Step(r) ==
  \/ Get(r) \/ Gate(r) \/ Hit(r) \/ Miss(r) \/ Misplaced(r) \/ Endpoint(r)
  \/ _store_cache_entry(r) \/ Refuse(r)
  \/ Change(r) \/ Write(r) \/ EvictKey(r) \/ EvictGroup(r) \/ Scan(r) \/ ScanDelete(r)
  \/ Finish(r)

Next == Tick \/ \E r \in Request : Step(r)

Spec == Init /\ [][Next]_vars

-----------------------------------------------------------------------------
(***************************************************************************)
(* Properties                                                              *)
(***************************************************************************)

Bodies == [ver : -1..MaxVersion, of : Key \cup {Anyone}]
Entries == [body : Bodies, ttl : Nat, left : Nat, age : 0..MaxTime, through : BOOLEAN]
Requests ==
  [pc : {"idle", "gate", "lookup", "misplaced", "endpoint", "store", "write", "evict", "scan",
         "done"},
   op : {"get", "put", "evict_key", "evict_group"}, who : Key, max_age : Age, key : Key,
   read : BOOLEAN, body : Bodies, todo : SUBSET Key, hit : Entries]

\* Everything has its type; an entry carries the expiry its route declared and
\* is gone when it is over, and no body is newer than the data.
TypeOK ==
  /\ route \in Routes
  /\ entry \in [Key -> Entries]
  /\ \A k \in Key : LET e == entry[k] IN
       e # NoEntry => /\ e.body.ver \in 0..version
                      /\ e.left \in (IF e.ttl = 0 THEN {0} ELSE 1..e.ttl)
  /\ version \in 0..MaxVersion
  /\ req \in [Request -> Requests]
  /\ settled \in [Key -> 0..version]
  /\ raced \in [Key -> BOOLEAN]

\* A caller is never answered from an entry rendered for another one.
ServedOwn ==
  \A r \in Request : req[r].hit.body.of \in {Anyone, req[r].who}

\* After an eviction or a write-through, the keys it reached hold nothing
\* older than what was written, however requests overlap; only a response
\* already rendered when the eviction ran may still bring an old body back.
FreshAfterEviction ==
  \A k \in Key :
     entry[k] # NoEntry /\ ~raced[k] => entry[k].body.ver >= settled[k]

\* No hit gets round a gate.  Listed after cache(), the gate raises on every
\* miss, so that the read path never has an entry to serve.
GateBeforeHit ==
  \A r \in Request :
     LET q == req[r] IN
     q.hit # NoEntry /\ route.gate # "none" =>
       \/ q.who # Nobody /\ route.gate = "before"
       \/ q.hit.through

\* "a cached entry older than N seconds is treated as a cache miss"
HonoursMaxAge ==
  \A r \in Request :
     LET q == req[r] IN
     q.hit # NoEntry /\ q.max_age # -1 => q.hit.age <= q.max_age

\* The promise holds of every entry with an expiry that the route's TTL
\* covers, whichever of cache() and cache_put() stored it.
HonoursMaxAgeOfExpiring ==
  \A r \in Request :
     LET q == req[r] IN
     q.hit # NoEntry /\ q.max_age # -1 /\ q.hit.ttl \in 1..route.ttl =>
       q.hit.age < q.max_age
=============================================================================

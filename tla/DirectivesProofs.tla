-------------------------- MODULE DirectivesProofs --------------------------
(***************************************************************************)
(* Theorems about Directives, for every set of users and of declarations.  *)
(*                                                                         *)
(* What a cache outside holds is judged once, when the response is         *)
(* delivered; the invariant says what the response and its marks have to   *)
(* be by then, at each station it passes.                                  *)
(***************************************************************************)
EXTENDS Directives, TLAPS

\* The response has passed the session middleware.
Past == req.pc = "send" \/ (req.pc = "capture" /\ route.inside)

\* Who is asking, and what the gate and cache() have marked.
ScopeOK ==
  /\ req.as \in {req.from, Nobody}
  /\ req.owner \in {Anybody, req.as}
  /\ req.gated => req.as \in User /\ req.accessed
  /\ req.pc \in {"gate", "reject", "cache", "endpoint"} => ~req.answered
  /\ req.pending \/ req.answered => req.cache_route
  /\ req.suppress => route.vary = "no"
  /\ req.pc \notin {"idle", "gate"} /\ route.gate = "recent" => req.no_store /\ req.accessed

\* A body made for somebody was made from the session, and says so.
OwnerOK ==
  req.owner # Anybody =>
    /\ route.vary # "no"
    /\ req.accessed
    /\ Past => req.vary

\* An entry was made for anybody, or for the user whose key it is under.
EntryOK ==
  \A k \in Caller :
     \/ entry[k] = NoEntry
     \/ entry[k].owner = Anybody
     \/ route.vary = "yes" /\ entry[k].owner = k

\* Where there is no cache() the session middleware has added its directive.
MarkedOK ==
  Past /\ ~req.cache_route =>
    /\ req.gated => "private" \in req.cc \/ "no-store" \in req.cc
    /\ route.gate = "recent" => "no-store" \in req.cc

\* What is so of the request being served.
Serving == req \in Requests /\ ScopeOK /\ OwnerOK /\ MarkedOK /\ OneAuthority

\* What is so of the rest.
Standing ==
  /\ route \in Routes
  /\ session \in [User -> {"recent", "old"}]
  /\ entry \in [Caller -> Entries]
  /\ kept \subseteq Copies
  /\ EntryOK /\ NobodyElsesPage /\ PagesStayBehindTheirGate

IInv == Serving /\ Standing

-----------------------------------------------------------------------------

\* The route's declaration, as its assumption says.
LEMMA RouteFields ==
  ASSUME route \in Routes
  PROVE  /\ route.gate \in {"none", "valid", "recent"}
         /\ route.cached \in BOOLEAN /\ route.inside \in BOOLEAN
         /\ route.private \in BOOLEAN /\ route.no_store \in BOOLEAN
         /\ route.vary \in {"yes", "no", "unset"}
BY RoutesAssumption

\* Initially nobody asks, and nothing is kept.
LEMMA InvariantInit == Init => IInv
<1> SUFFICES ASSUME Init PROVE IInv
  OBVIOUS
<1>1. req \in Requests
  BY DEF Init, NoRequest, Requests, Caller, Owners, Anybody, Directive
<1>2. NoEntry \in Entries
  BY DEF NoEntry, Entries, Owners
<1>3. ScopeOK /\ OwnerOK /\ MarkedOK /\ OneAuthority
  BY DEF Init, NoRequest, ScopeOK, OwnerOK, MarkedOK, OneAuthority, Past
<1>4. Standing
  BY <1>2 DEF Init, Standing, EntryOK, NobodyElsesPage, PagesStayBehindTheirGate
<1>5. QED BY <1>1, <1>3, <1>4 DEF IInv, Serving

\* The rest stays as it is while nothing but the request changes.
LEMMA StandingStays ==
  ASSUME Standing, UNCHANGED <<route, session, entry, kept>>
  PROVE  Standing'
BY DEF Standing, EntryOK, NobodyElsesPage, PagesStayBehindTheirGate, MayServe, Lives

-----------------------------------------------------------------------------
(***************************************************************************)
(* The gate and the lookup                                                 *)
(***************************************************************************)

\* A new request carries no marks.
LEMMA ArriveStep ==
  ASSUME IInv, NEW c \in Caller, Arrive(c)
  PROVE  IInv'
<1>1. PICK who \in {c, Nobody} :
         req' = [NoRequest EXCEPT !.from = c, !.as = who,
                                  !.pc = IF route.gate = "none" THEN "cache" ELSE "gate"]
  BY DEF Arrive
<1>2. who \in Caller
  BY DEF Caller
<1>3. req' \in Requests
  BY <1>1, <1>2 DEF NoRequest, Requests, Owners, Anybody, Directive
<1>4. Serving'
  BY <1>1, <1>3 DEF Arrive, NoRequest, Serving, ScopeOK, OwnerOK, MarkedOK, OneAuthority, Past
<1>5. Standing'
  BY DEF IInv, Standing, Arrive, EntryOK, NobodyElsesPage, PagesStayBehindTheirGate
<1>6. QED BY <1>4, <1>5 DEF IInv

\* The gate marks what it finds.
LEMMA GateStep ==
  ASSUME IInv, valid_session
  PROVE  IInv'
<1> DEFINE recent == route.gate = "recent"
           lives == Lives(req.as)
           next == IF Passes(req.as) THEN "cache" ELSE "reject"
<1>1. recent \in BOOLEAN /\ lives \in BOOLEAN /\ next \in {"cache", "reject"}
  BY DEF Lives
<1>2. (recent <=> route.gate = "recent") /\ (lives => req.as \in User)
  BY DEF Lives
<1>3. req' = [req EXCEPT !.accessed = TRUE, !.no_store = recent, !.gated = lives, !.pc = next]
  BY DEF valid_session
<1> HIDE DEF recent, lives, next
<1>4. req' \in Requests
  BY <1>1, <1>3 DEF IInv, Serving, Requests
<1>5. /\ \A f \in {"from", "as", "cc", "vary", "owner", "unkept", "cache_route", "suppress",
                   "pending", "answered"} : req'[f] = req[f]
      /\ req'.accessed = TRUE /\ req'.no_store = recent /\ req'.gated = lives /\ req'.pc = next
  BY <1>3 DEF IInv, Serving, Requests
<1>6. route' = route /\ req.pc = "gate"
  BY DEF valid_session
<1>7. ScopeOK' /\ OwnerOK' /\ MarkedOK' /\ OneAuthority'
  BY <1>1, <1>2, <1>5, <1>6 DEF IInv, Serving, ScopeOK, OwnerOK, MarkedOK, OneAuthority, Past
<1>8. QED BY <1>4, <1>7, StandingStays DEF IInv, Serving, valid_session

\* A rejection keeps its marks.
LEMMA RejectStep ==
  ASSUME IInv, Reject
  PROVE  IInv'
<1>1. req' \in Requests
  BY DEF IInv, Serving, Reject, Requests
<1>2. Serving'
  BY <1>1 DEF IInv, Serving, Reject, Requests, ScopeOK, OwnerOK, MarkedOK, OneAuthority, Past
<1>3. QED BY <1>2, StandingStays DEF IInv, Reject

\* Without cache() nobody claims the directives.
LEMMA UncachedStep ==
  ASSUME IInv, Uncached
  PROVE  IInv'
<1>1. req' \in Requests
  BY DEF IInv, Serving, Uncached, Requests
<1>2. Serving'
  BY <1>1 DEF IInv, Serving, Uncached, Requests, ScopeOK, OwnerOK, MarkedOK, OneAuthority, Past
<1>3. QED BY <1>2, StandingStays DEF IInv, Uncached

\* A bypass claims them, and looks nothing up.
LEMMA BypassStep ==
  ASSUME IInv, Bypass
  PROVE  IInv'
<1>1. req' \in Requests
  BY DEF IInv, Serving, Bypass, Claimed, Requests
<1>2. Serving'
  BY <1>1 DEF IInv, Serving, Bypass, Claimed, Requests, ScopeOK, OwnerOK, MarkedOK,
     OneAuthority, Past
<1>3. QED BY <1>2, StandingStays DEF IInv, Bypass

\* A miss claims them, and marks the response to be captured.
LEMMA MissStep ==
  ASSUME IInv, Miss
  PROVE  IInv'
<1> DEFINE read == req.accessed \/ route.vary = "yes"
           suppress == route.vary = "no"
<1>a. read \in BOOLEAN /\ suppress \in BOOLEAN
  BY DEF IInv, Serving, Requests
<1>b. req' = [req EXCEPT !.cache_route = TRUE, !.suppress = suppress, !.accessed = read,
                         !.pc = "endpoint", !.pending = TRUE]
  BY DEF IInv, Serving, Requests, Miss, LookedUp, Claimed
<1> HIDE DEF read, suppress
<1>1. req' \in Requests
  BY <1>a, <1>b DEF IInv, Serving, Requests
<1>2. Serving'
  BY <1>1 DEF IInv, Serving, Miss, LookedUp, Claimed, Requests, ScopeOK, OwnerOK, MarkedOK,
     OneAuthority, Past
<1>3. QED BY <1>2, StandingStays DEF IInv, Miss

\* cache()'s own directives are directives.
LEMMA CacheDirectives ==
  ASSUME NEW q
  PROVE  _cache_control_value(q) \in SUBSET Directive
BY DEF _cache_control_value, Directive

\* A hit is the caller's own entry, or anybody's.
LEMMA HitStep ==
  ASSUME IInv, Hit
  PROVE  IInv'
<1> DEFINE q == LookedUp(req)
           e == entry[cache_key]
<1>1. cache_key \in Caller /\ e \in Entries
  BY DEF IInv, Serving, Standing, Requests, cache_key, Caller
<1>2. e.owner = Anybody \/ (route.vary = "yes" /\ e.owner = req.as)
  BY <1>1 DEF IInv, Standing, EntryOK, Hit, cache_key
<1>3. /\ q \in Requests
      /\ q.as = req.as /\ q.from = req.from /\ q.gated = req.gated /\ q.no_store = req.no_store
      /\ q.cache_route /\ q.pending = req.pending
      /\ q.accessed = (req.accessed \/ route.vary = "yes")
      /\ q.suppress = (route.vary = "no")
  BY DEF IInv, Serving, LookedUp, Claimed, Requests
<1>4. _cache_control_value(q) \in SUBSET Directive
  BY CacheDirectives
<1> HIDE DEF q, e
<1>5. req' = [q EXCEPT !.pc = IF route.inside THEN "headers" ELSE "capture",
                       !.cc = _cache_control_value(q), !.vary = e.vary, !.owner = e.owner,
                       !.answered = TRUE]
  BY DEF Hit, q, e
<1>6. req' \in Requests
  BY <1>1, <1>3, <1>4, <1>5 DEF Requests, Entries
<1>7. /\ req'.pc = IF route.inside THEN "headers" ELSE "capture"
      /\ req'.cc = _cache_control_value(q) /\ req'.owner = e.owner
      /\ req'.answered = TRUE /\ req'.as = req.as /\ req'.from = req.from
      /\ req'.gated = req.gated /\ req'.no_store = req.no_store /\ req'.cache_route
      /\ req'.pending = req.pending /\ req'.suppress = (route.vary = "no")
      /\ req'.accessed = (req.accessed \/ route.vary = "yes")
  BY <1>3, <1>5 DEF Requests
<1>8. route' = route
  BY DEF Hit
<1>9. _cache_control_value(req)' = _cache_control_value(q)
  BY <1>3, <1>7, <1>8 DEF _cache_control_value, no_store_here, private_here
<1>a. ScopeOK'
  <2>1. req'.accessed <=> req.accessed \/ route.vary = "yes"
    BY <1>7
  <2>2. req'.suppress => route.vary = "no"
    BY <1>7
  <2>3. req'.as \in {req'.from, Nobody} /\ req'.owner \in {Anybody, req'.as}
    BY <1>2, <1>7 DEF IInv, Serving, ScopeOK
  <2>4. req'.gated => req'.as \in User /\ req'.accessed
    BY <1>7, <2>1 DEF IInv, Serving, ScopeOK
  <2>5. req.pc = "cache"
    BY DEF Hit
  <2>6. route.gate = "recent" => req'.no_store /\ req'.accessed
    BY <1>7, <2>1, <2>5 DEF IInv, Serving, ScopeOK
  <2>7. req'.pc \notin {"gate", "reject", "cache", "endpoint"} /\ req'.cache_route
    BY <1>7
  <2>8. QED BY <1>8, <2>2, <2>3, <2>4, <2>6, <2>7 DEF ScopeOK
<1>b. OwnerOK'
  BY <1>2, <1>7, <1>8 DEF OwnerOK, Past
<1>c. MarkedOK' /\ OneAuthority'
  BY <1>7, <1>9 DEF MarkedOK, OneAuthority
<1>10. ScopeOK' /\ OwnerOK' /\ MarkedOK' /\ OneAuthority'
  BY <1>a, <1>b, <1>c
<1>11. QED BY <1>6, <1>10, StandingStays DEF IInv, Serving, Hit

-----------------------------------------------------------------------------
(***************************************************************************)
(* The endpoint and the two middlewares                                    *)
(***************************************************************************)

\* A body that depends on the session was made for the caller.
LEMMA EndpointStep ==
  ASSUME IInv, Endpoint
  PROVE  IInv'
<1>1. PICK reads \in BOOLEAN, own \in Own :
         req' = [req EXCEPT !.cc = own, !.accessed = @ \/ reads,
                            !.owner = IF reads /\ route.vary # "no" THEN req.as ELSE Anybody,
                            !.pc = IF route.inside THEN "headers" ELSE "capture"]
  BY DEF Endpoint
<1>2. own \in SUBSET Directive
  BY DEF Own, Directive
<1> DEFINE read == req.accessed \/ reads
           owner == IF reads /\ route.vary # "no" THEN req.as ELSE Anybody
           next == IF route.inside THEN "headers" ELSE "capture"
<1>a. read \in BOOLEAN /\ owner \in Owners /\ next \in {"headers", "capture"}
  BY DEF IInv, Serving, Requests, Owners
<1>b. req' = [req EXCEPT !.cc = own, !.accessed = read, !.owner = owner, !.pc = next]
  BY <1>1
<1> HIDE DEF read, owner, next
<1>3. req' \in Requests
  BY <1>2, <1>a, <1>b DEF IInv, Serving, Requests
<1> USE DEF read, owner, next
<1>4. Serving'
  BY <1>1, <1>3 DEF IInv, Serving, Endpoint, Requests, ScopeOK, OwnerOK, MarkedOK, OneAuthority,
     Past
<1>5. QED BY <1>4, StandingStays DEF IInv, Endpoint

\* The session middleware adds to the directives only where cache() has not.
LEMMA HeadersStep ==
  ASSUME IInv, Headers
  PROVE  IInv'
<1> DEFINE q == IF req.accessed THEN _apply_cache_headers(req) ELSE req
<1>0. req \in Requests
  BY DEF IInv, Serving
<1>1. /\ q \in Requests
      /\ \A f \in {"pc", "from", "as", "owner", "unkept", "accessed", "gated", "no_store",
                   "cache_route", "suppress", "pending", "answered"} : q[f] = req[f]
      /\ req.accessed /\ ~req.suppress => q.vary
      /\ req.cache_route => q.cc = req.cc
      /\ req.accessed /\ ~req.cache_route /\ req.no_store => "no-store" \in q.cc
      /\ req.accessed /\ ~req.cache_route => "private" \in q.cc \/ "no-store" \in q.cc
  <2>1. CASE ~req.accessed
    BY <1>0, <2>1
  <2>2. CASE req.accessed
    <3> DEFINE vary == req.vary \/ ~req.suppress
               cc == IF req.cache_route THEN req.cc
                     ELSE IF req.no_store THEN req.cc \cup {"no-store"}
                     ELSE IF "no-store" \notin req.cc THEN req.cc \cup {"private"} ELSE req.cc
    <3>1. q = [req EXCEPT !.vary = vary, !.cc = cc]
      BY <1>0, <2>2 DEF _apply_cache_headers, Requests
    <3>2. vary \in BOOLEAN /\ cc \in SUBSET Directive
      BY <1>0 DEF Requests, Directive
    <3>3. /\ ~req.suppress => vary
          /\ req.cache_route => cc = req.cc
          /\ ~req.cache_route /\ req.no_store => "no-store" \in cc
          /\ ~req.cache_route => "private" \in cc \/ "no-store" \in cc
      OBVIOUS
    <3> HIDE DEF vary, cc, q
    <3>4. q \in Requests
      BY <1>0, <3>1, <3>2 DEF Requests
    <3>5. q.vary = vary /\ q.cc = cc
      BY <1>0, <3>1 DEF Requests
    <3>6. \A f \in {"pc", "from", "as", "owner", "unkept", "accessed", "gated", "no_store",
                    "cache_route", "suppress", "pending", "answered"} : q[f] = req[f]
      BY <1>0, <3>1 DEF Requests
    <3>7. QED BY <3>3, <3>4, <3>5, <3>6
  <2>3. QED BY <2>1, <2>2
<1> HIDE DEF q
<1>2. req' = [q EXCEPT !.pc = IF route.inside THEN "capture" ELSE "send"]
  BY DEF Headers, q
<1>3. req' \in Requests
  BY <1>1, <1>2 DEF Requests
<1>4. /\ \A f \in {"from", "as", "owner", "unkept", "accessed", "gated", "no_store",
                   "cache_route", "suppress", "pending", "answered"} : req'[f] = req[f]
      /\ req'.pc = (IF route.inside THEN "capture" ELSE "send")
      /\ req'.vary = q.vary /\ req'.cc = q.cc
  BY <1>1, <1>2 DEF Requests
<1>5. route' = route
  BY DEF Headers
<1>6. ScopeOK' /\ OwnerOK' /\ MarkedOK'
  BY <1>1, <1>4, <1>5 DEF IInv, Serving, Headers, ScopeOK, OwnerOK, MarkedOK, Past
<1>7. _cache_control_value(req)' = _cache_control_value(req)
  BY <1>4, <1>5 DEF _cache_control_value, no_store_here, private_here
<1>8. OneAuthority'
  BY <1>1, <1>4, <1>7 DEF IInv, Serving, ScopeOK, OneAuthority
<1>9. QED BY <1>3, <1>6, <1>8, StandingStays DEF IInv, Serving, Headers

\* What the capture middleware does not answer goes on as it is.
LEMMA CapturedStep ==
  ASSUME IInv, req.pc = "capture", UNCHANGED <<route, session, entry, kept>>,
         req' = Captured(req)
  PROVE  IInv'
<1>1. req' \in Requests
  BY DEF IInv, Serving, Captured, Requests
<1>2. /\ \A f \in {"from", "as", "cc", "vary", "owner", "unkept", "accessed", "gated", "no_store",
                   "cache_route", "suppress", "pending", "answered"} : req'[f] = req[f]
      /\ req'.pc = (IF route.inside THEN "send" ELSE "headers")
  BY DEF IInv, Serving, Captured, Requests
<1>3. _cache_control_value(req)' = _cache_control_value(req)
  BY <1>2 DEF _cache_control_value, no_store_here, private_here
<1>4. ScopeOK' /\ OwnerOK' /\ MarkedOK' /\ OneAuthority'
  BY <1>2, <1>3 DEF IInv, Serving, ScopeOK, OwnerOK, MarkedOK, OneAuthority, Past
<1>5. QED BY <1>1, <1>4, StandingStays DEF IInv, Serving

\* What it does answer is cache()'s from here on.
LEMMA AnsweredStep ==
  ASSUME IInv, req.pc = "capture", req.pending, UNCHANGED <<route, session, kept>>,
         NEW cc, cc \in {{"private", "no-store"}, _cache_control_value(req)},
         req' = Captured([req EXCEPT !.cc = cc, !.answered = TRUE])
  PROVE  Serving'
<1>1. cc \in SUBSET Directive
  BY CacheDirectives DEF Directive
<1>2. req' \in Requests
  BY <1>1 DEF IInv, Serving, Captured, Requests
<1>3. /\ \A f \in {"from", "as", "vary", "owner", "unkept", "accessed", "gated", "no_store",
                   "cache_route", "suppress", "pending"} : req'[f] = req[f]
      /\ req'.pc = (IF route.inside THEN "send" ELSE "headers")
      /\ req'.cc = cc
      /\ req'.answered = TRUE
  BY DEF IInv, Serving, Captured, Requests
<1>4. _cache_control_value(req)' = _cache_control_value(req)
  BY <1>3 DEF _cache_control_value, no_store_here, private_here
<1>5. ScopeOK' /\ OwnerOK' /\ MarkedOK' /\ OneAuthority'
  BY <1>3, <1>4 DEF IInv, Serving, ScopeOK, OwnerOK, MarkedOK, OneAuthority, Past
<1>6. QED BY <1>2, <1>5 DEF Serving

\* The leak guard answers, and stores nothing.
LEMMA LeakStep ==
  ASSUME IInv, Leak
  PROVE  IInv'
<1>1. Serving'
  BY AnsweredStep DEF Leak
<1>2. QED BY <1>1, StandingStays DEF IInv, Leak

\* What is stored under a key without a suffix was made without the session.
LEMMA StoreStep ==
  ASSUME IInv, Store
  PROVE  IInv'
<1>1. Serving'
  BY AnsweredStep DEF Store
<1> DEFINE e == [owner |-> req.owner, vary |-> req.vary]
<1>2. e \in Entries
  BY DEF IInv, Serving, Requests, Entries
<1>3. e.owner = Anybody \/ (route.vary = "yes" /\ e.owner = cache_key)
  BY RouteFields DEF IInv, Serving, Standing, ScopeOK, OwnerOK, Store, _leaks_across_users,
     cache_key
<1> HIDE DEF e
<1>4. entry' \in {entry, [entry EXCEPT ![cache_key] = e]}
  BY DEF Store, e
<1>5. entry' \in [Caller -> Entries]
  BY <1>2, <1>4 DEF IInv, Standing
<1>6. EntryOK'
  BY <1>3, <1>4 DEF IInv, Standing, EntryOK, Store
<1>7. Standing'
  BY <1>5, <1>6 DEF IInv, Standing, Store, NobodyElsesPage, PagesStayBehindTheirGate, MayServe,
     Lives
<1>8. QED BY <1>1, <1>7 DEF IInv

-----------------------------------------------------------------------------
(***************************************************************************)
(* Outside                                                                 *)
(***************************************************************************)

\* What a cache keeps of a response that is ready to be sent is in order.
LEMMA KeptInOrder ==
  ASSUME IInv, req.pc = "send", NEW place \in Keepers(req)
  PROVE  LET k == Kept(place, req) IN
         /\ k \in Copies
         /\ \A c \in Caller : MayServe(k, c) =>
              k.owner \in {Anybody, c} \/ (k.owner = Nobody /\ k.cookie = c)
         /\ k.owned => route.gate # "recent" /\ ~(k.where = "shared" /\ k.gated)
<1> DEFINE k == Kept(place, req)
<1>1. /\ place \in {"browser", "shared"}
      /\ "no-store" \notin req.cc
      /\ place = "shared" => "private" \notin req.cc
  BY DEF Keepers
<1>2. /\ k \in Copies
      /\ k.where = place /\ k.cookie = req.from /\ k.vary = req.vary /\ k.owner = req.owner
      /\ k.gated = req.gated /\ k.owned = (req.answered \/ ~req.cache_route)
  BY <1>1 DEF IInv, Serving, Kept, Copies, Requests
<1> HIDE DEF k
<1>3. ASSUME NEW c \in Caller, MayServe(k, c)
      PROVE  k.owner \in {Anybody, c} \/ (k.owner = Nobody /\ k.cookie = c)
  BY <1>2, <1>3 DEF IInv, Serving, ScopeOK, OwnerOK, Past, MayServe
<1>4. ASSUME k.owned
      PROVE  route.gate # "recent" /\ ~(k.where = "shared" /\ k.gated)
  <2>1. CASE ~req.cache_route
    BY <1>1, <1>2, <2>1 DEF IInv, Serving, MarkedOK, Past
  <2>2. CASE req.answered
    <3>1. req.cc = _cache_control_value(req)
      BY <1>1, <2>2 DEF IInv, Serving, OneAuthority
    <3>2. ~no_store_here(req) /\ (place = "shared" => ~private_here(req))
      BY <1>1, <3>1 DEF _cache_control_value
    <3>3. QED BY <1>2, <3>2 DEF no_store_here, private_here, IInv, Serving, ScopeOK
  <2>3. QED BY <1>2, <1>4, <2>1, <2>2
<1>5. QED BY <1>2, <1>3, <1>4 DEF k

\* The response is delivered, and kept.
LEMMA DeliverStep ==
  ASSUME IInv, Deliver
  PROVE  IInv'
<1>1. req' \in Requests
  BY DEF Deliver, NoRequest, Requests, Caller, Owners, Anybody, Directive
<1>2. Serving'
  BY <1>1 DEF Deliver, NoRequest, Serving, ScopeOK, OwnerOK, MarkedOK, OneAuthority, Past
<1>3. ASSUME NEW k \in kept'
      PROVE  /\ k \in Copies
             /\ \A c \in Caller : MayServe(k, c) =>
                  k.owner \in {Anybody, c} \/ (k.owner = Nobody /\ k.cookie = c)
             /\ k.owned => route.gate # "recent" /\ ~(k.where = "shared" /\ k.gated)
  <2>1. PICK place \in Keepers(req) : k = Kept(place, req)
    BY DEF Deliver
  <2>2. QED BY <2>1, KeptInOrder DEF Deliver
<1>4. kept' \subseteq Copies /\ NobodyElsesPage'
  BY <1>3 DEF NobodyElsesPage, MayServe
<1>5. PagesStayBehindTheirGate'
  BY <1>3 DEF PagesStayBehindTheirGate, Deliver
<1>6. Standing'
  BY <1>4, <1>5 DEF IInv, Standing, Deliver, EntryOK
<1>7. QED BY <1>2, <1>6 DEF IInv

\* What is not about sessions or entries does not see them change.
LEMMA ServingStays ==
  ASSUME Serving, UNCHANGED <<route, req>>
  PROVE  Serving'
BY DEF Serving, ScopeOK, OwnerOK, MarkedOK, OneAuthority, Past, _cache_control_value,
   no_store_here, private_here

\* A session grows old.
LEMMA AgeStep ==
  ASSUME IInv, NEW u \in User, Age(u)
  PROVE  IInv'
<1>1. session' \in [User -> {"recent", "old"}]
  BY DEF IInv, Standing, Age
<1>2. Standing'
  BY <1>1 DEF IInv, Standing, Age, EntryOK, NobodyElsesPage, PagesStayBehindTheirGate, MayServe,
     Lives
<1>3. QED BY <1>2, ServingStays DEF IInv, Age

\* An entry goes.
LEMMA EvictStep ==
  ASSUME IInv, NEW k \in Caller, Evict(k)
  PROVE  IInv'
<1>1. NoEntry \in Entries
  BY DEF NoEntry, Entries, Owners
<1>2. entry' \in [Caller -> Entries] /\ EntryOK'
  BY <1>1 DEF IInv, Standing, Evict, EntryOK
<1>3. Standing'
  BY <1>2 DEF IInv, Standing, Evict, NobodyElsesPage, PagesStayBehindTheirGate, MayServe, Lives
<1>4. QED BY <1>3, ServingStays DEF IInv, Evict

-----------------------------------------------------------------------------

\* Every step keeps the invariant.
LEMMA InvariantStep == IInv /\ [Next]_vars => IInv'
<1> SUFFICES ASSUME IInv, [Next]_vars PROVE IInv'
  OBVIOUS
<1>1. CASE UNCHANGED vars
  BY <1>1, ServingStays, StandingStays DEF vars, IInv
<1>2. CASE \E c \in Caller : Arrive(c) \/ Evict(c)
  BY <1>2, ArriveStep, EvictStep
<1>3. CASE \E u \in User : Age(u)
  BY <1>3, AgeStep
<1>4. CASE Passthrough \/ Refuse
  BY <1>4, CapturedStep DEF Passthrough, Refuse
<1>5. CASE valid_session \/ Reject \/ Uncached \/ Bypass \/ Hit \/ Miss \/ Endpoint
  BY <1>5, GateStep, RejectStep, UncachedStep, BypassStep, HitStep, MissStep, EndpointStep
<1>6. CASE Headers \/ Leak \/ Store \/ Deliver
  BY <1>6, HeadersStep, LeakStep, StoreStep, DeliverStep
<1>7. QED BY <1>1, <1>2, <1>3, <1>4, <1>5, <1>6 DEF Next

\* The invariant holds of every behaviour.
LEMMA InvariantHolds == Spec => []IInv
BY InvariantInit, InvariantStep, PTL DEF Spec

\* Everything has its type.
THEOREM TypeCorrect == Spec => []TypeOK
<1>1. IInv => TypeOK
  BY DEF IInv, Serving, Standing, TypeOK
<1>2. QED BY <1>1, InvariantHolds, PTL

\* cache() alone settles the directives of what it answers for, in whichever
\* order the middlewares are set up.
THEOREM CacheDecides == Spec => []OneAuthority
<1>1. IInv => OneAuthority
  BY DEF IInv, Serving
<1>2. QED BY <1>1, InvariantHolds, PTL

\* No cache outside answers a caller with a body made for another, for any
\* number of users and under every declaration of the route.
THEOREM NobodyIsShownAnother == Spec => []NobodyElsesPage
<1>1. IInv => NobodyElsesPage
  BY DEF IInv, Standing
<1>2. QED BY <1>1, InvariantHolds, PTL

\* No shared cache shows a gated page to a caller the gate refuses.
THEOREM GateHoldsOutside == Spec => []PagesStayBehindTheirGate
<1>1. IInv => PagesStayBehindTheirGate
  BY DEF IInv, Standing
<1>2. QED BY <1>1, InvariantHolds, PTL

-----------------------------------------------------------------------------
(***************************************************************************)
(* Where the promise to gated pages holds without exception                *)
(***************************************************************************)

\* On a route that did not say its page is the same for everybody.
GatedPagesStayUnlessShared == route.vary # "no" => GatedPagesStay

\* There, a response that read the session varies by the cookie, and so does
\* every copy of a gated page, which was made for a caller with a session.
Varied ==
  route.vary # "no" =>
    /\ Past /\ req.accessed => req.vary
    /\ \A k \in kept : k.gated => k.vary /\ k.cookie \in User

\* What cache() makes of a request is one.
LEMMA LookupTypes ==
  ASSUME req \in Requests
  PROVE  Claimed(req) \in Requests /\ LookedUp(req) \in Requests
<1>1. PICK q : q = Claimed(req)
  OBVIOUS
<1>2. q \in Requests
  BY <1>1 DEF Claimed, Requests
<1>3. PICK a \in BOOLEAN : a = (q.accessed \/ route.vary = "yes")
  OBVIOUS
<1>4. LookedUp(req) = [q EXCEPT !.accessed = a]
  BY <1>1, <1>3 DEF LookedUp
<1>5. [q EXCEPT !.accessed = a] \in Requests
  BY <1>2 DEF Requests
<1>6. QED BY <1>1, <1>2, <1>4, <1>5

\* No station after the session middleware reads the session, or takes a Vary
\* away.
LEMMA VariedServing ==
  ASSUME IInv, Varied, [Next]_vars, route.vary # "no", Past', req'.accessed
  PROVE  req'.vary
<1>0. req \in Requests /\ ScopeOK
  BY DEF IInv, Serving
<1>1. CASE Headers
  <2>1. PICK q : /\ q = IF req.accessed THEN _apply_cache_headers(req) ELSE req
                 /\ req' = [q EXCEPT !.pc = IF route.inside THEN "capture" ELSE "send"]
    BY <1>1 DEF Headers
  <2>2. CASE ~req.accessed
    BY <1>0, <2>1, <2>2 DEF Requests
  <2>3. CASE req.accessed
    <3>1. PICK vary, cc :
            /\ vary <=> req.vary \/ ~req.suppress
            /\ vary \in BOOLEAN
            /\ q = [req EXCEPT !.vary = vary, !.cc = cc]
      BY <2>1, <2>3 DEF _apply_cache_headers
    <3>2. vary
      BY <1>0, <3>1 DEF ScopeOK
    <3>3. req'.vary = vary
      BY <1>0, <2>1, <3>1 DEF Requests
    <3>4. QED BY <3>2, <3>3
  <2>4. QED BY <2>2, <2>3
<1>2. CASE Passthrough \/ Refuse \/ Leak \/ Store
  <2>1. PICK cc, answered :
          /\ req' = Captured([req EXCEPT !.cc = cc, !.answered = answered])
          /\ req.pc = "capture" /\ route' = route
    <3>1. [req EXCEPT !.cc = req.cc, !.answered = req.answered] = req
      BY <1>0 DEF Requests
    <3>2. CASE Passthrough \/ Refuse
      <4>1. req' = Captured(req) /\ req.pc = "capture" /\ route' = route
        BY <3>2 DEF Passthrough, Refuse
      <4>2. req' = Captured([req EXCEPT !.cc = req.cc, !.answered = req.answered])
        BY <3>1, <4>1
      <4>3. QED BY <4>1, <4>2
    <3>3. CASE Leak
      BY <3>3 DEF Leak
    <3>4. CASE Store
      BY <3>4 DEF Store
    <3>5. QED BY <1>2, <3>2, <3>3, <3>4
  <2>2. req'.vary = req.vary /\ req'.accessed = req.accessed
    BY <1>0, <2>1 DEF Captured, Requests
  <2>3. Past
    BY <1>0, <2>1 DEF Past, Captured, Requests
  <2>4. QED BY <2>2, <2>3 DEF Varied
<1>3. CASE Hit
  <2>1. PICK q : req' = [q EXCEPT !.pc = IF route.inside THEN "headers" ELSE "capture",
                                  !.cc = _cache_control_value(q),
                                  !.vary = entry[cache_key].vary,
                                  !.owner = entry[cache_key].owner,
                                  !.answered = TRUE]
                 /\ q = LookedUp(req) /\ route' = route
    BY <1>3 DEF Hit
  <2>2. q \in Requests
    BY <1>0, <2>1, LookupTypes
  <2>3. req'.pc = IF route.inside THEN "headers" ELSE "capture"
    BY <2>1, <2>2 DEF Requests
  <2>4. QED BY <2>1, <2>3 DEF Past
<1>4. CASE Endpoint
  <2>1. req'.pc = IF route.inside THEN "headers" ELSE "capture"
    BY <1>0, <1>4 DEF Endpoint, Requests
  <2>2. QED BY <1>4, <2>1 DEF Past, Endpoint
<1>5. CASE valid_session \/ Reject \/ Uncached \/ Bypass \/ Miss
  <2>1. CASE valid_session
    BY <1>0, <2>1 DEF valid_session, Requests, Past
  <2>2. CASE Reject \/ Uncached
    BY <1>0, <2>2 DEF Reject, Uncached, Requests, Past
  <2>3. CASE Bypass
    <3>1. PICK q : req' = [q EXCEPT !.pc = "endpoint", !.unkept = TRUE] /\ q = Claimed(req)
      BY <2>3 DEF Bypass
    <3>2. q \in Requests
      BY <1>0, <3>1, LookupTypes
    <3>3. req'.pc = "endpoint"
      BY <3>1, <3>2 DEF Requests
    <3>4. QED BY <3>3 DEF Past
  <2>4. CASE Miss
    <3>1. PICK q : req' = [q EXCEPT !.pc = "endpoint", !.pending = TRUE] /\ q = LookedUp(req)
      BY <2>4 DEF Miss
    <3>2. q \in Requests
      BY <1>0, <3>1, LookupTypes
    <3>3. req'.pc = "endpoint"
      BY <3>1, <3>2 DEF Requests
    <3>4. QED BY <3>3 DEF Past
  <2>5. QED BY <1>5, <2>1, <2>2, <2>3, <2>4
<1>6. CASE Deliver \/ \E c \in Caller : Arrive(c)
  <2>1. CASE Deliver
    BY <2>1 DEF Deliver, NoRequest
  <2>2. CASE \E c \in Caller : Arrive(c)
    <3>0. PICK c \in Caller : Arrive(c)
      BY <2>2
    <3>1. PICK who \in {c, Nobody} :
            req' = [NoRequest EXCEPT !.from = c, !.as = who,
                                     !.pc = IF route.gate = "none" THEN "cache" ELSE "gate"]
      BY <3>0 DEF Arrive
    <3>2. QED BY <3>1 DEF NoRequest
  <2>3. QED BY <1>6, <2>1, <2>2
<1>7. CASE UNCHANGED vars \/ (\E u \in User : Age(u)) \/ (\E c \in Caller : Evict(c))
  BY <1>7 DEF vars, Age, Evict, Past, Varied
<1>8. QED BY <1>1, <1>2, <1>3, <1>4, <1>5, <1>6, <1>7 DEF Next

\* What is kept of a gated page varies by the cookie of its caller.
LEMMA VariedKept ==
  ASSUME IInv, Varied, [Next]_vars, route.vary # "no", NEW k \in kept', k.gated
  PROVE  k.vary /\ k.cookie \in User
<1>1. CASE Deliver
  <2>1. PICK place \in Keepers(req) : k = Kept(place, req)
    BY <1>1 DEF Deliver
  <2>2. k.cookie = req.from /\ k.vary = req.vary /\ k.gated = req.gated
    BY <2>1 DEF Kept
  <2>3. req.as \in User /\ req.accessed /\ req.as \in {req.from, Nobody}
    BY <2>2 DEF IInv, Serving, ScopeOK
  <2>4. req.from \in User
    BY <2>3, NobodyAssumption
  <2>5. req.vary
    BY <1>1, <2>3 DEF Deliver, Past, Varied
  <2>6. QED BY <2>2, <2>4, <2>5
<1>2. CASE \E c \in Caller : Arrive(c)
  BY <1>2 DEF Arrive
<1>3. CASE UNCHANGED kept
  BY <1>3 DEF Varied
<1>4. QED
  BY <1>1, <1>2, <1>3 DEF Next, vars, Age, Evict, valid_session, Reject, Uncached, Bypass, Hit,
     Miss, Endpoint, Headers, Passthrough, Leak, Refuse, Store

\* A shared cache cannot show a gated page to a caller the gate refuses, even a
\* page the capture middleware refused to store: it varies by a cookie the
\* caller does not have.  Only vary_on_session=False takes that Vary away.
THEOREM VaryKeepsGatedPages == Spec => []GatedPagesStayUnlessShared
<1>1. Init => Varied
  BY DEF Init, NoRequest, Varied, Past
<1>2. IInv /\ Varied /\ [Next]_vars => Varied'
  <2> SUFFICES ASSUME IInv, Varied, [Next]_vars, route'.vary # "no"
               PROVE  /\ Past' /\ req'.accessed => req'.vary
                      /\ \A k \in kept' : k.gated => k.vary /\ k.cookie \in User
    BY DEF Varied
  <2>1. route' = route
    BY DEF Next, vars, Arrive, Age, Evict, valid_session, Reject, Uncached, Bypass, Hit,
       Miss, Endpoint, Headers, Passthrough, Leak, Refuse, Store, Deliver
  <2>2. QED BY <2>1, VariedServing, VariedKept
<1>3. Varied => GatedPagesStayUnlessShared
  BY DEF Varied, GatedPagesStayUnlessShared, GatedPagesStay, MayServe, Lives
<1>4. QED BY <1>1, <1>2, <1>3, InvariantHolds, PTL DEF Spec
=============================================================================

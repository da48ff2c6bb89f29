----------------------------- MODULE Directives -----------------------------
(***************************************************************************)
(* What a cached route tells the caches outside the application: the       *)
(* Cache-Control and Vary fields that the gate (valid_session), cache(),   *)
(* its capture middleware and the session middleware settle between them,  *)
(* each through marks it leaves in the request scope for the others.       *)
(*                                                                         *)
(* One route, one request after the other.  Outside are a shared cache and *)
(* a browser that several people use, and both reuse what they may.        *)
(***************************************************************************)
EXTENDS Naturals, FiniteSets

CONSTANTS User,    \* callers with a session
          Nobody,  \* a caller without one
          Routes   \* the declarations a route may have

ASSUME NobodyAssumption == Nobody \notin User
ASSUME RoutesAssumption ==
  Routes \subseteq [gate : {"none", "valid", "recent"},   \* valid_session(issued_within)
                    cached : BOOLEAN,                      \* it has a cache()
                    vary : {"yes", "no", "unset"},         \* vary_on_session
                    private : BOOLEAN, no_store : BOOLEAN,
                    ttl : {"none", "some"},
                    inside : BOOLEAN]  \* sessions() was set up before caching()

Caller == User \cup {Nobody}

VARIABLES route,    \* the route's declaration
          session,  \* session[u]: how long ago the identifier was issued
          entry,    \* entry[k]: the entry of user k, or of the key without a suffix
          req,      \* the request being served: its scope, and its response so far
          kept      \* what a cache outside has kept

vars == <<route, session, entry, req, kept>>

\* Whose body it is: one caller's, or anybody's.
Anybody == "anybody"

NoEntry == [owner |-> "none", vary |-> FALSE]

NoRequest ==
  [pc |-> "idle", from |-> Nobody, as |-> Nobody,
   cc |-> {}, vary |-> FALSE, owner |-> Anybody, unkept |-> FALSE,
   accessed |-> FALSE, gated |-> FALSE, no_store |-> FALSE, cache_route |-> FALSE,
   suppress |-> FALSE, pending |-> FALSE, answered |-> FALSE]

Init ==
  /\ route \in Routes
  /\ session = [u \in User |-> "recent"]
  /\ entry = [k \in Caller |-> NoEntry]
  /\ req = NoRequest
  /\ kept = {}

-----------------------------------------------------------------------------
(***************************************************************************)
(* The gate and the lookup                                                 *)
(***************************************************************************)

\* A request arrives; its session is loaded, unless Redis cannot be read.  What
\* is said of a kept response does not change any more: it is followed no longer.
Arrive(c) ==
  /\ req.pc = "idle"
  /\ \E who \in {c, Nobody} :
        req' = [NoRequest EXCEPT !.from = c, !.as = who,
                                 !.pc = IF route.gate = "none" THEN "cache" ELSE "gate"]
  /\ kept' = {}
  /\ UNCHANGED <<route, session, entry>>

\* What the gate asks: a live session; perhaps one of a recent sign-in.
Lives(c) == c \in User
Passes(c) == Lives(c) /\ (route.gate = "recent" => session[c] = "recent")

\* valid_session.  It reads the session, and marks the request before it knows
\* whether the session is recent enough.
valid_session ==
  /\ req.pc = "gate"
  /\ req' = [req EXCEPT !.accessed = TRUE,
                        !.no_store = (route.gate = "recent"),
                        !.gated = Lives(req.as),
                        !.pc = IF Passes(req.as) THEN "cache" ELSE "reject"]
  /\ UNCHANGED <<route, session, entry, kept>>

\* The 401, or what on_reject makes of it, perhaps with status 200.
Reject ==
  /\ req.pc = "reject"
  /\ req' = [req EXCEPT !.pc = "headers"]
  /\ UNCHANGED <<route, session, entry, kept>>

\* cache() claims the route's Cache-Control, on a bypass too.
Claimed(q) == [q EXCEPT !.cache_route = TRUE, !.suppress = (route.vary = "no")]

\* The route has no cache().
Uncached ==
  /\ req.pc = "cache" /\ ~route.cached
  /\ req' = [req EXCEPT !.pc = "endpoint"]
  /\ UNCHANGED <<route, session, entry, kept>>

\* The client said no-store, which binds the caches outside as well.
Bypass ==
  /\ req.pc = "cache" /\ route.cached
  /\ req' = [Claimed(req) EXCEPT !.pc = "endpoint", !.unkept = TRUE]
  /\ UNCHANGED <<route, session, entry, kept>>

\* The key: with the user's suffix where the route varies by session.
cache_key == IF route.vary = "yes" THEN req.as ELSE Nobody

\* Mutant of LookedUp: the key is not taken for a read of the session.
LookedUpUnmarked(q) == Claimed(q)

\* Choosing a key by session reads the session.
LookedUp(q) == [Claimed(q) EXCEPT !.accessed = @ \/ route.vary = "yes"]

\* Mutant of private_here: the route's own declaration only.
PrivateDeclared(q) == route.private \/ route.vary = "yes"

\* Private if the route says so, varies by session, or was gated.
private_here(q) == route.private \/ route.vary = "yes" \/ q.gated
no_store_here(q) == route.no_store \/ q.no_store

_cache_control_value(q) ==
  IF no_store_here(q) THEN {"no-store"}
  ELSE (IF route.ttl = "some" THEN {"max-age"} ELSE {"no-cache"})
         \cup (IF private_here(q) THEN {"private"} ELSE {})

\* The response, or a 304, is made of the entry: its body, its Vary, and
\* directives of this request.
Hit ==
  /\ req.pc = "cache" /\ route.cached
  /\ entry[cache_key] # NoEntry
  /\ LET q == LookedUp(req) IN
     req' = [q EXCEPT !.pc = IF route.inside THEN "headers" ELSE "capture",
                      !.cc = _cache_control_value(q),
                      !.vary = entry[cache_key].vary,
                      !.owner = entry[cache_key].owner,
                      !.answered = TRUE]
  /\ UNCHANGED <<route, session, entry, kept>>

\* No entry, one the client finds too old, or none that could be read.
Miss ==
  /\ req.pc = "cache" /\ route.cached
  /\ req' = [LookedUp(req) EXCEPT !.pc = "endpoint", !.pending = TRUE]
  /\ UNCHANGED <<route, session, entry, kept>>

-----------------------------------------------------------------------------
(***************************************************************************)
(* The endpoint and the two middlewares                                    *)
(***************************************************************************)

\* What an endpoint may say for itself.
Own == {{}, {"max-age"}, {"private"}, {"no-store"}}

\* The endpoint runs.  Its body depends on the session only if it reads it, and
\* never where the route has said that it does not.
Endpoint ==
  /\ req.pc = "endpoint"
  /\ \E reads \in BOOLEAN, own \in Own :
        req' = [req EXCEPT !.cc = own,
                           !.accessed = @ \/ reads,
                           !.owner = IF reads /\ route.vary # "no" THEN req.as ELSE Anybody,
                           !.pc = IF route.inside THEN "headers" ELSE "capture"]
  /\ UNCHANGED <<route, session, entry, kept>>

\* Mutant of _apply_cache_headers: it adds its directive to cache()'s.
ApplyAlways(q) ==
  [q EXCEPT !.vary = @ \/ ~q.suppress,
            !.cc = IF q.no_store THEN @ \cup {"no-store"}
                   ELSE IF "no-store" \notin @ THEN @ \cup {"private"} ELSE @]

\* Vary: Cookie, unless the route said otherwise; a directive only where no
\* cache() owns it, and no private beside the endpoint's no-store.
_apply_cache_headers(q) ==
  [q EXCEPT !.vary = @ \/ ~q.suppress,
            !.cc = IF q.cache_route THEN @
                   ELSE IF q.no_store THEN @ \cup {"no-store"}
                   ELSE IF "no-store" \notin @ THEN @ \cup {"private"} ELSE @]

\* The response start passes the session middleware.
Headers ==
  /\ req.pc = "headers"
  /\ LET q == IF req.accessed THEN _apply_cache_headers(req) ELSE req IN
     req' = [q EXCEPT !.pc = IF route.inside THEN "capture" ELSE "send"]
  /\ UNCHANGED <<route, session, entry, kept>>

\* Where the response goes when the capture middleware is done with it.
Captured(q) == [q EXCEPT !.pc = IF route.inside THEN "send" ELSE "headers"]

\* Nothing is pending.
Passthrough ==
  /\ req.pc = "capture" /\ ~req.pending
  /\ req' = Captured(req)
  /\ UNCHANGED <<route, session, entry, kept>>

\* Mutant of _leaks_across_users: the guard is for callers with a session.
LeaksForUsers(q) == route.vary = "unset" /\ q.accessed /\ q.as # Nobody

_leaks_across_users(q) == route.vary = "unset" /\ q.accessed

Leak ==
  /\ req.pc = "capture" /\ req.pending
  /\ _leaks_across_users(req)
  /\ req' = Captured([req EXCEPT !.cc = {"private", "no-store"}, !.answered = TRUE])
  /\ UNCHANGED <<route, session, entry, kept>>

\* The storage rules refuse the response, or it is too long, or sent as a file:
\* it goes out with the endpoint's own directives.
Refuse ==
  /\ req.pc = "capture" /\ req.pending
  /\ req' = Captured(req)
  /\ UNCHANGED <<route, session, entry, kept>>

\* Stored, if the SET succeeds; the endpoint's directives are replaced.
Store ==
  /\ req.pc = "capture" /\ req.pending
  /\ ~_leaks_across_users(req)
  /\ req.cc \cap {"private", "no-store"} = {}
  /\ entry' \in {entry, [entry EXCEPT ![cache_key] = [owner |-> req.owner, vary |-> req.vary]]}
  /\ req' = Captured([req EXCEPT !.cc = _cache_control_value(req), !.answered = TRUE])
  /\ UNCHANGED <<route, session, kept>>

-----------------------------------------------------------------------------
(***************************************************************************)
(* Outside: RFC 9111, as far as this code relies on it                     *)
(***************************************************************************)

\* Where a response may be kept: nowhere, in the browser, in both.
Keepers(q) ==
  IF q.unkept \/ "no-store" \in q.cc THEN {}
  ELSE IF "private" \in q.cc THEN {"browser"} ELSE {"browser", "shared"}

\* owned: cache() or the session middleware had its say in the directives.
Kept(where, q) ==
  [where |-> where, cookie |-> q.from, vary |-> q.vary, fresh |-> "no-cache" \notin q.cc,
   owner |-> q.owner, gated |-> q.gated, owned |-> q.answered \/ ~q.cache_route]

\* The response reaches the caller, and every cache that may keep it does.
Deliver ==
  /\ req.pc = "send"
  /\ kept' = {Kept(place, req) : place \in Keepers(req)}
  /\ req' = NoRequest
  /\ UNCHANGED <<route, session, entry>>

\* A kept response may answer this caller, without the application hearing of it.
MayServe(k, c) == k.fresh /\ (k.vary => k.cookie = c)

\* Time passes: a session is no longer of a recent sign-in.
Age(u) ==
  /\ session[u] = "recent"
  /\ session' = [session EXCEPT ![u] = "old"]
  /\ UNCHANGED <<route, entry, req, kept>>

\* An entry expires, or is evicted.
Evict(k) ==
  /\ entry[k] # NoEntry
  /\ entry' = [entry EXCEPT ![k] = NoEntry]
  /\ UNCHANGED <<route, session, req, kept>>

Next ==
  \/ \E c \in Caller : Arrive(c) \/ Evict(c)
  \/ \E u \in User : Age(u)
  \/ valid_session \/ Reject \/ Uncached \/ Bypass \/ Hit \/ Miss \/ Endpoint
  \/ Headers \/ Passthrough \/ Leak \/ Refuse \/ Store \/ Deliver

Spec == Init /\ [][Next]_vars

-----------------------------------------------------------------------------
(***************************************************************************)
(* Properties                                                              *)
(***************************************************************************)

Directive == {"private", "no-store", "no-cache", "max-age"}

Owners == Caller \cup {Anybody, "none"}
Entries == [owner : Owners, vary : BOOLEAN]
Requests ==
  [pc : {"idle", "gate", "reject", "cache", "endpoint", "capture", "headers", "send"},
   from : Caller, as : Caller, cc : SUBSET Directive, vary : BOOLEAN, owner : Owners,
   unkept : BOOLEAN, accessed : BOOLEAN, gated : BOOLEAN, no_store : BOOLEAN,
   cache_route : BOOLEAN, suppress : BOOLEAN, pending : BOOLEAN, answered : BOOLEAN]
Copies ==
  [where : {"browser", "shared"}, cookie : Caller, vary : BOOLEAN, fresh : BOOLEAN,
   owner : Owners, gated : BOOLEAN, owned : BOOLEAN]

\* Everything has its type.
TypeOK ==
  /\ route \in Routes
  /\ session \in [User -> {"recent", "old"}]
  /\ entry \in [Caller -> Entries]
  /\ req \in Requests
  /\ kept \subseteq Copies

\* Where cache() has answered for a response it alone says who may keep it:
\* the session middleware adds no directive to its, in whichever order the two
\* are set up, and whatever the gate and the endpoint have left in the scope.
OneAuthority ==
  req.answered => req.cc \in {_cache_control_value(req), {"private", "no-store"}}

\* "Without this [...] a browser could then reuse one user's copy after another
\* signs in": no cache outside, shared or the browser's, answers a caller with
\* a body made for another.  Where a session could not be read, its owner may
\* be shown the page of a caller without one.
NobodyElsesPage ==
  \A k \in kept, c \in Caller : MayServe(k, c) =>
     \/ k.owner \in {Anybody, c}
     \/ k.owner = Nobody /\ k.cookie = c

\* "a shared cache cannot serve a gated page to a caller the gate refuses", and
\* a page of a route that asks for a recent session is kept nowhere.  What the
\* capture middleware refuses to store is excepted: nobody adds a directive to
\* it.
PagesStayBehindTheirGate ==
  \A k \in kept : k.owned =>
     /\ route.gate # "recent"
     /\ k.where = "shared" /\ k.gated => \A c \in Caller : MayServe(k, c) => Lives(c)

\* The promise without the exception.
GatedPagesStay ==
  \A k \in kept : k.where = "shared" /\ k.gated =>
     \A c \in Caller : MayServe(k, c) => Lives(c)
=============================================================================

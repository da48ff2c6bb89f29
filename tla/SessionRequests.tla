-------------------------- MODULE SessionRequests --------------------------
(***************************************************************************)
(* The session middleware of sessions.py: what a request loads, what the   *)
(* application does to its session, and what the response then owes, for   *)
(* requests of one browser that overlap and whose responses arrive in any  *)
(* order.                                                                  *)
(*                                                                         *)
(* The store is the one SessionLifecycle describes, which SessionStore     *)
(* implements: an operation on one session is one step here, cut short     *)
(* wherever a command of it may fail.  A record that has ended stays       *)
(* ended, so a save of it brings nothing back.  revoke_all, which reads    *)
(* the index and acts on what it read, takes its three round trips, with   *)
(* the steps of other requests between them.                               *)
(***************************************************************************)
EXTENDS Integers

CONSTANTS Id, NoId, Subject, NoSubject,
          Request,       \* requests of the browser that may overlap
          MaxOps,        \* bound: session operations of one handler
          Ops,           \* the operations handlers use in this instance
          AlwaysSave,    \* session_always_save
          RefreshOnLoad  \* session_refresh_on_load

ASSUME NamesAssumption == NoId \notin Id /\ NoSubject \notin Subject
ASSUME BoundAssumption == MaxOps \in Nat
ASSUME SettingsAssumption == AlwaysSave \in BOOLEAN /\ RefreshOnLoad \in BOOLEAN

VARIABLES store,     \* store[i]: the live record of i, or Gone
          index,     \* index[s]: the identifiers listed under subject s
          used,      \* identifiers drawn
          cookie,    \* the identifier in the browser's cookie jar
          req,       \* req[r]: a request, with its _RequestState
          sweep,     \* sweep[r]: the revoke_all the handler of r is in
          exposed,   \* history: identifiers some response has named
          unindexed  \* history: identifiers whose last index command failed, or
                     \* whose entry a revoke_all dropped without having read it

vars == <<store, index, used, cookie, req, sweep, exposed, unindexed>>

Who == Subject \cup {NoSubject}
MaybeId == Id \cup {NoId}

\* A payload: the principal, and whether it holds anything else.
Data == [who : Who, items : BOOLEAN]
NoData == [who |-> NoSubject, items |-> FALSE]
Gone == [who |-> NoSubject, items |-> FALSE, live |-> FALSE]
Stored(d) == [who |-> d.who, items |-> d.items, live |-> TRUE]
Live(i) == store[i].live

Outcomes == {"CLEAR_COOKIE", "SUPPRESS", "SIGN_OUT", "COOKIE_ONLY", "ROTATE",
             "WRITE", "TOUCH", "NOTHING"}

\* reply: what Set-Cookie the response carries.
NoReply == [kind |-> "none", id |-> NoId, failed |-> FALSE, forgot |-> TRUE]
Names(i, failed) == [kind |-> "names", id |-> i, failed |-> failed, forgot |-> TRUE]
Clears(failed, forgot) == [kind |-> "clears", id |-> NoId, failed |-> failed, forgot |-> forgot]
Bare(failed) == [kind |-> "none", id |-> NoId, failed |-> failed, forgot |-> TRUE]

Idle == [pc |-> "idle", ops |-> 0, data |-> NoData, accessed |-> FALSE,
         modified |-> FALSE, before |-> NoSubject, loaded |-> NoId, unloaded |-> NoId,
         sid |-> NoId, subject |-> NoSubject, revoked |-> FALSE, rotated |-> FALSE,
         returned |-> NoId, reply |-> NoReply]

Requests ==
  [pc : {"idle", "handler", "sent"}, ops : 0..MaxOps, data : Data, accessed : BOOLEAN,
   modified : BOOLEAN, before : Who, loaded : MaybeId, unloaded : MaybeId,
   sid : MaybeId, subject : Who, revoked : BOOLEAN, rotated : BOOLEAN,
   returned : MaybeId,
   reply : [kind : {"none", "names", "clears"}, id : MaybeId, failed : BOOLEAN,
            forgot : BOOLEAN]]

\* A revoke_all has read the members of a subject, then deleted their records.
NoSweep == [at |-> "none", of |-> NoSubject, members |-> {}]
Sweeps == [at : {"none", "read", "deleted"}, of : Who, members : SUBSET Id]

TypeOK ==
  /\ store \in [Id -> [who : Who, items : BOOLEAN, live : BOOLEAN]]
  /\ index \in [Subject -> SUBSET Id]
  /\ used \in SUBSET Id
  /\ cookie \in MaybeId
  /\ req \in [Request -> Requests]
  /\ sweep \in [Request -> Sweeps]
  /\ exposed \in SUBSET Id
  /\ unindexed \in SUBSET Id

Init ==
  /\ store = [i \in Id |-> Gone]
  /\ index = [s \in Subject |-> {}]
  /\ used = {}
  /\ cookie = NoId
  /\ req = [r \in Request |-> Idle]
  /\ sweep = [r \in Request |-> NoSweep]
  /\ exposed = {}
  /\ unindexed = {}

-----------------------------------------------------------------------------
(***************************************************************************)
(* decide_outcome                                                          *)
(***************************************************************************)

Changed(q) == q.data.who # q.before
Empty(q) == q.data = NoData
IdChanged(q) == q.sid # NoId /\ q.sid # q.loaded

\* Mutant of decide_outcome: a failed response is treated like any other.
DecideDespiteFailure(q, failed) ==
  IF q.revoked THEN "CLEAR_COOKIE"
  ELSE IF IdChanged(q) THEN "COOKIE_ONLY"
  ELSE IF q.modified /\ Empty(q) /\ q.loaded # NoId THEN "SIGN_OUT"
  ELSE IF Changed(q) \/ q.rotated THEN "ROTATE"
  ELSE IF q.modified /\ ~Empty(q) THEN "WRITE"
  ELSE "NOTHING"

\* Mutant of decide_outcome: a rotation only where one was asked for.
DecideOnRequest(q, failed) ==
  IF q.revoked THEN "CLEAR_COOKIE"
  ELSE IF failed /\ (Changed(q) \/ q.rotated) THEN "SUPPRESS"
  ELSE IF IdChanged(q) THEN "COOKIE_ONLY"
  ELSE IF q.modified /\ Empty(q) /\ q.loaded # NoId THEN "SIGN_OUT"
  ELSE IF q.rotated THEN "ROTATE"
  ELSE IF q.modified /\ ~Empty(q) THEN "WRITE"
  ELSE "NOTHING"

\* Mutant of decide_outcome: the rotation is tested before the identifier.
DecideRotatesAgain(q, failed) ==
  IF q.revoked THEN "CLEAR_COOKIE"
  ELSE IF failed /\ (Changed(q) \/ q.rotated) THEN "SUPPRESS"
  ELSE IF q.modified /\ Empty(q) /\ q.loaded # NoId THEN "SIGN_OUT"
  ELSE IF Changed(q) \/ q.rotated THEN "ROTATE"
  ELSE IF IdChanged(q) THEN "COOKIE_ONLY"
  ELSE IF q.modified /\ ~Empty(q) THEN "WRITE"
  ELSE "NOTHING"

\* Mutant of decide_outcome: an emptied session is only forgotten by the browser.
DecideClearsOnly(q, failed) ==
  IF q.revoked \/ (q.modified /\ Empty(q) /\ q.loaded # NoId) THEN "CLEAR_COOKIE"
  ELSE IF failed /\ (Changed(q) \/ q.rotated) THEN "SUPPRESS"
  ELSE IF IdChanged(q) THEN "COOKIE_ONLY"
  ELSE IF Changed(q) \/ q.rotated THEN "ROTATE"
  ELSE IF q.modified /\ ~Empty(q) THEN "WRITE"
  ELSE "NOTHING"

\* The order of the tests is the middleware's correctness.
decide_outcome(q, failed) ==
  IF q.revoked THEN "CLEAR_COOKIE"
  ELSE IF failed /\ (Changed(q) \/ q.rotated) THEN "SUPPRESS"
  ELSE IF IdChanged(q) THEN "COOKIE_ONLY"
  ELSE IF q.modified /\ Empty(q) /\ q.loaded # NoId THEN "SIGN_OUT"
  ELSE IF Changed(q) \/ q.rotated THEN "ROTATE"
  ELSE IF ~q.accessed THEN "NOTHING"
  ELSE IF (q.modified \/ AlwaysSave) /\ ~Empty(q) THEN "WRITE"
  ELSE IF ~RefreshOnLoad /\ q.loaded # NoId THEN "TOUCH"
  ELSE "NOTHING"

-----------------------------------------------------------------------------
(***************************************************************************)
(* Store operations: the worlds each may leave behind.  A world is what    *)
(* the store holds, the request's view of its session, and whether the     *)
(* operation returned (ok) or raised.                                      *)
(***************************************************************************)

Now == [store |-> store, index |-> index, used |-> used, unindexed |-> unindexed]

Raised(w, q) == [w |-> w, q |-> q, ok |-> FALSE]
Done(w, q) == [w |-> w, q |-> q, ok |-> TRUE]

Deleted(w, i) == [w EXCEPT !.store[i] = Gone]
Dropped(w, s, i) == IF s = NoSubject THEN w ELSE [w EXCEPT !.index[s] = @ \ {i}]

\* index: the entry is added, and is known again if it had been lost; or the
\* operation raises, having lost the command or only its reply.
Indexing(w, q, s, i) ==
  LET listed == [w EXCEPT !.index[s] = @ \cup {i}, !.unindexed = @ \ {i}] IN
  IF s = NoSubject THEN {Done(w, q)}
  ELSE {Done(listed, q), Raised(listed, q), Raised([w EXCEPT !.unindexed = @ \cup {i}], q)}

\* SessionStore.delete followed by _index_drop, for the session in hand; each
\* command may be lost, or only its reply.
Ending(q) ==
  LET gone == Deleted(Now, q.sid)
      ended == Dropped(gone, q.subject, q.sid)
  IN IF q.sid = NoId THEN {Done(Now, q)}
     ELSE {Raised(Now, q), Raised(gone, q), Raised(ended, q), Done(ended, q)}

\* create of a drawn identifier: nothing is written, or a record that nobody
\* was told of, or all of it.
Creating(w, q, i) ==
  LET drawn == [w EXCEPT !.used = @ \cup {i}]
      written == [drawn EXCEPT !.store[i] = Stored(q.data)]
  IN {Raised(drawn, q), Raised(written, q), Done(written, [q EXCEPT !.sid = i])}

\* SessionStore.rotate up to its create, then the rest of it with subject s.
Rotating(q) ==
  {o \in Ending(q) : ~o.ok} \cup
  UNION {Creating(o.w, q, i) : o \in {e \in Ending(q) : e.ok}, i \in Id \ used}

\* Mutant of Rotated: the new session is not indexed.
RotatedUnindexed(q, s) ==
  LET adopt(p) == [p EXCEPT !.rotated = FALSE, !.revoked = FALSE, !.subject = s]
  IN {IF o.ok THEN Done(o.w, adopt(o.q)) ELSE o : o \in Rotating(q)}

Rotated(q, s) ==
  LET adopt(p) == [p EXCEPT !.rotated = FALSE, !.revoked = FALSE, !.subject = s]
      created == {o \in Rotating(q) : o.ok}
  IN {o \in Rotating(q) : ~o.ok} \cup
     UNION {Indexing(o.w, adopt(o.q), s, o.q.sid) : o \in created}

\* SessionStore.revoke: the payload is cleared through the Session.
Revoked(q) ==
  LET over(p) == [p EXCEPT !.data = NoData, !.accessed = TRUE, !.modified = TRUE,
                           !.sid = NoId, !.subject = NoSubject,
                           !.revoked = TRUE, !.rotated = FALSE]
  IN {IF o.ok THEN Done(o.w, over(o.q)) ELSE o : o \in Ending(q)}

\* Mutant of Written: the entry is re-asserted under the subject loaded.
WrittenUnderLoaded(q) ==
  LET saved == [Now EXCEPT !.store[q.sid] = IF @.live THEN Stored(q.data) ELSE @]
      stored == IF q.sid = NoId THEN UNION {Creating(Now, q, i) : i \in Id \ used}
                ELSE {Done(saved, q)}
  IN UNION {Indexing(o.w, o.q, q.subject, o.q.sid) : o \in {e \in stored : e.ok}}

\* Mutant of Written: a session without an identifier is saved like any other.
WrittenWithoutCreate(q) ==
  IF q.sid = NoId THEN Indexing(Now, q, q.data.who, q.sid)
  ELSE Indexing([Now EXCEPT !.store[q.sid] = IF @.live THEN Stored(q.data) ELSE @],
                [q EXCEPT !.subject = q.data.who], q.data.who, q.sid)

\* SessionMiddleware._write: create or save, then index under the subject the
\* payload has now.  A save reaches a live record only.
Written(q) ==
  LET saved == [Now EXCEPT !.store[q.sid] = IF @.live THEN Stored(q.data) ELSE @]
      stored == IF q.sid = NoId THEN UNION {Creating(Now, q, i) : i \in Id \ used}
                ELSE {Raised(Now, q), Raised(saved, q), Done(saved, q)}
      indexed(o) == Indexing(o.w, [o.q EXCEPT !.subject = q.data.who], q.data.who, o.q.sid)
  IN {o \in stored : ~o.ok} \cup UNION {indexed(o) : o \in {e \in stored : e.ok}}

-----------------------------------------------------------------------------
(***************************************************************************)
(* Before the application                                                  *)
(***************************************************************************)

\* _load.  The read may fail and the request go on without a session
\* (fail-open); the identifier is then kept for a sign-out only.
Arrive(r) ==
  /\ req[r].pc = "idle"
  /\ \/ /\ cookie = NoId
        /\ req' = [req EXCEPT ![r] = [Idle EXCEPT !.pc = "handler"]]
     \/ /\ cookie # NoId /\ Live(cookie)
        /\ LET d == [who |-> store[cookie].who, items |-> store[cookie].items] IN
           req' = [req EXCEPT ![r] =
                     [Idle EXCEPT !.pc = "handler", !.data = d, !.before = d.who,
                                  !.loaded = cookie, !.sid = cookie, !.subject = d.who]]
     \/ /\ cookie # NoId
        /\ ~Live(cookie) \/ "outage" \in Ops
        /\ req' = [req EXCEPT ![r] = [Idle EXCEPT !.pc = "handler", !.unloaded = cookie]]
  /\ UNCHANGED <<store, index, used, cookie, sweep, exposed, unindexed>>

-----------------------------------------------------------------------------
(***************************************************************************)
(* The application                                                         *)
(***************************************************************************)

\* A handler may use its session a bounded number of times.
May(r, op) ==
  req[r].pc = "handler" /\ sweep[r].at = "none" /\ op \in Ops /\ req[r].ops < MaxOps

Edit(r, d) ==
  /\ req' = [req EXCEPT ![r].data = d, ![r].accessed = TRUE, ![r].modified = TRUE,
                        ![r].ops = @ + 1]
  /\ UNCHANGED <<store, index, used, cookie, sweep, exposed, unindexed>>

Read(r) ==
  /\ May(r, "read")
  /\ req' = [req EXCEPT ![r].accessed = TRUE, ![r].ops = @ + 1]
  /\ UNCHANGED <<store, index, used, cookie, sweep, exposed, unindexed>>

Put(r) == May(r, "put") /\ Edit(r, [req[r].data EXCEPT !.items = TRUE])

\* session["user_id"] = s, or its removal (NoSubject).
SetPrincipal(r, s) == May(r, "principal") /\ Edit(r, [req[r].data EXCEPT !.who = s])

Clear(r) == May(r, "clear") /\ Edit(r, NoData)

Reauthenticate(r) ==
  /\ May(r, "reauthenticate")
  /\ req' = [req EXCEPT ![r].rotated = TRUE, ![r].ops = @ + 1]
  /\ UNCHANGED <<store, index, used, cookie, sweep, exposed, unindexed>>

\* What a world leaves in the variables.
Becomes(w) ==
  /\ store' = w.store
  /\ index' = w.index
  /\ used' = w.used
  /\ unindexed' = w.unindexed

\* store.rotate(state) with the subject omitted.  The application may go on
\* after an error it caught, or answer 500.
HandlerRotate(r) ==
  /\ May(r, "rotate")
  /\ \E o \in Rotated([req[r] EXCEPT !.returned = NoId], req[r].subject) :
       /\ Becomes(o.w)
       /\ req' = [req EXCEPT ![r] =
                    [o.q EXCEPT !.ops = @ + 1,
                                !.returned = IF o.ok THEN o.q.sid ELSE NoId]]
  /\ UNCHANGED <<cookie, sweep, exposed>>

HandlerRevoke(r) ==
  /\ May(r, "revoke")
  /\ \E o \in Revoked(req[r]) :
       /\ Becomes(o.w)
       /\ req' = [req EXCEPT ![r] = [o.q EXCEPT !.ops = @ + 1, !.returned = NoId]]
  /\ UNCHANGED <<cookie, sweep, exposed>>

\* store.revoke_all(s): its three round trips, with steps of other requests
\* between them.  Each may raise, and leave the handler to go on.
\* First HGETALL.  An empty index ends the call.
RevokeAllRead(r, s) ==
  /\ May(r, "revoke_all")
  /\ req' = [req EXCEPT ![r].ops = @ + 1]
  /\ \/ index[s] # {} /\ sweep' = [sweep EXCEPT ![r] = [at |-> "read", of |-> s,
                                                       members |-> index[s]]]
     \/ UNCHANGED sweep
  /\ UNCHANGED <<store, index, used, cookie, exposed, unindexed>>

\* _delete_many: one pipeline of DELs, cut short anywhere when it raises.
RevokeAllDelete(r) ==
  /\ sweep[r].at = "read"
  /\ \E ended \in SUBSET sweep[r].members :
       /\ store' = [i \in Id |-> IF i \in ended THEN Gone ELSE store[i]]
       /\ \/ ended = sweep[r].members /\ sweep' = [sweep EXCEPT ![r].at = "deleted"]
          \/ sweep' = [sweep EXCEPT ![r] = NoSweep]
  /\ UNCHANGED <<index, used, cookie, req, exposed, unindexed>>

\* _index_clear: DEL of the whole index, which may raise before or after.
RevokeAllClear(r) ==
  /\ sweep[r].at = "deleted"
  /\ sweep' = [sweep EXCEPT ![r] = NoSweep]
  /\ \/ /\ index' = [index EXCEPT ![sweep[r].of] = {}]
        /\ unindexed' = unindexed \cup (index[sweep[r].of] \ sweep[r].members)
     \/ UNCHANGED <<index, unindexed>>
  /\ UNCHANGED <<store, used, cookie, req, exposed>>

-----------------------------------------------------------------------------
(***************************************************************************)
(* _on_response_start                                                      *)
(***************************************************************************)

\* The response is on its way; what no later step reads is dropped.
Send(r, q, reply) ==
  /\ req' = [req EXCEPT ![r] = [q EXCEPT !.pc = "sent", !.reply = reply, !.ops = 0,
                                         !.accessed = FALSE, !.subject = NoSubject,
                                         !.rotated = FALSE, !.revoked = FALSE]]
  /\ exposed' = exposed \cup (IF reply.kind = "names" THEN {reply.id} ELSE {})
  /\ UNCHANGED <<cookie, sweep>>

\* A store error in the second half replaces the response by a bare 500.
SendResult(r, o, reply) ==
  Becomes(o.w) /\ Send(r, o.q, IF o.ok THEN reply ELSE Bare(TRUE))

\* A sign-out on a cookie whose record did not load.
Forgets(q) ==
  /\ q.unloaded # NoId /\ q.sid = NoId
  /\ q.revoked \/ (q.modified /\ Empty(q))

Forget(r, failed) ==
  /\ Forgets(req[r])
  /\ \/ Becomes(Deleted(Now, req[r].unloaded)) /\ Send(r, req[r], Clears(failed, TRUE))
     \/ Becomes(Now) /\ Send(r, req[r], Clears(failed, FALSE))

Respond(r, failed) ==
  LET q == req[r]
      outcome == decide_outcome(q, failed)
  IN
  /\ q.pc = "handler" /\ sweep[r].at = "none"
  /\ \/ Forget(r, failed)
     \/ /\ ~Forgets(q)
        /\ \/ /\ outcome \in {"NOTHING", "SUPPRESS", "TOUCH"}
              /\ Becomes(Now)
              /\ Send(r, q, Bare(failed)) \/ (outcome = "TOUCH" /\ Send(r, q, Bare(TRUE)))
           \/ /\ outcome = "CLEAR_COOKIE"
              /\ Becomes(Now)
              /\ Send(r, q, Clears(failed, TRUE))
           \/ /\ outcome = "SIGN_OUT"
              /\ \E o \in Revoked(q) : SendResult(r, o, Clears(failed, TRUE))
           \/ /\ outcome = "COOKIE_ONLY"
              /\ \E o \in IF q.modified THEN Written(q) ELSE {Done(Now, q)} :
                   SendResult(r, o, Names(o.q.sid, failed))
           \/ /\ outcome = "ROTATE"
              /\ \E o \in Rotated(q, q.data.who) :
                   SendResult(r, o, Names(o.q.sid, failed))
           \/ /\ outcome = "WRITE"
              /\ \E o \in Written(q) : SendResult(r, o, Names(o.q.sid, failed))

\* The browser takes the response, in whatever order responses arrive.
Deliver(r) ==
  LET reply == req[r].reply IN
  /\ req[r].pc = "sent"
  /\ cookie' = CASE reply.kind = "names" -> reply.id
                 [] reply.kind = "clears" -> NoId
                 [] OTHER -> cookie
  /\ req' = [req EXCEPT ![r] = Idle]
  /\ UNCHANGED <<store, index, used, sweep, exposed, unindexed>>

\* The client is gone, before the response or with it, or the server stopped
\* the handler.
Disconnect(r) ==
  /\ req[r].pc # "idle"
  /\ req' = [req EXCEPT ![r] = Idle]
  /\ sweep' = [sweep EXCEPT ![r] = NoSweep]
  /\ UNCHANGED <<store, index, used, cookie, exposed, unindexed>>

\* A clock of the record runs out.
Expire(i) ==
  /\ Live(i)
  /\ store' = [store EXCEPT ![i] = Gone]
  /\ UNCHANGED <<index, used, cookie, req, sweep, exposed, unindexed>>

Next ==
  \/ \E r \in Request :
       \/ Arrive(r)
       \/ Read(r) \/ Put(r) \/ Clear(r) \/ Reauthenticate(r)
       \/ \E s \in Who : SetPrincipal(r, s)
       \/ HandlerRotate(r) \/ HandlerRevoke(r)
       \/ \E s \in Subject : RevokeAllRead(r, s)
       \/ RevokeAllDelete(r) \/ RevokeAllClear(r)
       \/ \E failed \in BOOLEAN : Respond(r, failed)
       \/ Deliver(r) \/ Disconnect(r)
  \/ \E i \in Id : Expire(i)

Spec == Init /\ [][Next]_vars

-----------------------------------------------------------------------------
(***************************************************************************)
(* Properties                                                              *)
(***************************************************************************)

\* Session fixation: an identifier that a response has ever named never comes
\* to carry another principal, whatever handlers do and however their
\* requests overlap (the comment on SUPPRESS in decide_outcome).
PrincipalFixed ==
  [][\A i \in exposed : Live(i) /\ Live(i)' => store'[i].who = store[i].who]_vars

\* A response the client saw fail hands out no identity but the one the
\* request came with.
FailedRepliesGrantNothing ==
  \A r \in Request :
     LET q == req[r] IN
     q.pc = "sent" /\ q.reply.failed /\ q.reply.kind = "names" /\ Live(q.reply.id) =>
       store[q.reply.id].who = q.before

\* Signing out works: once a response clears the cookie, the record the
\* request came with is gone for good, even if other requests still hold its
\* identifier and write it, and even if it could not be loaded.  One case
\* claims nothing: the best-effort delete of _forget, for a record that did not
\* load, failed and was only logged (reply.forgot is FALSE).
SignOutEnds ==
  \A r \in Request :
     LET q == req[r] IN
     q.pc = "sent" /\ q.reply.kind = "clears" /\ q.reply.forgot =>
       \A i \in Id \cap {q.loaded, q.unloaded, q.sid} : ~Live(i)

\* An identifier that rotate has returned to the handler is the one the
\* response names: the middleware does not rotate again.
RotatedOnce ==
  \A r \in Request :
     LET q == req[r] IN
     q.pc = "sent" /\ q.reply.kind = "names" /\ q.returned # NoId =>
       q.reply.id = q.returned

\* revoke_all can reach every session a browser can hold: a live identifier
\* that a response has named is listed under its principal.  Two entries are
\* known to be missing, until a later write lists them again: the one whose
\* last index command failed, and the one that a revoke_all dropped with the
\* index after it was added behind its read.
ExposedAreIndexed ==
  \A i \in exposed \ unindexed :
     Live(i) /\ store[i].who # NoSubject => i \in index[store[i].who]

\* revoke_id "refuses an ID that is not indexed under it, so a handler taking
\* an ID from a request cannot end a stranger's session": a live session is
\* listed under nobody but its own principal.
ListedUnderOwner ==
  \A s \in Subject, i \in exposed : i \in index[s] /\ Live(i) => store[i].who = s
=============================================================================

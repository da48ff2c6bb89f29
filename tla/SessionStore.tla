---------------------------- MODULE SessionStore ----------------------------
(***************************************************************************)
(* The Redis session store of session_backend.py, at the grain of one      *)
(* Redis command.                                                          *)
(*                                                                         *)
(* A session is one hash key: field "d" (the payload) carries the idle     *)
(* clock, the key carries the absolute deadline.  A subject's sessions are *)
(* listed in a second hash whose fields expire one by one.  Redis counts   *)
(* every clock down; the code never compares a timestamp.  The model does  *)
(* the same: an expiry is the number of ticks left, as TTL and HTTL answer *)
(* it, and Tick is the server's clock.                                     *)
(*                                                                         *)
(* Task is a request (with the SessionState its middleware owns) running   *)
(* store operations one after the other.  Every operation is the sequence  *)
(* of commands the code sends; the commands of concurrent tasks interleave *)
(* freely because no operation is transactional (pipeline(transaction =    *)
(* False)).  Between two commands a task may fail (the exception reaches   *)
(* its caller, which keeps the request going with the state it had) or     *)
(* disappear (cancelled, or its process died).                             *)
(***************************************************************************)
EXTENDS Integers

CONSTANTS Id,          \* identifiers new_id may return, each at most once
          NoId,        \* None, for an identifier
          Subject,     \* what sessions are indexed under
          NoSubject,   \* None, for a subject
          Task,        \* concurrent requests
          IdleTTL,     \* SessionStore.idle_seconds, in ticks
          AbsoluteTTL, \* SessionStore.absolute_seconds, in ticks
          HasHsetex,   \* what _has_hsetex may answer: {TRUE} Redis 8, {FALSE}
                       \* Redis 7.4, both a Redis 8 whose probe may fail
          LazyFields,  \* TRUE: Redis may keep a hash whose field has lapsed
          Ops          \* the operations requests use in this instance

ASSUME IdsAssumption == NoId \notin Id
ASSUME SubjectsAssumption == NoSubject \notin Subject
ASSUME ClocksAssumption ==
  /\ IdleTTL \in Nat \ {0}
  /\ AbsoluteTTL \in Nat \ {0}
ASSUME ServerAssumption ==
  /\ HasHsetex \in (SUBSET BOOLEAN) \ {{}}
  /\ LazyFields \in BOOLEAN

VARIABLES rec,      \* rec[i]: the session key of i
          index,    \* index[s][i]: the expiry of entry i in the index of s
          used,     \* identifiers new_id has returned
          handed,   \* identifiers a request has adopted: a cookie may name them
          pc,       \* pc[t]: the next step of task t
          state,    \* state[t]: its SessionState
          call,     \* call[t]: the locals of the operation it is running
          born,     \* history: identifiers whose create set a deadline
          parent,   \* history: the identifier a rotation replaced
          indexed,  \* history: identifiers whose index step completed
          swept     \* history: entries cleared without having been read

redisVars == <<rec, index>>
historyVars == <<born, parent, indexed, swept>>
vars == <<rec, index, used, handed, pc, state, call, born, parent, indexed, swept>>

-----------------------------------------------------------------------------
(***************************************************************************)
(* Redis                                                                   *)
(***************************************************************************)

\* Redis's own TTL and HTTL answers for "no such key" and "no expiry".
Absent == -2
NoTTL == -1

Who == Subject \cup {NoSubject}
MaybeId == Id \cup {NoId}

\* who: the subject in the payload; idle: expiry of field "d", 0 once it has
\* lapsed in a hash not yet reaped; ttl: expiry of the key.
Key == [who : Who, idle : Absent..IdleTTL, ttl : Absent..AbsoluteTTL]
NoKey == [who |-> NoSubject, idle |-> Absent, ttl |-> Absent]

KeySeen(i) == rec[i].idle # Absent
FieldSeen(i) == rec[i].idle = NoTTL \/ rec[i].idle > 0

\* The key is there and its absolute deadline is running.
Open(i) == rec[i].ttl > 0

\* The rule of load_with_status: payload present and time left on the key.
Live(i) == FieldSeen(i) /\ rec[i].ttl > 0

\* The rule of _alive: HTTL and TTL both positive.
AliveReply(i) == rec[i].idle > 0 /\ rec[i].ttl > 0


\* HSETEX, or HSET (which clears the field's expiry): the field is written,
\* the key keeps its own expiry, and a missing key is created without one.
WriteField(i, who, modern) ==
  [rec EXCEPT ![i] =
     [who |-> who,
      idle |-> IF modern THEN IdleTTL ELSE NoTTL,
      ttl |-> IF KeySeen(i) THEN rec[i].ttl ELSE NoTTL]]

\* HEXPIRE, or the EX of HGETEX: nothing happens to a missing field.
ExpireField(i) ==
  IF FieldSeen(i) THEN [rec EXCEPT ![i].idle = IdleTTL] ELSE rec

\* EXPIRE: nothing happens to a missing key.
ExpireKey(i) ==
  IF KeySeen(i) THEN [rec EXCEPT ![i].ttl = AbsoluteTTL] ELSE rec

DelKey(i) == [rec EXCEPT ![i] = NoKey]

HDel(s, i) == [index EXCEPT ![s][i] = Absent]

Members(s) == {i \in Id : index[s][i] # Absent}

\* One tick of the server's clock, for a key and for an index entry.
CountDown(n) == IF n > 0 THEN n - 1 ELSE n
AgedKey(r) ==
  IF r.ttl = 1 \/ (r.idle = 1 /\ ~LazyFields) THEN NoKey
  ELSE [r EXCEPT !.idle = CountDown(@), !.ttl = CountDown(@)]
AgedEntry(n) == IF n = 1 THEN Absent ELSE CountDown(n)

-----------------------------------------------------------------------------
(***************************************************************************)
(* Tasks                                                                   *)
(***************************************************************************)

PcOf ==
  {"idle", "ready",
   "loadExpire", "loadTtl", "tidy",
   "saveExpire", "index", "indexExpire",
   "create", "createExpire", "createDeadline", "adopt",
   "rotateDrop", "revokeDrop", "revoked",
   "killKey", "killDrop", "killMany", "clear",
   "verify", "prune"}

\* SessionState: session_id, subject and absolute_remaining.
State == [sid : MaybeId, subject : Who, left : 0..AbsoluteTTL]
NoState == [sid |-> NoId, subject |-> NoSubject, left |-> 0]

Call == [id : MaybeId, arg : Who, raw : BOOLEAN, old : MaybeId, new : MaybeId,
         members : SUBSET Id, todo : SUBSET Id]
NoCall == [id |-> NoId, arg |-> NoSubject, raw |-> FALSE, old |-> NoId,
           new |-> NoId, members |-> {}, todo |-> {}]

Goto(t, label) == pc' = [pc EXCEPT ![t] = label]
EnterCall(t, c) == call' = [call EXCEPT ![t] = c]

\* The operation returns, or raises: its locals are gone.
Return(t) == Goto(t, "ready") /\ EnterCall(t, NoCall)

\* A store operation can be called by a request that runs none.
CanCall(t, op) == pc[t] = "ready" /\ op \in Ops

TypeOK ==
  /\ rec \in [Id -> Key]
  /\ index \in [Subject -> [Id -> Absent..AbsoluteTTL]]
  /\ used \in SUBSET Id
  /\ handed \in SUBSET Id
  /\ pc \in [Task -> PcOf]
  /\ state \in [Task -> State]
  /\ call \in [Task -> Call]
  /\ born \in SUBSET Id
  /\ parent \in [Id -> MaybeId]
  /\ indexed \in SUBSET Id
  /\ swept \in SUBSET Id

Init ==
  /\ rec = [i \in Id |-> NoKey]
  /\ index = [s \in Subject |-> [i \in Id |-> Absent]]
  /\ used = {}
  /\ handed = {}
  /\ pc = [t \in Task |-> "idle"]
  /\ state = [t \in Task |-> NoState]
  /\ call = [t \in Task |-> NoCall]
  /\ born = {}
  /\ parent = [i \in Id |-> NoId]
  /\ indexed = {}
  /\ swept = {}

-----------------------------------------------------------------------------
(***************************************************************************)
(* load_with_status: HGETEX (or HGET [HEXPIRE]) then TTL, one pipeline     *)
(***************************************************************************)

\* A request without a usable cookie, or whose read failed open at once.
Anonymous(t) ==
  /\ pc[t] = "idle"
  /\ Goto(t, "ready")
  /\ UNCHANGED <<redisVars, used, handed, state, call, historyVars>>

\* A cookie names i.  refresh is session_refresh_on_load, modern what
\* _has_hsetex answers (every operation that writes a field asks again).
Load(t, i, refresh, modern) ==
  /\ pc[t] = "idle"
  /\ i \in handed
  /\ EnterCall(t, [NoCall EXCEPT !.id = i, !.raw = FieldSeen(i), !.arg = rec[i].who])
  /\ rec' = IF refresh /\ modern THEN ExpireField(i) ELSE rec
  /\ Goto(t, IF refresh /\ ~modern THEN "loadExpire" ELSE "loadTtl")
  /\ UNCHANGED <<index, used, handed, state, historyVars>>

\* Mutant of LoadExpire: EXPIRE on the key where HEXPIRE on the field is meant.
LoadExpireOnKey(t) ==
  /\ pc[t] = "loadExpire"
  /\ rec' = ExpireKey(call[t].id)
  /\ Goto(t, "loadTtl")
  /\ UNCHANGED <<index, used, handed, state, call, historyVars>>

LoadExpire(t) ==
  /\ pc[t] = "loadExpire"
  /\ rec' = ExpireField(call[t].id)
  /\ Goto(t, "loadTtl")
  /\ UNCHANGED <<index, used, handed, state, call, historyVars>>

\* Mutant of LoadTtl: the payload alone makes a session.
LoadTtlIgnored(t) ==
  LET i == call[t].id IN
  /\ pc[t] = "loadTtl"
  /\ \/ /\ call[t].raw
        /\ state' = [state EXCEPT ![t] =
                       [sid |-> i, subject |-> call[t].arg, left |-> rec[i].ttl]]
     \/ ~call[t].raw /\ UNCHANGED state
  /\ Return(t)
  /\ UNCHANGED <<redisVars, used, handed, historyVars>>

\* Mutant of LoadTtl: a record that cannot be decoded is deleted, not kept.
LoadTtlDeletesUnreadable(t) ==
  LET i == call[t].id IN
  /\ pc[t] = "loadTtl"
  /\ \/ /\ call[t].raw \/ KeySeen(i)
        /\ Goto(t, "tidy")
        /\ UNCHANGED <<state, call>>
     \/ /\ ~call[t].raw /\ ~KeySeen(i)
        /\ Return(t)
        /\ UNCHANGED state
  /\ UNCHANGED <<redisVars, used, handed, historyVars>>

\* The TTL reply decides: alive when the payload was there and the key has
\* time left; half dead when anything else was found; absent otherwise.
LoadTtl(t) ==
  LET i == call[t].id IN
  /\ pc[t] = "loadTtl"
  /\ \/ /\ call[t].raw /\ Open(i)
        /\ state' = [state EXCEPT ![t] =
                       [sid |-> i, subject |-> call[t].arg, left |-> rec[i].ttl]]
        /\ Return(t)
     \/ /\ ~(call[t].raw /\ Open(i))
        /\ call[t].raw \/ KeySeen(i)
        /\ Goto(t, "tidy")
        /\ UNCHANGED <<state, call>>
     \/ /\ ~call[t].raw /\ ~KeySeen(i)
        /\ Return(t)
        /\ UNCHANGED state
  /\ UNCHANGED <<redisVars, used, handed, historyVars>>

\* _safe_delete of a half-dead key.
Tidy(t) ==
  /\ pc[t] = "tidy"
  /\ rec' = DelKey(call[t].id)
  /\ Return(t)
  /\ UNCHANGED <<index, used, handed, state, historyVars>>

-----------------------------------------------------------------------------
(***************************************************************************)
(* create, save, touch and index                                           *)
(***************************************************************************)

\* The first write of a session that is not stored, under subject s.
Create(t, s) ==
  /\ CanCall(t, "create")
  /\ state[t].sid = NoId
  /\ EnterCall(t, [NoCall EXCEPT !.arg = s])
  /\ Goto(t, "create")
  /\ UNCHANGED <<redisVars, used, handed, state, historyVars>>

\* new_id and the command that writes the payload.
CreateWrite(t) ==
  /\ pc[t] = "create"
  /\ \E i \in Id \ used, modern \in HasHsetex :
       /\ used' = used \cup {i}
       /\ rec' = WriteField(i, call[t].arg, modern)
       /\ parent' = [parent EXCEPT ![i] = call[t].old]
       /\ EnterCall(t, [call[t] EXCEPT !.new = i])
       /\ Goto(t, IF modern THEN "createDeadline" ELSE "createExpire")
  /\ UNCHANGED <<index, handed, state, born, indexed, swept>>

CreateExpire(t) ==
  /\ pc[t] = "createExpire"
  /\ rec' = ExpireField(call[t].new)
  /\ Goto(t, "createDeadline")
  /\ UNCHANGED <<index, used, handed, state, call, historyVars>>

\* EXPIRE: the only command that ever sets a key's deadline.
CreateDeadline(t) ==
  /\ pc[t] = "createDeadline"
  /\ rec' = ExpireKey(call[t].new)
  /\ born' = IF KeySeen(call[t].new) THEN born \cup {call[t].new} ELSE born
  /\ Goto(t, "adopt")
  /\ UNCHANGED <<index, used, handed, state, call, parent, indexed, swept>>

\* The replies arrived: the state takes the new identifier.
Adopt(t) ==
  LET i == call[t].new
      s == call[t].arg
  IN
  /\ pc[t] = "adopt"
  /\ state' = [state EXCEPT ![t] = [sid |-> i, subject |-> s, left |-> AbsoluteTTL]]
  /\ handed' = handed \cup {i}
  /\ \/ /\ s # NoSubject
        /\ EnterCall(t, [NoCall EXCEPT !.id = i, !.arg = s])
        /\ Goto(t, "index")
     \/ /\ s = NoSubject
        /\ Return(t)
  /\ UNCHANGED <<redisVars, used, historyVars>>

\* After the payload of a save: index again if the session has a subject.
AfterSave(t) ==
  \/ /\ state[t].subject # NoSubject
     /\ EnterCall(t, [NoCall EXCEPT !.id = state[t].sid, !.arg = state[t].subject])
     /\ Goto(t, "index")
  \/ /\ state[t].subject = NoSubject
     /\ Return(t)

\* Mutant of Save: an update passes the absolute clock, as a create does.
SaveExtends(t) ==
  /\ CanCall(t, "save")
  /\ state[t].sid # NoId
  /\ rec' = [rec EXCEPT ![state[t].sid] =
               [who |-> state[t].subject, idle |-> IdleTTL, ttl |-> AbsoluteTTL]]
  /\ AfterSave(t)
  /\ UNCHANGED <<index, used, handed, state, historyVars>>

\* save writes field "d" alone, whatever has become of the key.
Save(t) ==
  /\ CanCall(t, "save")
  /\ state[t].sid # NoId
  /\ \E modern \in HasHsetex :
       /\ rec' = WriteField(state[t].sid, state[t].subject, modern)
       /\ \/ modern /\ AfterSave(t)
          \/ ~modern /\ Goto(t, "saveExpire") /\ UNCHANGED call
  /\ UNCHANGED <<index, used, handed, state, historyVars>>

SaveExpire(t) ==
  /\ pc[t] = "saveExpire"
  /\ rec' = ExpireField(state[t].sid)
  /\ AfterSave(t)
  /\ UNCHANGED <<index, used, handed, state, historyVars>>

\* _index_add: HSETEX, or HSET and then HEXPIRE, with the time the state holds.
IndexAdd(t) ==
  LET i == call[t].id
      s == call[t].arg
  IN
  /\ pc[t] = "index"
  /\ \/ /\ TRUE \in HasHsetex
        /\ index' = [index EXCEPT ![s][i] = state[t].left]
        /\ indexed' = indexed \cup {i}
        /\ Return(t)
     \/ /\ FALSE \in HasHsetex
        /\ index' = [index EXCEPT ![s][i] = NoTTL]
        /\ Goto(t, "indexExpire")
        /\ UNCHANGED <<call, indexed>>
  /\ UNCHANGED <<rec, used, handed, state, born, parent, swept>>

IndexExpire(t) ==
  LET i == call[t].id
      s == call[t].arg
  IN
  /\ pc[t] = "indexExpire"
  /\ index' = [index EXCEPT ![s][i] = IF @ = Absent THEN Absent ELSE state[t].left]
  /\ indexed' = indexed \cup {i}
  /\ Return(t)
  /\ UNCHANGED <<rec, used, handed, state, born, parent, swept>>

Touch(t) ==
  /\ CanCall(t, "touch")
  /\ state[t].sid # NoId
  /\ rec' = ExpireField(state[t].sid)
  /\ UNCHANGED <<index, used, handed, pc, state, call, historyVars>>

-----------------------------------------------------------------------------
(***************************************************************************)
(* rotate: the old key and its entry go first, then a create               *)
(***************************************************************************)

\* Mutant of Rotate: the old key is left to its clocks.
RotateKeepsOld(t, s) ==
  /\ CanCall(t, "rotate")
  /\ EnterCall(t, [NoCall EXCEPT !.old = state[t].sid, !.arg = s])
  /\ Goto(t, "create")
  /\ UNCHANGED <<redisVars, used, handed, state, historyVars>>

\* subject omitted: the state's; given: s, NoSubject making it anonymous.
Rotate(t, s) ==
  LET old == state[t].sid IN
  /\ CanCall(t, "rotate")
  /\ EnterCall(t, [NoCall EXCEPT !.old = old, !.arg = s])
  /\ \/ /\ old # NoId
        /\ rec' = DelKey(old)
        /\ Goto(t, IF state[t].subject # NoSubject THEN "rotateDrop" ELSE "create")
     \/ /\ old = NoId
        /\ Goto(t, "create")
        /\ UNCHANGED rec
  /\ UNCHANGED <<index, used, handed, state, historyVars>>

RotateDrop(t) ==
  /\ pc[t] = "rotateDrop"
  /\ index' = HDel(state[t].subject, call[t].old)
  /\ Goto(t, "create")
  /\ UNCHANGED <<rec, used, handed, state, call, historyVars>>

-----------------------------------------------------------------------------
(***************************************************************************)
(* revoke, revoke_id and revoke_all                                        *)
(***************************************************************************)

Revoke(t) ==
  /\ CanCall(t, "revoke")
  /\ state[t].sid # NoId
  /\ rec' = DelKey(state[t].sid)
  /\ Goto(t, IF state[t].subject # NoSubject THEN "revokeDrop" ELSE "revoked")
  /\ UNCHANGED <<index, used, handed, state, call, historyVars>>

RevokeDrop(t) ==
  /\ pc[t] = "revokeDrop"
  /\ index' = HDel(state[t].subject, state[t].sid)
  /\ Goto(t, "revoked")
  /\ UNCHANGED <<rec, used, handed, state, call, historyVars>>

\* data cleared, session_id and subject None.
Revoked(t) ==
  /\ pc[t] = "revoked"
  /\ state' = [state EXCEPT ![t] = NoState]
  /\ Return(t)
  /\ UNCHANGED <<redisVars, used, handed, historyVars>>

\* HGETALL, and a refusal unless i is indexed under s.
RevokeId(t, i, s) ==
  /\ CanCall(t, "revoke_id")
  /\ i \in Members(s)
  /\ EnterCall(t, [NoCall EXCEPT !.id = i, !.arg = s])
  /\ Goto(t, "killKey")
  /\ UNCHANGED <<redisVars, used, handed, state, historyVars>>

KillKey(t) ==
  /\ pc[t] = "killKey"
  /\ rec' = DelKey(call[t].id)
  /\ Goto(t, "killDrop")
  /\ UNCHANGED <<index, used, handed, state, call, historyVars>>

KillDrop(t) ==
  /\ pc[t] = "killDrop"
  /\ index' = HDel(call[t].arg, call[t].id)
  /\ Return(t)
  /\ UNCHANGED <<rec, used, handed, state, historyVars>>

\* HGETALL: the members to end.
RevokeAll(t, s) ==
  /\ CanCall(t, "revoke_all")
  /\ Members(s) # {}
  /\ EnterCall(t, [NoCall EXCEPT !.arg = s, !.members = Members(s), !.todo = Members(s)])
  /\ Goto(t, "killMany")
  /\ UNCHANGED <<redisVars, used, handed, state, historyVars>>

\* One DEL of the pipeline.
KillMany(t) ==
  /\ pc[t] = "killMany"
  /\ \E i \in call[t].todo :
       /\ rec' = DelKey(i)
       /\ EnterCall(t, [call[t] EXCEPT !.todo = @ \ {i}])
       /\ Goto(t, IF call[t].todo = {i} THEN "clear" ELSE "killMany")
  /\ UNCHANGED <<index, used, handed, state, historyVars>>

\* DEL of the whole index, the entries added since HGETALL included.
IndexClear(t) ==
  LET s == call[t].arg IN
  /\ pc[t] = "clear"
  /\ index' = [index EXCEPT ![s] = [i \in Id |-> Absent]]
  /\ swept' = swept \cup (Members(s) \ call[t].members)
  /\ Return(t)
  /\ UNCHANGED <<rec, used, handed, state, born, parent, indexed>>

-----------------------------------------------------------------------------
(***************************************************************************)
(* list_for_subject: read, verify, prune.  count_for_subject with a limit  *)
(* runs the first two and prunes nothing.                                  *)
(***************************************************************************)

List(t, s) ==
  /\ CanCall(t, "list")
  /\ Members(s) # {}
  /\ EnterCall(t, [NoCall EXCEPT !.arg = s, !.todo = Members(s)])
  /\ Goto(t, "verify")
  /\ UNCHANGED <<redisVars, used, handed, state, historyVars>>

\* HTTL and TTL of one candidate; members collects the dead ones.  (Nothing
\* another task does between the two commands can turn their joint answer
\* into "alive" for a session that is not.)
Verify(t) ==
  /\ pc[t] = "verify"
  /\ \E i \in call[t].todo :
       LET dead == call[t].members \cup (IF AliveReply(i) THEN {} ELSE {i})
           todo == call[t].todo \ {i}
       IN
       \/ /\ todo = {} /\ dead = {}
          /\ Return(t)
       \/ /\ todo # {} \/ dead # {}
          /\ EnterCall(t, [call[t] EXCEPT !.todo = todo, !.members = dead])
          /\ Goto(t, IF todo = {} THEN "prune" ELSE "verify")
  /\ UNCHANGED <<redisVars, used, handed, state, historyVars>>

\* HDEL of one dead entry; a failure is logged and the loop goes on.
Prune(t) ==
  /\ pc[t] = "prune"
  /\ \E i \in call[t].members :
       /\ index' \in {HDel(call[t].arg, i), index}
       /\ IF call[t].members = {i} THEN Return(t)
          ELSE /\ EnterCall(t, [call[t] EXCEPT !.members = @ \ {i}])
               /\ Goto(t, "prune")
  /\ UNCHANGED <<rec, used, handed, state, historyVars>>

-----------------------------------------------------------------------------
(***************************************************************************)
(* Failures, the end of a request, and the clock                           *)
(***************************************************************************)

\* Mutant of Fail: a verification that could not be made proves every
\* candidate dead (the empty set for None, see SessionStore._verify).
FailProvesDeath(t) ==
  /\ pc[t] \notin {"idle", "ready"}
  /\ \/ /\ pc[t] = "verify"
        /\ EnterCall(t, [call[t] EXCEPT !.members = @ \cup call[t].todo, !.todo = {}])
        /\ Goto(t, "prune")
     \/ pc[t] # "verify" /\ Return(t)
  /\ UNCHANGED <<redisVars, used, handed, state, historyVars>>

\* The command fails, or its reply is lost: the operation raises (a load
\* fails open), the rest of it is never sent, and the state stays as it is.
Fail(t) ==
  /\ pc[t] \notin {"idle", "ready"}
  /\ Return(t)
  /\ UNCHANGED <<redisVars, used, handed, state, historyVars>>

\* The response went out, the request was cancelled, or its process died.
Leave(t) ==
  /\ pc[t] # "idle"
  /\ Goto(t, "idle")
  /\ EnterCall(t, NoCall)
  /\ state' = [state EXCEPT ![t] = NoState]
  /\ UNCHANGED <<redisVars, used, handed, historyVars>>

Tick ==
  /\ rec' = [i \in Id |-> AgedKey(rec[i])]
  /\ index' = [s \in Subject |-> [i \in Id |-> AgedEntry(index[s][i])]]
  /\ UNCHANGED <<used, handed, pc, state, call, historyVars>>

\* Redis's active expiry removes a hash whose only field has lapsed.
Reap(i) ==
  /\ rec[i].idle = 0
  /\ rec' = DelKey(i)
  /\ UNCHANGED <<index, used, handed, pc, state, call, historyVars>>

Step(t) ==
  \/ Anonymous(t)
  \/ \E i \in Id, refresh \in BOOLEAN, modern \in HasHsetex : Load(t, i, refresh, modern)
  \/ LoadExpire(t) \/ LoadTtl(t) \/ Tidy(t)
  \/ \E s \in Who : Create(t, s)
  \/ CreateWrite(t) \/ CreateExpire(t) \/ CreateDeadline(t) \/ Adopt(t)
  \/ Save(t) \/ SaveExpire(t) \/ IndexAdd(t) \/ IndexExpire(t) \/ Touch(t)
  \/ \E s \in Who : Rotate(t, s)
  \/ RotateDrop(t)
  \/ Revoke(t) \/ RevokeDrop(t) \/ Revoked(t)
  \/ \E i \in Id, s \in Subject : RevokeId(t, i, s)
  \/ KillKey(t) \/ KillDrop(t)
  \/ \E s \in Subject : RevokeAll(t, s)
  \/ KillMany(t) \/ IndexClear(t)
  \/ \E s \in Subject : List(t, s)
  \/ Verify(t) \/ Prune(t)
  \/ Fail(t) \/ Leave(t)

Next ==
  \/ \E t \in Task : Step(t)
  \/ Tick
  \/ \E i \in Id : Reap(i)

Spec == Init /\ [][Next]_vars

\* The server's clock advances and it reaps lapsed hashes; a request ends.
FairSpec ==
  /\ Spec
  /\ WF_vars(Tick)
  /\ \A i \in Id : WF_vars(Reap(i))
  /\ \A t \in Task : WF_vars(Leave(t))

-----------------------------------------------------------------------------
(***************************************************************************)
(* Properties                                                              *)
(***************************************************************************)

\* What an identifier looks like to SessionLifecycle.
Phase(i) == IF Open(i) THEN "open" ELSE IF i \in born THEN "over" ELSE "unborn"
TimeLeft(i) == IF Open(i) THEN rec[i].ttl ELSE 0
Origin(i) == IF i \in born THEN parent[i] ELSE NoId

Life == INSTANCE SessionLifecycle
          WITH Lifetime <- AbsoluteTTL,
               phase <- [i \in Id |-> Phase(i)],
               left <- [i \in Id |-> TimeLeft(i)],
               origin <- [i \in Id |-> Origin(i)]

\* Whatever saves, touches, rotations, failures and deaths of requests
\* interleave, an identifier is issued once, its deadline never moves, and
\* once deleted or past its deadline it never works again: a late save
\* recreates a key that no load accepts (SessionStore.save, "N-6").
ImplementsLifecycle == Life!LifeSpec

\* The rotation rule: an identifier and the one that replaced it never both
\* work, whichever command fails and whoever writes the old one meanwhile.
OneIdPerLine ==
  \A i \in Id : parent[i] # NoId /\ Open(i) => ~Open(parent[i])

\* The inductive invariant of the two properties above.  Targets: each step
\* of an operation knows the identifier it is about.
Targets ==
  \A t \in Task :
    /\ pc[t] \in {"loadExpire", "loadTtl", "tidy", "index", "indexExpire",
                 "killKey", "killDrop"} => call[t].id \in Id
    /\ pc[t] \in {"createExpire", "createDeadline", "adopt"} => call[t].new \in Id
    /\ pc[t] \in {"saveExpire", "revokeDrop", "revoked"} => state[t].sid \in Id

\* Only a create opens a key, and nobody else can know the identifier it is
\* creating: no request holds it and no other create has drawn it.
Creating(t) == pc[t] \in {"createExpire", "createDeadline", "adopt"}
Fresh ==
  /\ born \subseteq used
  /\ handed \subseteq used
  /\ \A i \in Id : Open(i) => i \in born /\ KeySeen(i)
  /\ \A t \in Task : state[t].sid \in handed \cup {NoId}
  /\ \A t \in Task : pc[t] \in {"loadExpire", "loadTtl"} => call[t].id \in handed
  /\ \A t \in Task : Creating(t) => call[t].new \in used \ handed
  /\ \A t \in Task : Creating(t) /\ pc[t] # "adopt" => call[t].new \notin born
  /\ \A t, u \in Task : Creating(t) /\ Creating(u) /\ t # u => call[t].new # call[u].new

\* What a rotation replaces was handed out, and has been closed before the
\* identifier that replaces it exists.
Lines ==
  /\ \A i \in Id : parent[i] # NoId => parent[i] \in handed /\ ~Open(parent[i])
  /\ \A t \in Task : pc[t] \in {"rotateDrop", "create"} /\ call[t].old # NoId =>
                      call[t].old \in handed /\ ~Open(call[t].old)

IInv == TypeOK /\ Targets /\ Fresh /\ Lines

\* The index is an upper bound: a live session whose index step completed is
\* listed under its subject, by an entry that does not expire before it.
\* The one exception is an entry that a revoke_all cleared without having
\* read it.
IndexCovers ==
  \A i \in indexed \ swept, s \in Subject :
     Live(i) /\ rec[i].who = s =>
       index[s][i] = NoTTL \/ index[s][i] >= rec[i].ttl

\* The upper bound without the exception, as list_for_subject and
\* _index_members state it.
IndexIsUpperBound ==
  \A i \in indexed, s \in Subject : Live(i) /\ rec[i].who = s => i \in Members(s)

\* The tidy-up of a load never deletes a session that is still alive.
TidyKillsOnlyDead ==
  \A t \in Task : pc[t] = "tidy" => ~Live(call[t].id)

\* When revoke_all drops the index, none of the identifiers it had read works,
\* whatever the requests that hold them still write.  (What a rotation has put
\* in the place of one of them may.)
RevokeAllEndsIds ==
  \A t \in Task :
     pc[t] = "clear" => \A i \in call[t].members : ~Live(i)

\* However often it is written, an open session ends.
SessionsEnd == \A i \in Id : Open(i) ~> ~Open(i)

=============================================================================

------------------------- MODULE SessionStoreProofs -------------------------
(***************************************************************************)
(* Proofs about SessionStore, for every set of identifiers, subjects and   *)
(* tasks, every idle and absolute clock, both command sets and any subset  *)
(* of the operations.                                                      *)
(***************************************************************************)
EXTENDS SessionStore, TLAPS

-----------------------------------------------------------------------------
(***************************************************************************)
(* What the Redis commands return                                          *)
(***************************************************************************)

\* Every command on a session key leaves a well-formed keyspace (a command
\* that names no identifier changes nothing).
LEMMA KeyCommands ==
  ASSUME TypeOK, NEW i \in MaybeId, NEW s \in Who, NEW modern \in BOOLEAN
  PROVE  /\ WriteField(i, s, modern) \in [Id -> Key]
         /\ ExpireField(i) \in [Id -> Key]
         /\ ExpireKey(i) \in [Id -> Key]
         /\ DelKey(i) \in [Id -> Key]
<1> USE ClocksAssumption DEF Key, Absent, NoTTL
<1>1. rec \in [Id -> Key]
  BY DEF TypeOK
<1>2. NoKey \in Key
  BY DEF NoKey, Who
<1>3. CASE i \notin Id
  BY <1>1, <1>3 DEF WriteField, ExpireField, ExpireKey, DelKey
<1>4. CASE i \in Id
  <2>1. [who |-> s,
         idle |-> IF modern THEN IdleTTL ELSE NoTTL,
         ttl |-> IF KeySeen(i) THEN rec[i].ttl ELSE NoTTL] \in Key
    BY <1>1, <1>4
  <2>2. [rec[i] EXCEPT !.idle = IdleTTL] \in Key
    BY <1>1, <1>4
  <2>3. [rec[i] EXCEPT !.ttl = AbsoluteTTL] \in Key
    BY <1>1, <1>4
  <2>. QED
    BY <1>1, <1>2, <2>1, <2>2, <2>3, <1>4 DEF WriteField, ExpireField, ExpireKey, DelKey
<1>. QED
  BY <1>3, <1>4

\* Every command on an index leaves a well-formed index.
LEMMA IndexCommands ==
  ASSUME TypeOK, NEW i \in MaybeId, NEW s \in Who
  PROVE  /\ HDel(s, i) \in [Subject -> [Id -> Absent..AbsoluteTTL]]
         /\ \A n \in Absent..AbsoluteTTL :
              [index EXCEPT ![s][i] = n] \in [Subject -> [Id -> Absent..AbsoluteTTL]]
<1>1. Absent \in Absent..AbsoluteTTL
  BY ClocksAssumption DEF Absent
<1>. QED
  BY <1>1 DEF TypeOK, HDel

\* The two program points of an operation that write an expiry other than the
\* time left.
LEMMA Expiries ==
  /\ Absent \in Absent..AbsoluteTTL
  /\ NoTTL \in Absent..AbsoluteTTL
  /\ 0..AbsoluteTTL \subseteq Absent..AbsoluteTTL
BY ClocksAssumption DEF Absent, NoTTL

\* A tick keeps a key well-formed.
LEMMA AgedKeyType ==
  ASSUME NEW r \in Key
  PROVE  AgedKey(r) \in Key
<1> USE ClocksAssumption DEF Key, Absent
<1>1. CountDown(r.idle) \in Absent..IdleTTL /\ CountDown(r.ttl) \in Absent..AbsoluteTTL
  BY DEF CountDown
<1>2. [r EXCEPT !.idle = CountDown(@), !.ttl = CountDown(@)] \in Key
  BY <1>1
<1>3. NoKey \in Key
  BY DEF NoKey, Who
<1>. QED
  BY <1>2, <1>3 DEF AgedKey

\* A tick keeps an index entry well-formed.
LEMMA AgedEntryType ==
  ASSUME NEW n \in Absent..AbsoluteTTL
  PROVE  AgedEntry(n) \in Absent..AbsoluteTTL
BY ClocksAssumption DEF AgedEntry, CountDown, Absent

-----------------------------------------------------------------------------
(***************************************************************************)
(* Type correctness                                                        *)
(***************************************************************************)

\* The empty store, before any command has run, is well-typed.
LEMMA TypeInit == Init => TypeOK
BY ClocksAssumption DEF Init, TypeOK, Key, NoKey, Who, MaybeId, PcOf, State, NoState,
   Call, NoCall, Absent


\* The locals an operation starts with.
LEMMA FreshCalls ==
  ASSUME NEW i \in MaybeId, NEW s \in Who, NEW r \in BOOLEAN, NEW M \in SUBSET Id
  PROVE  /\ NoCall \in Call
         /\ [NoCall EXCEPT !.id = i, !.raw = r, !.arg = s] \in Call
         /\ [NoCall EXCEPT !.arg = s] \in Call
         /\ [NoCall EXCEPT !.id = i, !.arg = s] \in Call
         /\ [NoCall EXCEPT !.old = i, !.arg = s] \in Call
         /\ [NoCall EXCEPT !.arg = s, !.members = M, !.todo = M] \in Call
         /\ [NoCall EXCEPT !.arg = s, !.todo = M] \in Call
BY DEF Call, NoCall, Who, MaybeId

\* The locals an operation updates as it goes.
LEMMA UpdatedCalls ==
  ASSUME NEW c \in Call, NEW i \in MaybeId, NEW M \in SUBSET Id, NEW N \in SUBSET Id
  PROVE  /\ [c EXCEPT !.new = i] \in Call
         /\ [c EXCEPT !.todo = M] \in Call
         /\ [c EXCEPT !.members = M] \in Call
         /\ [c EXCEPT !.todo = M, !.members = N] \in Call
BY DEF Call

\* The types of a task's variables, one by one.
LEMMA TaskTypes ==
  ASSUME TypeOK, NEW t \in Task
  PROVE  /\ call[t].id \in MaybeId /\ call[t].new \in MaybeId /\ call[t].old \in MaybeId
         /\ call[t].arg \in Who
         /\ call[t].members \in SUBSET Id /\ call[t].todo \in SUBSET Id
         /\ state[t].sid \in MaybeId /\ state[t].subject \in Who
         /\ state[t].left \in 0..AbsoluteTTL
         /\ call[t] \in Call /\ state[t] \in State
BY DEF TypeOK, Call, State

\* Which of a task's variables a step wrote, and with what.
LEMMA LocalTypes ==
  ASSUME TypeOK, NEW t \in Task
  PROVE  /\ \A l \in PcOf : Goto(t, l) => pc' \in [Task -> PcOf]
         /\ \A c \in Call : EnterCall(t, c) => call' \in [Task -> Call]
         /\ Return(t) => pc' \in [Task -> PcOf] /\ call' \in [Task -> Call]
<1>1. NoCall \in Call /\ "ready" \in PcOf
  BY DEF NoCall, Call, MaybeId, Who, PcOf
<1>. QED
  BY <1>1 DEF TypeOK, Goto, EnterCall, Return

\* One step of one task keeps every variable well-typed.
LEMMA TypeOfStep ==
  ASSUME TypeOK, Targets, NEW t \in Task, Step(t)
  PROVE  TypeOK'
<1> USE TaskTypes, LocalTypes
<1>0. FALSE \in BOOLEAN /\ NoSubject \in Who /\ NoId \in MaybeId /\ {} \in SUBSET Id
  BY DEF Who, MaybeId
<1>1. CASE Anonymous(t)
  <2>1. rec' \in [Id -> Key]
    BY <1>0, <1>1 DEF Anonymous, redisVars, historyVars, TypeOK
  <2>2. index' \in [Subject -> [Id -> Absent..AbsoluteTTL]]
    BY <1>0, <1>1 DEF Anonymous, redisVars, historyVars, TypeOK
  <2>3. pc' \in [Task -> PcOf] /\ call' \in [Task -> Call]
    BY <1>0, <1>1 DEF Anonymous, redisVars, historyVars, TypeOK, PcOf, CanCall
  <2>4. state' \in [Task -> State]
    BY <1>0, <1>1 DEF Anonymous, redisVars, historyVars, TypeOK
  <2>5. used' \in SUBSET Id /\ handed' \in SUBSET Id /\ born' \in SUBSET Id
      /\ parent' \in [Id -> MaybeId] /\ indexed' \in SUBSET Id /\ swept' \in SUBSET Id
    BY <1>0, <1>1 DEF Anonymous, redisVars, historyVars, TypeOK
  <2>. QED
    BY <2>1, <2>2, <2>3, <2>4, <2>5 DEF TypeOK
<1>2. ASSUME NEW i \in Id, NEW refresh \in BOOLEAN, NEW modern \in HasHsetex,
             Load(t, i, refresh, modern)
      PROVE  TypeOK'
  <2>1. rec' \in [Id -> Key]
    BY <1>0, <1>2, KeyCommands DEF Load, redisVars, historyVars, TypeOK, MaybeId
  <2>2. index' \in [Subject -> [Id -> Absent..AbsoluteTTL]]
    BY <1>0, <1>2 DEF Load, redisVars, historyVars, TypeOK
  <2>3. pc' \in [Task -> PcOf] /\ call' \in [Task -> Call]
    BY <1>0, <1>2, FreshCalls DEF Load, redisVars, historyVars, TypeOK, PcOf, CanCall, FieldSeen, MaybeId, Key
  <2>4. state' \in [Task -> State]
    BY <1>0, <1>2 DEF Load, redisVars, historyVars, TypeOK
  <2>5. used' \in SUBSET Id /\ handed' \in SUBSET Id /\ born' \in SUBSET Id
      /\ parent' \in [Id -> MaybeId] /\ indexed' \in SUBSET Id /\ swept' \in SUBSET Id
    BY <1>0, <1>2 DEF Load, redisVars, historyVars, TypeOK
  <2>. QED
    BY <2>1, <2>2, <2>3, <2>4, <2>5 DEF TypeOK
<1>3. CASE LoadExpire(t)
  <2>1. rec' \in [Id -> Key]
    BY <1>0, <1>3, KeyCommands DEF LoadExpire, redisVars, historyVars, TypeOK
  <2>2. index' \in [Subject -> [Id -> Absent..AbsoluteTTL]]
    BY <1>0, <1>3 DEF LoadExpire, redisVars, historyVars, TypeOK
  <2>3. pc' \in [Task -> PcOf] /\ call' \in [Task -> Call]
    BY <1>0, <1>3 DEF LoadExpire, redisVars, historyVars, TypeOK, PcOf, CanCall
  <2>4. state' \in [Task -> State]
    BY <1>0, <1>3 DEF LoadExpire, redisVars, historyVars, TypeOK
  <2>5. used' \in SUBSET Id /\ handed' \in SUBSET Id /\ born' \in SUBSET Id
      /\ parent' \in [Id -> MaybeId] /\ indexed' \in SUBSET Id /\ swept' \in SUBSET Id
    BY <1>0, <1>3 DEF LoadExpire, redisVars, historyVars, TypeOK
  <2>. QED
    BY <2>1, <2>2, <2>3, <2>4, <2>5 DEF TypeOK
<1>4. CASE LoadTtl(t)
  <2>1. rec' \in [Id -> Key]
    BY <1>0, <1>4 DEF LoadTtl, redisVars, historyVars, TypeOK
  <2>2. index' \in [Subject -> [Id -> Absent..AbsoluteTTL]]
    BY <1>0, <1>4 DEF LoadTtl, redisVars, historyVars, TypeOK
  <2>3. pc' \in [Task -> PcOf] /\ call' \in [Task -> Call]
    BY <1>0, <1>4 DEF LoadTtl, redisVars, historyVars, TypeOK, PcOf, CanCall
  <2>4a. call[t].id \in Id
    BY <1>4 DEF LoadTtl, Targets
  <2>4. state' \in [Task -> State]
    BY <1>0, <1>4, <2>4a, ClocksAssumption DEF LoadTtl, redisVars, historyVars, TypeOK, State, NoState, MaybeId, Key, Open, Absent
  <2>5. used' \in SUBSET Id /\ handed' \in SUBSET Id /\ born' \in SUBSET Id
      /\ parent' \in [Id -> MaybeId] /\ indexed' \in SUBSET Id /\ swept' \in SUBSET Id
    BY <1>0, <1>4 DEF LoadTtl, redisVars, historyVars, TypeOK
  <2>. QED
    BY <2>1, <2>2, <2>3, <2>4, <2>5 DEF TypeOK
<1>5. CASE Tidy(t)
  <2>1. rec' \in [Id -> Key]
    BY <1>0, <1>5, KeyCommands DEF Tidy, redisVars, historyVars, TypeOK
  <2>2. index' \in [Subject -> [Id -> Absent..AbsoluteTTL]]
    BY <1>0, <1>5 DEF Tidy, redisVars, historyVars, TypeOK
  <2>3. pc' \in [Task -> PcOf] /\ call' \in [Task -> Call]
    BY <1>0, <1>5 DEF Tidy, redisVars, historyVars, TypeOK, PcOf, CanCall
  <2>4. state' \in [Task -> State]
    BY <1>0, <1>5 DEF Tidy, redisVars, historyVars, TypeOK
  <2>5. used' \in SUBSET Id /\ handed' \in SUBSET Id /\ born' \in SUBSET Id
      /\ parent' \in [Id -> MaybeId] /\ indexed' \in SUBSET Id /\ swept' \in SUBSET Id
    BY <1>0, <1>5 DEF Tidy, redisVars, historyVars, TypeOK
  <2>. QED
    BY <2>1, <2>2, <2>3, <2>4, <2>5 DEF TypeOK
<1>6. ASSUME NEW s \in Who, Create(t, s)
      PROVE  TypeOK'
  <2>1. rec' \in [Id -> Key]
    BY <1>0, <1>6 DEF Create, redisVars, historyVars, TypeOK
  <2>2. index' \in [Subject -> [Id -> Absent..AbsoluteTTL]]
    BY <1>0, <1>6 DEF Create, redisVars, historyVars, TypeOK
  <2>3. pc' \in [Task -> PcOf] /\ call' \in [Task -> Call]
    BY <1>0, <1>6, FreshCalls DEF Create, redisVars, historyVars, TypeOK, PcOf, CanCall
  <2>4. state' \in [Task -> State]
    BY <1>0, <1>6 DEF Create, redisVars, historyVars, TypeOK
  <2>5. used' \in SUBSET Id /\ handed' \in SUBSET Id /\ born' \in SUBSET Id
      /\ parent' \in [Id -> MaybeId] /\ indexed' \in SUBSET Id /\ swept' \in SUBSET Id
    BY <1>0, <1>6 DEF Create, redisVars, historyVars, TypeOK
  <2>. QED
    BY <2>1, <2>2, <2>3, <2>4, <2>5 DEF TypeOK
<1>7. CASE CreateWrite(t)
  <2>1. rec' \in [Id -> Key]
    <3>1. PICK i \in Id, modern \in BOOLEAN : rec' = WriteField(i, call[t].arg, modern)
      BY <1>7, ServerAssumption DEF CreateWrite
    <3>2. call[t].arg \in Who
      BY <1>0 DEF TypeOK, Call
    <3>. QED
      BY <1>0, <3>1, <3>2, KeyCommands DEF MaybeId
  <2>2. index' \in [Subject -> [Id -> Absent..AbsoluteTTL]]
    BY <1>0, <1>7 DEF CreateWrite, redisVars, historyVars, TypeOK
  <2>3. pc' \in [Task -> PcOf] /\ call' \in [Task -> Call]
    BY <1>0, <1>7, UpdatedCalls DEF CreateWrite, redisVars, historyVars, TypeOK, PcOf, CanCall, MaybeId
  <2>4. state' \in [Task -> State]
    BY <1>0, <1>7 DEF CreateWrite, redisVars, historyVars, TypeOK
  <2>5. used' \in SUBSET Id /\ handed' \in SUBSET Id /\ born' \in SUBSET Id
      /\ parent' \in [Id -> MaybeId] /\ indexed' \in SUBSET Id /\ swept' \in SUBSET Id
    BY <1>0, <1>7 DEF CreateWrite, redisVars, historyVars, TypeOK, MaybeId
  <2>. QED
    BY <2>1, <2>2, <2>3, <2>4, <2>5 DEF TypeOK
<1>8. CASE CreateExpire(t)
  <2>1. rec' \in [Id -> Key]
    BY <1>0, <1>8, KeyCommands DEF CreateExpire, redisVars, historyVars, TypeOK
  <2>2. index' \in [Subject -> [Id -> Absent..AbsoluteTTL]]
    BY <1>0, <1>8 DEF CreateExpire, redisVars, historyVars, TypeOK
  <2>3. pc' \in [Task -> PcOf] /\ call' \in [Task -> Call]
    BY <1>0, <1>8 DEF CreateExpire, redisVars, historyVars, TypeOK, PcOf, CanCall
  <2>4. state' \in [Task -> State]
    BY <1>0, <1>8 DEF CreateExpire, redisVars, historyVars, TypeOK
  <2>5. used' \in SUBSET Id /\ handed' \in SUBSET Id /\ born' \in SUBSET Id
      /\ parent' \in [Id -> MaybeId] /\ indexed' \in SUBSET Id /\ swept' \in SUBSET Id
    BY <1>0, <1>8 DEF CreateExpire, redisVars, historyVars, TypeOK
  <2>. QED
    BY <2>1, <2>2, <2>3, <2>4, <2>5 DEF TypeOK
<1>9. CASE CreateDeadline(t)
  <2>1. rec' \in [Id -> Key]
    BY <1>0, <1>9, KeyCommands DEF CreateDeadline, redisVars, historyVars, TypeOK
  <2>2. index' \in [Subject -> [Id -> Absent..AbsoluteTTL]]
    BY <1>0, <1>9 DEF CreateDeadline, redisVars, historyVars, TypeOK
  <2>3. pc' \in [Task -> PcOf] /\ call' \in [Task -> Call]
    BY <1>0, <1>9 DEF CreateDeadline, redisVars, historyVars, TypeOK, PcOf, CanCall
  <2>4. state' \in [Task -> State]
    BY <1>0, <1>9 DEF CreateDeadline, redisVars, historyVars, TypeOK
  <2>5. used' \in SUBSET Id /\ handed' \in SUBSET Id /\ born' \in SUBSET Id
      /\ parent' \in [Id -> MaybeId] /\ indexed' \in SUBSET Id /\ swept' \in SUBSET Id
    BY <1>0, <1>9 DEF CreateDeadline, redisVars, historyVars, TypeOK, Targets
  <2>. QED
    BY <2>1, <2>2, <2>3, <2>4, <2>5 DEF TypeOK
<1>10. CASE Adopt(t)
  <2>1. rec' \in [Id -> Key]
    BY <1>0, <1>10 DEF Adopt, redisVars, historyVars, TypeOK
  <2>2. index' \in [Subject -> [Id -> Absent..AbsoluteTTL]]
    BY <1>0, <1>10 DEF Adopt, redisVars, historyVars, TypeOK
  <2>3. pc' \in [Task -> PcOf] /\ call' \in [Task -> Call]
    BY <1>0, <1>10, FreshCalls DEF Adopt, redisVars, historyVars, TypeOK, PcOf, CanCall
  <2>4. state' \in [Task -> State]
    BY <1>0, <1>10, ClocksAssumption DEF Adopt, redisVars, historyVars, TypeOK, State, NoState, Who, MaybeId, Key, Open, Absent
  <2>5. used' \in SUBSET Id /\ handed' \in SUBSET Id /\ born' \in SUBSET Id
      /\ parent' \in [Id -> MaybeId] /\ indexed' \in SUBSET Id /\ swept' \in SUBSET Id
    BY <1>0, <1>10 DEF Adopt, redisVars, historyVars, TypeOK, Targets
  <2>. QED
    BY <2>1, <2>2, <2>3, <2>4, <2>5 DEF TypeOK
<1>11. CASE Save(t)
  <2>1. rec' \in [Id -> Key]
    <3>1. PICK modern \in BOOLEAN : rec' = WriteField(state[t].sid, state[t].subject, modern)
      BY <1>11, ServerAssumption DEF Save
    <3>. QED
      BY <1>0, <3>1, KeyCommands
  <2>2. index' \in [Subject -> [Id -> Absent..AbsoluteTTL]]
    BY <1>0, <1>11 DEF Save, redisVars, historyVars, TypeOK
  <2>3. pc' \in [Task -> PcOf] /\ call' \in [Task -> Call]
    BY <1>0, <1>11, FreshCalls DEF Save, redisVars, historyVars, TypeOK, PcOf, CanCall, AfterSave
  <2>4. state' \in [Task -> State]
    BY <1>0, <1>11 DEF Save, redisVars, historyVars, TypeOK
  <2>5. used' \in SUBSET Id /\ handed' \in SUBSET Id /\ born' \in SUBSET Id
      /\ parent' \in [Id -> MaybeId] /\ indexed' \in SUBSET Id /\ swept' \in SUBSET Id
    BY <1>0, <1>11 DEF Save, redisVars, historyVars, TypeOK
  <2>. QED
    BY <2>1, <2>2, <2>3, <2>4, <2>5 DEF TypeOK
<1>12. CASE SaveExpire(t)
  <2>1. rec' \in [Id -> Key]
    BY <1>0, <1>12, KeyCommands DEF SaveExpire, redisVars, historyVars, TypeOK
  <2>2. index' \in [Subject -> [Id -> Absent..AbsoluteTTL]]
    BY <1>0, <1>12 DEF SaveExpire, redisVars, historyVars, TypeOK
  <2>3. pc' \in [Task -> PcOf] /\ call' \in [Task -> Call]
    BY <1>0, <1>12, FreshCalls DEF SaveExpire, redisVars, historyVars, TypeOK, PcOf, CanCall, AfterSave
  <2>4. state' \in [Task -> State]
    BY <1>0, <1>12 DEF SaveExpire, redisVars, historyVars, TypeOK
  <2>5. used' \in SUBSET Id /\ handed' \in SUBSET Id /\ born' \in SUBSET Id
      /\ parent' \in [Id -> MaybeId] /\ indexed' \in SUBSET Id /\ swept' \in SUBSET Id
    BY <1>0, <1>12 DEF SaveExpire, redisVars, historyVars, TypeOK
  <2>. QED
    BY <2>1, <2>2, <2>3, <2>4, <2>5 DEF TypeOK
<1>13. CASE IndexAdd(t)
  <2>1. rec' \in [Id -> Key]
    BY <1>0, <1>13 DEF IndexAdd, redisVars, historyVars, TypeOK
  <2>1a. state[t].left \in Absent..AbsoluteTTL
    BY Expiries
  <2>2. index' \in [Subject -> [Id -> Absent..AbsoluteTTL]]
    <3>1. [index EXCEPT ![call[t].arg][call[t].id] = state[t].left]
            \in [Subject -> [Id -> Absent..AbsoluteTTL]]
      BY <2>1a, IndexCommands
    <3>2. [index EXCEPT ![call[t].arg][call[t].id] = NoTTL]
            \in [Subject -> [Id -> Absent..AbsoluteTTL]]
      BY Expiries, IndexCommands
    <3>. QED
      BY <1>13, <3>1, <3>2 DEF IndexAdd
  <2>3. pc' \in [Task -> PcOf] /\ call' \in [Task -> Call]
    BY <1>0, <1>13 DEF IndexAdd, redisVars, historyVars, TypeOK, PcOf, CanCall
  <2>4. state' \in [Task -> State]
    BY <1>0, <1>13 DEF IndexAdd, redisVars, historyVars, TypeOK
  <2>5. used' \in SUBSET Id /\ handed' \in SUBSET Id /\ born' \in SUBSET Id
      /\ parent' \in [Id -> MaybeId] /\ indexed' \in SUBSET Id /\ swept' \in SUBSET Id
    BY <1>0, <1>13 DEF IndexAdd, redisVars, historyVars, TypeOK, Targets
  <2>. QED
    BY <2>1, <2>2, <2>3, <2>4, <2>5 DEF TypeOK
<1>14. CASE IndexExpire(t)
  <2>1. rec' \in [Id -> Key]
    BY <1>0, <1>14 DEF IndexExpire, redisVars, historyVars, TypeOK
  <2>2. index' \in [Subject -> [Id -> Absent..AbsoluteTTL]]
    BY <1>0, <1>14, IndexCommands, Expiries DEF IndexExpire, redisVars, historyVars, TypeOK
  <2>3. pc' \in [Task -> PcOf] /\ call' \in [Task -> Call]
    BY <1>0, <1>14 DEF IndexExpire, redisVars, historyVars, TypeOK, PcOf, CanCall
  <2>4. state' \in [Task -> State]
    BY <1>0, <1>14 DEF IndexExpire, redisVars, historyVars, TypeOK
  <2>5. used' \in SUBSET Id /\ handed' \in SUBSET Id /\ born' \in SUBSET Id
      /\ parent' \in [Id -> MaybeId] /\ indexed' \in SUBSET Id /\ swept' \in SUBSET Id
    BY <1>0, <1>14 DEF IndexExpire, redisVars, historyVars, TypeOK, Targets
  <2>. QED
    BY <2>1, <2>2, <2>3, <2>4, <2>5 DEF TypeOK
<1>15. CASE Touch(t)
  <2>1. rec' \in [Id -> Key]
    BY <1>0, <1>15, KeyCommands DEF Touch, redisVars, historyVars, TypeOK
  <2>2. index' \in [Subject -> [Id -> Absent..AbsoluteTTL]]
    BY <1>0, <1>15 DEF Touch, redisVars, historyVars, TypeOK
  <2>3. pc' \in [Task -> PcOf] /\ call' \in [Task -> Call]
    BY <1>0, <1>15 DEF Touch, redisVars, historyVars, TypeOK, PcOf, CanCall
  <2>4. state' \in [Task -> State]
    BY <1>0, <1>15 DEF Touch, redisVars, historyVars, TypeOK
  <2>5. used' \in SUBSET Id /\ handed' \in SUBSET Id /\ born' \in SUBSET Id
      /\ parent' \in [Id -> MaybeId] /\ indexed' \in SUBSET Id /\ swept' \in SUBSET Id
    BY <1>0, <1>15 DEF Touch, redisVars, historyVars, TypeOK
  <2>. QED
    BY <2>1, <2>2, <2>3, <2>4, <2>5 DEF TypeOK
<1>16. ASSUME NEW s \in Who, Rotate(t, s)
      PROVE  TypeOK'
  <2>1. rec' \in [Id -> Key]
    BY <1>0, <1>16, KeyCommands DEF Rotate, redisVars, historyVars, TypeOK
  <2>2. index' \in [Subject -> [Id -> Absent..AbsoluteTTL]]
    BY <1>0, <1>16 DEF Rotate, redisVars, historyVars, TypeOK
  <2>3. pc' \in [Task -> PcOf] /\ call' \in [Task -> Call]
    BY <1>0, <1>16, FreshCalls DEF Rotate, redisVars, historyVars, TypeOK, PcOf, CanCall
  <2>4. state' \in [Task -> State]
    BY <1>0, <1>16 DEF Rotate, redisVars, historyVars, TypeOK
  <2>5. used' \in SUBSET Id /\ handed' \in SUBSET Id /\ born' \in SUBSET Id
      /\ parent' \in [Id -> MaybeId] /\ indexed' \in SUBSET Id /\ swept' \in SUBSET Id
    BY <1>0, <1>16 DEF Rotate, redisVars, historyVars, TypeOK
  <2>. QED
    BY <2>1, <2>2, <2>3, <2>4, <2>5 DEF TypeOK
<1>17. CASE RotateDrop(t)
  <2>1. rec' \in [Id -> Key]
    BY <1>0, <1>17 DEF RotateDrop, redisVars, historyVars, TypeOK
  <2>2. index' \in [Subject -> [Id -> Absent..AbsoluteTTL]]
    BY <1>0, <1>17, IndexCommands, Expiries DEF RotateDrop, redisVars, historyVars, TypeOK
  <2>3. pc' \in [Task -> PcOf] /\ call' \in [Task -> Call]
    BY <1>0, <1>17 DEF RotateDrop, redisVars, historyVars, TypeOK, PcOf, CanCall
  <2>4. state' \in [Task -> State]
    BY <1>0, <1>17 DEF RotateDrop, redisVars, historyVars, TypeOK
  <2>5. used' \in SUBSET Id /\ handed' \in SUBSET Id /\ born' \in SUBSET Id
      /\ parent' \in [Id -> MaybeId] /\ indexed' \in SUBSET Id /\ swept' \in SUBSET Id
    BY <1>0, <1>17 DEF RotateDrop, redisVars, historyVars, TypeOK
  <2>. QED
    BY <2>1, <2>2, <2>3, <2>4, <2>5 DEF TypeOK
<1>18. CASE Revoke(t)
  <2>1. rec' \in [Id -> Key]
    BY <1>0, <1>18, KeyCommands DEF Revoke, redisVars, historyVars, TypeOK
  <2>2. index' \in [Subject -> [Id -> Absent..AbsoluteTTL]]
    BY <1>0, <1>18 DEF Revoke, redisVars, historyVars, TypeOK
  <2>3. pc' \in [Task -> PcOf] /\ call' \in [Task -> Call]
    BY <1>0, <1>18 DEF Revoke, redisVars, historyVars, TypeOK, PcOf, CanCall
  <2>4. state' \in [Task -> State]
    BY <1>0, <1>18 DEF Revoke, redisVars, historyVars, TypeOK
  <2>5. used' \in SUBSET Id /\ handed' \in SUBSET Id /\ born' \in SUBSET Id
      /\ parent' \in [Id -> MaybeId] /\ indexed' \in SUBSET Id /\ swept' \in SUBSET Id
    BY <1>0, <1>18 DEF Revoke, redisVars, historyVars, TypeOK
  <2>. QED
    BY <2>1, <2>2, <2>3, <2>4, <2>5 DEF TypeOK
<1>19. CASE RevokeDrop(t)
  <2>1. rec' \in [Id -> Key]
    BY <1>0, <1>19 DEF RevokeDrop, redisVars, historyVars, TypeOK
  <2>2. index' \in [Subject -> [Id -> Absent..AbsoluteTTL]]
    BY <1>0, <1>19, IndexCommands, Expiries DEF RevokeDrop, redisVars, historyVars, TypeOK
  <2>3. pc' \in [Task -> PcOf] /\ call' \in [Task -> Call]
    BY <1>0, <1>19 DEF RevokeDrop, redisVars, historyVars, TypeOK, PcOf, CanCall
  <2>4. state' \in [Task -> State]
    BY <1>0, <1>19 DEF RevokeDrop, redisVars, historyVars, TypeOK
  <2>5. used' \in SUBSET Id /\ handed' \in SUBSET Id /\ born' \in SUBSET Id
      /\ parent' \in [Id -> MaybeId] /\ indexed' \in SUBSET Id /\ swept' \in SUBSET Id
    BY <1>0, <1>19 DEF RevokeDrop, redisVars, historyVars, TypeOK
  <2>. QED
    BY <2>1, <2>2, <2>3, <2>4, <2>5 DEF TypeOK
<1>20. CASE Revoked(t)
  <2>1. rec' \in [Id -> Key]
    BY <1>0, <1>20 DEF Revoked, redisVars, historyVars, TypeOK
  <2>2. index' \in [Subject -> [Id -> Absent..AbsoluteTTL]]
    BY <1>0, <1>20 DEF Revoked, redisVars, historyVars, TypeOK
  <2>3. pc' \in [Task -> PcOf] /\ call' \in [Task -> Call]
    BY <1>0, <1>20 DEF Revoked, redisVars, historyVars, TypeOK, PcOf, CanCall
  <2>4. state' \in [Task -> State]
    BY <1>0, <1>20, ClocksAssumption DEF Revoked, redisVars, historyVars, TypeOK, State, NoState, Who, MaybeId, Key, Open, Absent
  <2>5. used' \in SUBSET Id /\ handed' \in SUBSET Id /\ born' \in SUBSET Id
      /\ parent' \in [Id -> MaybeId] /\ indexed' \in SUBSET Id /\ swept' \in SUBSET Id
    BY <1>0, <1>20 DEF Revoked, redisVars, historyVars, TypeOK
  <2>. QED
    BY <2>1, <2>2, <2>3, <2>4, <2>5 DEF TypeOK
<1>21. ASSUME NEW i \in Id, NEW s \in Subject, RevokeId(t, i, s)
      PROVE  TypeOK'
  <2>1. rec' \in [Id -> Key]
    BY <1>0, <1>21 DEF RevokeId, redisVars, historyVars, TypeOK
  <2>2. index' \in [Subject -> [Id -> Absent..AbsoluteTTL]]
    BY <1>0, <1>21 DEF RevokeId, redisVars, historyVars, TypeOK
  <2>3. pc' \in [Task -> PcOf] /\ call' \in [Task -> Call]
    BY <1>0, <1>21, FreshCalls DEF RevokeId, redisVars, historyVars, TypeOK, PcOf, CanCall, Who, MaybeId
  <2>4. state' \in [Task -> State]
    BY <1>0, <1>21 DEF RevokeId, redisVars, historyVars, TypeOK
  <2>5. used' \in SUBSET Id /\ handed' \in SUBSET Id /\ born' \in SUBSET Id
      /\ parent' \in [Id -> MaybeId] /\ indexed' \in SUBSET Id /\ swept' \in SUBSET Id
    BY <1>0, <1>21 DEF RevokeId, redisVars, historyVars, TypeOK
  <2>. QED
    BY <2>1, <2>2, <2>3, <2>4, <2>5 DEF TypeOK
<1>22. CASE KillKey(t)
  <2>1. rec' \in [Id -> Key]
    BY <1>0, <1>22, KeyCommands DEF KillKey, redisVars, historyVars, TypeOK
  <2>2. index' \in [Subject -> [Id -> Absent..AbsoluteTTL]]
    BY <1>0, <1>22 DEF KillKey, redisVars, historyVars, TypeOK
  <2>3. pc' \in [Task -> PcOf] /\ call' \in [Task -> Call]
    BY <1>0, <1>22 DEF KillKey, redisVars, historyVars, TypeOK, PcOf, CanCall
  <2>4. state' \in [Task -> State]
    BY <1>0, <1>22 DEF KillKey, redisVars, historyVars, TypeOK
  <2>5. used' \in SUBSET Id /\ handed' \in SUBSET Id /\ born' \in SUBSET Id
      /\ parent' \in [Id -> MaybeId] /\ indexed' \in SUBSET Id /\ swept' \in SUBSET Id
    BY <1>0, <1>22 DEF KillKey, redisVars, historyVars, TypeOK
  <2>. QED
    BY <2>1, <2>2, <2>3, <2>4, <2>5 DEF TypeOK
<1>23. CASE KillDrop(t)
  <2>1. rec' \in [Id -> Key]
    BY <1>0, <1>23 DEF KillDrop, redisVars, historyVars, TypeOK
  <2>2. index' \in [Subject -> [Id -> Absent..AbsoluteTTL]]
    BY <1>0, <1>23, IndexCommands, Expiries DEF KillDrop, redisVars, historyVars, TypeOK
  <2>3. pc' \in [Task -> PcOf] /\ call' \in [Task -> Call]
    BY <1>0, <1>23 DEF KillDrop, redisVars, historyVars, TypeOK, PcOf, CanCall
  <2>4. state' \in [Task -> State]
    BY <1>0, <1>23 DEF KillDrop, redisVars, historyVars, TypeOK
  <2>5. used' \in SUBSET Id /\ handed' \in SUBSET Id /\ born' \in SUBSET Id
      /\ parent' \in [Id -> MaybeId] /\ indexed' \in SUBSET Id /\ swept' \in SUBSET Id
    BY <1>0, <1>23 DEF KillDrop, redisVars, historyVars, TypeOK
  <2>. QED
    BY <2>1, <2>2, <2>3, <2>4, <2>5 DEF TypeOK
<1>24. ASSUME NEW s \in Subject, RevokeAll(t, s)
      PROVE  TypeOK'
  <2>1. rec' \in [Id -> Key]
    BY <1>0, <1>24 DEF RevokeAll, redisVars, historyVars, TypeOK
  <2>2. index' \in [Subject -> [Id -> Absent..AbsoluteTTL]]
    BY <1>0, <1>24 DEF RevokeAll, redisVars, historyVars, TypeOK
  <2>3. pc' \in [Task -> PcOf] /\ call' \in [Task -> Call]
    BY <1>0, <1>24, FreshCalls DEF RevokeAll, redisVars, historyVars, TypeOK, PcOf, CanCall, Who, Members
  <2>4. state' \in [Task -> State]
    BY <1>0, <1>24 DEF RevokeAll, redisVars, historyVars, TypeOK
  <2>5. used' \in SUBSET Id /\ handed' \in SUBSET Id /\ born' \in SUBSET Id
      /\ parent' \in [Id -> MaybeId] /\ indexed' \in SUBSET Id /\ swept' \in SUBSET Id
    BY <1>0, <1>24 DEF RevokeAll, redisVars, historyVars, TypeOK
  <2>. QED
    BY <2>1, <2>2, <2>3, <2>4, <2>5 DEF TypeOK
<1>25. CASE KillMany(t)
  <2>1. rec' \in [Id -> Key]
    BY <1>0, <1>25, KeyCommands DEF KillMany, redisVars, historyVars, TypeOK, MaybeId
  <2>2. index' \in [Subject -> [Id -> Absent..AbsoluteTTL]]
    BY <1>0, <1>25 DEF KillMany, redisVars, historyVars, TypeOK
  <2>3. pc' \in [Task -> PcOf] /\ call' \in [Task -> Call]
    BY <1>0, <1>25, UpdatedCalls DEF KillMany, redisVars, historyVars, TypeOK, PcOf, CanCall
  <2>4. state' \in [Task -> State]
    BY <1>0, <1>25 DEF KillMany, redisVars, historyVars, TypeOK
  <2>5. used' \in SUBSET Id /\ handed' \in SUBSET Id /\ born' \in SUBSET Id
      /\ parent' \in [Id -> MaybeId] /\ indexed' \in SUBSET Id /\ swept' \in SUBSET Id
    BY <1>0, <1>25 DEF KillMany, redisVars, historyVars, TypeOK
  <2>. QED
    BY <2>1, <2>2, <2>3, <2>4, <2>5 DEF TypeOK
<1>26. CASE IndexClear(t)
  <2>1. rec' \in [Id -> Key]
    BY <1>0, <1>26 DEF IndexClear, redisVars, historyVars, TypeOK
  <2>2. index' \in [Subject -> [Id -> Absent..AbsoluteTTL]]
    BY <1>0, <1>26, IndexCommands, Expiries DEF IndexClear, redisVars, historyVars, TypeOK
  <2>3. pc' \in [Task -> PcOf] /\ call' \in [Task -> Call]
    BY <1>0, <1>26 DEF IndexClear, redisVars, historyVars, TypeOK, PcOf, CanCall
  <2>4. state' \in [Task -> State]
    BY <1>0, <1>26 DEF IndexClear, redisVars, historyVars, TypeOK
  <2>5. used' \in SUBSET Id /\ handed' \in SUBSET Id /\ born' \in SUBSET Id
      /\ parent' \in [Id -> MaybeId] /\ indexed' \in SUBSET Id /\ swept' \in SUBSET Id
    BY <1>0, <1>26 DEF IndexClear, redisVars, historyVars, TypeOK, Members
  <2>. QED
    BY <2>1, <2>2, <2>3, <2>4, <2>5 DEF TypeOK
<1>27. ASSUME NEW s \in Subject, List(t, s)
      PROVE  TypeOK'
  <2>1. rec' \in [Id -> Key]
    BY <1>0, <1>27 DEF List, redisVars, historyVars, TypeOK
  <2>2. index' \in [Subject -> [Id -> Absent..AbsoluteTTL]]
    BY <1>0, <1>27 DEF List, redisVars, historyVars, TypeOK
  <2>3. pc' \in [Task -> PcOf] /\ call' \in [Task -> Call]
    BY <1>0, <1>27, FreshCalls DEF List, redisVars, historyVars, TypeOK, PcOf, CanCall, Who, Members
  <2>4. state' \in [Task -> State]
    BY <1>0, <1>27 DEF List, redisVars, historyVars, TypeOK
  <2>5. used' \in SUBSET Id /\ handed' \in SUBSET Id /\ born' \in SUBSET Id
      /\ parent' \in [Id -> MaybeId] /\ indexed' \in SUBSET Id /\ swept' \in SUBSET Id
    BY <1>0, <1>27 DEF List, redisVars, historyVars, TypeOK
  <2>. QED
    BY <2>1, <2>2, <2>3, <2>4, <2>5 DEF TypeOK
<1>28. CASE Verify(t)
  <2>1. rec' \in [Id -> Key]
    BY <1>0, <1>28 DEF Verify, redisVars, historyVars, TypeOK
  <2>2. index' \in [Subject -> [Id -> Absent..AbsoluteTTL]]
    BY <1>0, <1>28 DEF Verify, redisVars, historyVars, TypeOK
  <2>3. pc' \in [Task -> PcOf] /\ call' \in [Task -> Call]
    BY ZenonT(40), <1>0, <1>28, UpdatedCalls DEF Verify, redisVars, historyVars, TypeOK, PcOf, CanCall
  <2>4. state' \in [Task -> State]
    BY <1>0, <1>28 DEF Verify, redisVars, historyVars, TypeOK
  <2>5. used' \in SUBSET Id /\ handed' \in SUBSET Id /\ born' \in SUBSET Id
      /\ parent' \in [Id -> MaybeId] /\ indexed' \in SUBSET Id /\ swept' \in SUBSET Id
    BY <1>0, <1>28 DEF Verify, redisVars, historyVars, TypeOK
  <2>. QED
    BY <2>1, <2>2, <2>3, <2>4, <2>5 DEF TypeOK
<1>29. CASE Prune(t)
  <2>1. rec' \in [Id -> Key]
    BY <1>0, <1>29 DEF Prune, redisVars, historyVars, TypeOK
  <2>2. index' \in [Subject -> [Id -> Absent..AbsoluteTTL]]
    BY <1>0, <1>29, IndexCommands DEF Prune, MaybeId, TypeOK
  <2>3. pc' \in [Task -> PcOf] /\ call' \in [Task -> Call]
    BY <1>0, <1>29, UpdatedCalls DEF Prune, redisVars, historyVars, TypeOK, PcOf, CanCall
  <2>4. state' \in [Task -> State]
    BY <1>0, <1>29 DEF Prune, redisVars, historyVars, TypeOK
  <2>5. used' \in SUBSET Id /\ handed' \in SUBSET Id /\ born' \in SUBSET Id
      /\ parent' \in [Id -> MaybeId] /\ indexed' \in SUBSET Id /\ swept' \in SUBSET Id
    BY <1>0, <1>29 DEF Prune, redisVars, historyVars, TypeOK
  <2>. QED
    BY <2>1, <2>2, <2>3, <2>4, <2>5 DEF TypeOK
<1>30. CASE Fail(t)
  <2>1. rec' \in [Id -> Key]
    BY <1>0, <1>30 DEF Fail, redisVars, historyVars, TypeOK
  <2>2. index' \in [Subject -> [Id -> Absent..AbsoluteTTL]]
    BY <1>0, <1>30 DEF Fail, redisVars, historyVars, TypeOK
  <2>3. pc' \in [Task -> PcOf] /\ call' \in [Task -> Call]
    BY <1>0, <1>30 DEF Fail, redisVars, historyVars, TypeOK, PcOf, CanCall
  <2>4. state' \in [Task -> State]
    BY <1>0, <1>30 DEF Fail, redisVars, historyVars, TypeOK
  <2>5. used' \in SUBSET Id /\ handed' \in SUBSET Id /\ born' \in SUBSET Id
      /\ parent' \in [Id -> MaybeId] /\ indexed' \in SUBSET Id /\ swept' \in SUBSET Id
    BY <1>0, <1>30 DEF Fail, redisVars, historyVars, TypeOK
  <2>. QED
    BY <2>1, <2>2, <2>3, <2>4, <2>5 DEF TypeOK
<1>31. CASE Leave(t)
  <2>1. rec' \in [Id -> Key]
    BY <1>0, <1>31 DEF Leave, redisVars, historyVars, TypeOK
  <2>2. index' \in [Subject -> [Id -> Absent..AbsoluteTTL]]
    BY <1>0, <1>31 DEF Leave, redisVars, historyVars, TypeOK
  <2>3. pc' \in [Task -> PcOf] /\ call' \in [Task -> Call]
    BY <1>0, <1>31, FreshCalls DEF Leave, redisVars, historyVars, TypeOK, PcOf, CanCall
  <2>4. state' \in [Task -> State]
    BY <1>0, <1>31, ClocksAssumption DEF Leave, redisVars, historyVars, TypeOK, State, NoState, Who, MaybeId, Key, Open, Absent
  <2>5. used' \in SUBSET Id /\ handed' \in SUBSET Id /\ born' \in SUBSET Id
      /\ parent' \in [Id -> MaybeId] /\ indexed' \in SUBSET Id /\ swept' \in SUBSET Id
    BY <1>0, <1>31 DEF Leave, redisVars, historyVars, TypeOK
  <2>. QED
    BY <2>1, <2>2, <2>3, <2>4, <2>5 DEF TypeOK
<1>. QED
  BY <1>1, <1>2, <1>3, <1>4, <1>5, <1>6, <1>7, <1>8, <1>9, <1>10, <1>11, <1>12, <1>13, <1>14, <1>15, <1>16, <1>17, <1>18, <1>19, <1>20, <1>21, <1>22, <1>23, <1>24, <1>25, <1>26, <1>27, <1>28, <1>29, <1>30, <1>31 DEF Step

\* The clock keeps every variable well-typed.
LEMMA TypeOfTick ==
  ASSUME TypeOK, Tick \/ \E i \in Id : Reap(i)
  PROVE  TypeOK'
<1>1. CASE Tick
  BY <1>1, AgedKeyType, AgedEntryType DEF Tick, TypeOK, historyVars
<1>2. ASSUME NEW i \in Id, Reap(i)
      PROVE  TypeOK'
  BY <1>2, KeyCommands DEF Reap, TypeOK, historyVars, MaybeId, Who
<1>. QED
  BY <1>1, <1>2

-----------------------------------------------------------------------------
(***************************************************************************)
(* What a step does to the keys                                            *)
(***************************************************************************)

\* A step that neither closes nor opens a key, nor spends its time.
KeysKept == /\ \A i \in Id : Open(i)' = Open(i) /\ TimeLeft(i)' = TimeLeft(i)
            /\ \A i \in Id : Open(i)' => KeySeen(i)'

\* Writing or refreshing the payload field moves no deadline: the property
\* that makes save harmless ("no number of writes can extend the key's TTL").
LEMMA FieldCommandsKeepDeadlines ==
  ASSUME TypeOK, Fresh, NEW i \in MaybeId, NEW s \in Who,
         (\E modern \in BOOLEAN : rec' = WriteField(i, s, modern)) \/ rec' = ExpireField(i) \/ rec' = rec
  PROVE  KeysKept
<1> USE ClocksAssumption DEF TypeOK, Fresh, KeysKept, Open, TimeLeft, KeySeen, FieldSeen, Key,
        Absent, NoTTL
<1>1. CASE \E modern \in BOOLEAN : rec' = WriteField(i, s, modern)
  BY <1>1 DEF WriteField
<1>2. CASE rec' = ExpireField(i)
  BY <1>2 DEF ExpireField
<1>3. CASE rec' = rec
  BY <1>3
<1>. QED
  BY <1>1, <1>2, <1>3

\* The four things a step of a task can do to the keys.
LEMMA KeyEffects ==
  ASSUME TypeOK, Targets, Fresh, NEW t \in Task, Step(t)
  PROVE  \/ KeysKept /\ UNCHANGED <<used, born, parent>>
         \/ KeysKept /\ CreateWrite(t)
         \/ (\E i \in Id : rec' = DelKey(i)) /\ UNCHANGED <<used, born, parent>>
         \/ CreateDeadline(t)
<1> USE TaskTypes DEF historyVars, redisVars
<1>0. NoSubject \in Who
  BY DEF Who
<1>1. CASE \/ Anonymous(t) \/ LoadTtl(t) \/ Adopt(t) \/ IndexAdd(t) \/ IndexExpire(t)
           \/ RotateDrop(t) \/ RevokeDrop(t) \/ Revoked(t) \/ KillDrop(t) \/ IndexClear(t)
           \/ Verify(t) \/ Prune(t) \/ Fail(t) \/ Leave(t)
           \/ \E s \in Who : Create(t, s)
           \/ \E i \in Id, s \in Subject : RevokeId(t, i, s)
           \/ \E s \in Subject : RevokeAll(t, s) \/ List(t, s)
  <2>1. rec' = rec /\ UNCHANGED <<used, born, parent>>
    BY <1>1 DEF Anonymous, LoadTtl, Adopt, IndexAdd, IndexExpire, RotateDrop, RevokeDrop,
       Revoked, KillDrop, IndexClear, Verify, Prune, Fail, Leave, Create, RevokeId, RevokeAll,
       List
  <2>. QED
    BY <2>1, <1>0, FieldCommandsKeepDeadlines
<1>2. ASSUME NEW i \in Id, NEW refresh \in BOOLEAN, NEW modern \in HasHsetex,
             Load(t, i, refresh, modern)
      PROVE  KeysKept /\ UNCHANGED <<used, born, parent>>
  BY <1>2, <1>0, FieldCommandsKeepDeadlines DEF Load, MaybeId
<1>3. CASE LoadExpire(t) \/ CreateExpire(t) \/ SaveExpire(t) \/ Touch(t) \/ Save(t)
  BY <1>3, <1>0, FieldCommandsKeepDeadlines, ServerAssumption
     DEF LoadExpire, CreateExpire, SaveExpire, Touch, Save
<1>4. CASE CreateWrite(t)
  <2>1. PICK i \in Id \ used, modern \in BOOLEAN : rec' = WriteField(i, call[t].arg, modern)
    BY <1>4, ServerAssumption DEF CreateWrite
  <2>. QED
    BY <1>4, <2>1, FieldCommandsKeepDeadlines DEF MaybeId
<1>5. CASE Tidy(t) \/ KillKey(t)
  BY <1>5 DEF Tidy, KillKey, Targets
<1>6. CASE Revoke(t)
  BY <1>6 DEF Revoke, MaybeId
<1>7. CASE KillMany(t)
  BY <1>7 DEF KillMany
<1>8. ASSUME NEW s \in Who, Rotate(t, s)
      PROVE  \/ KeysKept /\ UNCHANGED <<used, born, parent>>
             \/ (\E i \in Id : rec' = DelKey(i)) /\ UNCHANGED <<used, born, parent>>
  BY <1>8, <1>0, FieldCommandsKeepDeadlines DEF Rotate, MaybeId
<1>9. CASE CreateDeadline(t)
  BY <1>9
<1>. QED
  BY <1>1, <1>2, <1>3, <1>4, <1>5, <1>6, <1>7, <1>8, <1>9 DEF Step

\* A tick closes some keys, the ones in their last tick among them, and
\* spends one tick of the others.
LEMMA TickEffects ==
  ASSUME TypeOK, Fresh, Tick, NEW i \in Id
  PROVE  /\ Open(i)' => Open(i) /\ rec[i].ttl > 1 /\ rec'[i].ttl = rec[i].ttl - 1
         /\ Open(i)' => KeySeen(i)'
<1>1. rec'[i] = AgedKey(rec[i]) /\ rec[i] \in Key
  BY DEF Tick, TypeOK
<1>. QED
  BY <1>1, ClocksAssumption
     DEF Fresh, Open, KeySeen, AgedKey, CountDown, Key, NoKey, Absent

-----------------------------------------------------------------------------
(***************************************************************************)
(* The inductive invariant                                                 *)
(***************************************************************************)

\* The inductive invariant holds of the empty store.
LEMMA InvInit == Init => IInv
<1> SUFFICES ASSUME Init
             PROVE  IInv
  OBVIOUS
<1>1. TypeOK
  BY TypeInit
<1>. QED
  BY <1>1 DEF Init, IInv, Targets, Fresh, Lines, Creating, Open, NoKey, NoState, Absent

\* A task's step leaves the other tasks alone.
LEMMA OthersKept ==
  ASSUME TypeOK, NEW t \in Task, Step(t), NEW u \in Task, u # t
  PROVE  pc'[u] = pc[u] /\ call'[u] = call[u] /\ state'[u] = state[u]
<1> USE DEF TypeOK, Goto, EnterCall, Return
<1>1. CASE \/ Anonymous(t) \/ LoadExpire(t) \/ LoadTtl(t) \/ Tidy(t)
           \/ \E i \in Id, refresh \in BOOLEAN, modern \in HasHsetex : Load(t, i, refresh, modern)
           \/ \E s \in Who : Create(t, s) \/ Rotate(t, s)
  BY <1>1 DEF Anonymous, Load, LoadExpire, LoadTtl, Tidy, Create, Rotate
<1>2. CASE \/ CreateWrite(t) \/ CreateExpire(t) \/ CreateDeadline(t) \/ Adopt(t)
           \/ Save(t) \/ SaveExpire(t) \/ IndexAdd(t) \/ IndexExpire(t) \/ Touch(t)
  BY <1>2 DEF CreateWrite, CreateExpire, CreateDeadline, Adopt, Save, SaveExpire, AfterSave,
     IndexAdd, IndexExpire, Touch
<1>3. CASE \/ RotateDrop(t) \/ Revoke(t) \/ RevokeDrop(t) \/ Revoked(t) \/ KillKey(t)
           \/ KillDrop(t) \/ KillMany(t) \/ IndexClear(t)
           \/ \E i \in Id, s \in Subject : RevokeId(t, i, s)
  BY <1>3 DEF RotateDrop, Revoke, RevokeDrop, Revoked, RevokeId, KillKey, KillDrop, KillMany,
     IndexClear
<1>4. CASE \/ Verify(t) \/ Prune(t) \/ Fail(t) \/ Leave(t)
           \/ \E s \in Subject : RevokeAll(t, s) \/ List(t, s)
  BY <1>4 DEF RevokeAll, List, Verify, Prune, Fail, Leave
<1>. QED
  BY <1>1, <1>2, <1>3, <1>4 DEF Step

\* What the invariant says of one task.
TaskInv(t) ==
  /\ pc[t] \in {"loadExpire", "loadTtl", "tidy", "index", "indexExpire",
              "killKey", "killDrop"} => call[t].id \in Id
  /\ Creating(t) => call[t].new \in Id
  /\ pc[t] \in {"saveExpire", "revokeDrop", "revoked"} => state[t].sid \in Id
  /\ state[t].sid \in handed \cup {NoId}
  /\ pc[t] \in {"loadExpire", "loadTtl"} => call[t].id \in handed
  /\ Creating(t) => call[t].new \in used \ handed
  /\ Creating(t) /\ pc[t] # "adopt" => call[t].new \notin born
  /\ pc[t] \in {"rotateDrop", "create"} /\ call[t].old # NoId =>
       call[t].old \in handed /\ ~Open(call[t].old)

\* A step of a task keeps what the invariant says of that task.
LEMMA TaskInvKept ==
  ASSUME IInv, NEW t \in Task, Step(t)
  PROVE  TaskInv(t)'
<1> USE DEF Goto, EnterCall, Return, CanCall, redisVars, historyVars
<1>0. /\ TypeOK /\ TaskInv(t)
      /\ handed \subseteq used /\ born \subseteq used /\ used \subseteq Id
  BY DEF IInv, TypeOK, TaskInv, Targets, Fresh, Lines, Creating
<1>1. CASE Anonymous(t)
  BY <1>0, <1>1, TaskTypes DEF TypeOK, TaskInv, Creating, Anonymous, AfterSave, NoCall, NoState, MaybeId, Open, DelKey, NoKey, Absent
<1>2. CASE \E i \in Id, refresh \in BOOLEAN, modern \in HasHsetex : Load(t, i, refresh, modern)
  BY <1>0, <1>2, TaskTypes DEF TypeOK, TaskInv, Creating, Load, AfterSave, NoCall, NoState, MaybeId, Open, DelKey, NoKey, Absent
<1>3. CASE LoadExpire(t)
  BY <1>0, <1>3, TaskTypes DEF TypeOK, TaskInv, Creating, LoadExpire, AfterSave, NoCall, NoState, MaybeId, Open, DelKey, NoKey, Absent
<1>4. CASE LoadTtl(t)
  BY <1>0, <1>4, TaskTypes DEF TypeOK, TaskInv, Creating, LoadTtl, AfterSave, NoCall, NoState, MaybeId, Open, DelKey, NoKey, Absent
<1>5. CASE Tidy(t)
  BY <1>0, <1>5, TaskTypes DEF TypeOK, TaskInv, Creating, Tidy, AfterSave, NoCall, NoState, MaybeId, Open, DelKey, NoKey, Absent
<1>6. CASE \E s \in Who : Create(t, s)
  BY <1>0, <1>6, TaskTypes DEF TypeOK, TaskInv, Creating, Create, AfterSave, NoCall, NoState, MaybeId, Open, DelKey, NoKey, Absent
<1>7. CASE CreateWrite(t)
  BY <1>0, <1>7, TaskTypes DEF TypeOK, TaskInv, Creating, CreateWrite, AfterSave, NoCall, NoState, MaybeId, Open, DelKey, NoKey, Absent
<1>8. CASE CreateExpire(t)
  BY <1>0, <1>8, TaskTypes DEF TypeOK, TaskInv, Creating, CreateExpire, AfterSave, NoCall, NoState, MaybeId, Open, DelKey, NoKey, Absent
<1>9. CASE CreateDeadline(t)
  BY <1>0, <1>9, TaskTypes DEF TypeOK, TaskInv, Creating, CreateDeadline, AfterSave, NoCall, NoState, MaybeId, Open, DelKey, NoKey, Absent
<1>10. CASE Adopt(t)
  <2>1. call[t].new \in used /\ call[t].new \in Id /\ handed' = handed \cup {call[t].new}
    BY <1>0, <1>10 DEF TaskInv, Creating, Adopt
  <2>2. state'[t].sid = call[t].new
    BY <1>0, <1>10 DEF TypeOK, Adopt
  <2>3. \/ pc'[t] = "ready"
        \/ pc'[t] = "index" /\ call'[t].id = call[t].new
    BY <1>0, <1>10 DEF TypeOK, Adopt, NoCall
  <2>. QED
    BY <2>1, <2>2, <2>3 DEF TaskInv, Creating
<1>11. CASE Save(t)
  <2>1. state[t].sid \in Id /\ state' = state /\ handed' = handed
    BY <1>0, <1>11, TaskTypes DEF TaskInv, Save, MaybeId
  <2>2. \/ pc'[t] \in {"ready", "saveExpire"}
        \/ pc'[t] = "index" /\ call'[t].id = state[t].sid
    BY ZenonT(40), <1>0, <1>11 DEF TypeOK, Save, AfterSave, NoCall
  <2>. QED
    BY <1>0, <2>1, <2>2 DEF TaskInv, Creating
<1>12. CASE SaveExpire(t)
  <2>1. state[t].sid \in Id /\ state' = state /\ handed' = handed
    BY <1>0, <1>12, TaskTypes DEF TaskInv, SaveExpire, MaybeId
  <2>2. \/ pc'[t] \in {"ready", "saveExpire"}
        \/ pc'[t] = "index" /\ call'[t].id = state[t].sid
    BY ZenonT(40), <1>0, <1>12 DEF TypeOK, SaveExpire, AfterSave, NoCall
  <2>. QED
    BY <1>0, <2>1, <2>2 DEF TaskInv, Creating
<1>13. CASE IndexAdd(t)
  BY <1>0, <1>13, TaskTypes DEF TypeOK, TaskInv, Creating, IndexAdd, AfterSave, NoCall, NoState, MaybeId, Open, DelKey, NoKey, Absent
<1>14. CASE IndexExpire(t)
  BY <1>0, <1>14, TaskTypes DEF TypeOK, TaskInv, Creating, IndexExpire, AfterSave, NoCall, NoState, MaybeId, Open, DelKey, NoKey, Absent
<1>15. CASE Touch(t)
  BY <1>0, <1>15, TaskTypes DEF TypeOK, TaskInv, Creating, Touch, AfterSave, NoCall, NoState, MaybeId, Open, DelKey, NoKey, Absent
<1>16. CASE \E s \in Who : Rotate(t, s)
  BY <1>0, <1>16, TaskTypes DEF TypeOK, TaskInv, Creating, Rotate, AfterSave, NoCall, NoState, MaybeId, Open, DelKey, NoKey, Absent
<1>17. CASE RotateDrop(t)
  BY <1>0, <1>17, TaskTypes DEF TypeOK, TaskInv, Creating, RotateDrop, AfterSave, NoCall, NoState, MaybeId, Open, DelKey, NoKey, Absent
<1>18. CASE Revoke(t)
  BY <1>0, <1>18, TaskTypes DEF TypeOK, TaskInv, Creating, Revoke, AfterSave, NoCall, NoState, MaybeId, Open, DelKey, NoKey, Absent
<1>19. CASE RevokeDrop(t)
  BY <1>0, <1>19, TaskTypes DEF TypeOK, TaskInv, Creating, RevokeDrop, AfterSave, NoCall, NoState, MaybeId, Open, DelKey, NoKey, Absent
<1>20. CASE Revoked(t)
  BY <1>0, <1>20, TaskTypes DEF TypeOK, TaskInv, Creating, Revoked, AfterSave, NoCall, NoState, MaybeId, Open, DelKey, NoKey, Absent
<1>21. CASE \E i \in Id, s \in Subject : RevokeId(t, i, s)
  BY <1>0, <1>21, TaskTypes DEF TypeOK, TaskInv, Creating, RevokeId, AfterSave, NoCall, NoState, MaybeId, Open, DelKey, NoKey, Absent
<1>22. CASE KillKey(t)
  BY <1>0, <1>22, TaskTypes DEF TypeOK, TaskInv, Creating, KillKey, AfterSave, NoCall, NoState, MaybeId, Open, DelKey, NoKey, Absent
<1>23. CASE KillDrop(t)
  BY <1>0, <1>23, TaskTypes DEF TypeOK, TaskInv, Creating, KillDrop, AfterSave, NoCall, NoState, MaybeId, Open, DelKey, NoKey, Absent
<1>24. CASE \E s \in Subject : RevokeAll(t, s)
  BY <1>0, <1>24, TaskTypes DEF TypeOK, TaskInv, Creating, RevokeAll, AfterSave, NoCall, NoState, MaybeId, Open, DelKey, NoKey, Absent
<1>25. CASE KillMany(t)
  BY <1>0, <1>25, TaskTypes DEF TypeOK, TaskInv, Creating, KillMany, AfterSave, NoCall, NoState, MaybeId, Open, DelKey, NoKey, Absent
<1>26. CASE IndexClear(t)
  BY <1>0, <1>26, TaskTypes DEF TypeOK, TaskInv, Creating, IndexClear, AfterSave, NoCall, NoState, MaybeId, Open, DelKey, NoKey, Absent
<1>27. CASE \E s \in Subject : List(t, s)
  BY <1>0, <1>27, TaskTypes DEF TypeOK, TaskInv, Creating, List, AfterSave, NoCall, NoState, MaybeId, Open, DelKey, NoKey, Absent
<1>28. CASE Verify(t)
  BY <1>0, <1>28, TaskTypes DEF TypeOK, TaskInv, Creating, Verify, AfterSave, NoCall, NoState, MaybeId, Open, DelKey, NoKey, Absent
<1>29. CASE Prune(t)
  BY <1>0, <1>29, TaskTypes DEF TypeOK, TaskInv, Creating, Prune, AfterSave, NoCall, NoState, MaybeId, Open, DelKey, NoKey, Absent
<1>30. CASE Fail(t)
  BY <1>0, <1>30, TaskTypes DEF TypeOK, TaskInv, Creating, Fail, AfterSave, NoCall, NoState, MaybeId, Open, DelKey, NoKey, Absent
<1>31. CASE Leave(t)
  BY <1>0, <1>31, TaskTypes DEF TypeOK, TaskInv, Creating, Leave, AfterSave, NoCall, NoState, MaybeId, Open, DelKey, NoKey, Absent
<1>. QED
  BY <1>1, <1>2, <1>3, <1>4, <1>5, <1>6, <1>7, <1>8, <1>9, <1>10, <1>11, <1>12, <1>13, <1>14, <1>15, <1>16, <1>17, <1>18, <1>19, <1>20, <1>21, <1>22, <1>23, <1>24, <1>25, <1>26, <1>27, <1>28, <1>29, <1>30, <1>31 DEF Step

\* What a step of one task may do to the shared history: identifiers are drawn,
\* born and handed out, never taken back.
LEMMA HistoryGrows ==
  ASSUME IInv, NEW t \in Task, Step(t)
  PROVE  /\ used \subseteq used' /\ handed \subseteq handed' /\ handed' \subseteq used'
         /\ born' \subseteq used'
         /\ \A i \in handed' \ handed : Creating(t) /\ i = call[t].new
         /\ \A i \in born' \ born : Creating(t) /\ i = call[t].new
         /\ \A i \in used' \ used : pc[t] = "create"
<1> USE DEF redisVars, historyVars
<1>0. /\ handed \subseteq used /\ born \subseteq used
      /\ Creating(t) => call[t].new \in used
  BY DEF IInv, Fresh
<1>1. CASE CreateWrite(t)
  BY <1>0, <1>1 DEF CreateWrite
<1>2. CASE CreateDeadline(t)
  BY <1>0, <1>2 DEF CreateDeadline, Creating
<1>3. CASE Adopt(t)
  BY <1>0, <1>3 DEF Adopt, Creating
<1>4. CASE UNCHANGED <<used, handed, born>>
  BY <1>0, <1>4
<1>5. CASE \/ Anonymous(t) \/ LoadExpire(t) \/ LoadTtl(t) \/ Tidy(t)
           \/ \E i \in Id, refresh \in BOOLEAN, modern \in HasHsetex : Load(t, i, refresh, modern)
           \/ \E s \in Who : Create(t, s) \/ Rotate(t, s)
  BY <1>4, <1>5 DEF Anonymous, Load, LoadExpire, LoadTtl, Tidy, Create, Rotate
<1>6. CASE \/ CreateExpire(t) \/ Save(t) \/ SaveExpire(t) \/ IndexAdd(t) \/ IndexExpire(t)
           \/ Touch(t)
  BY <1>4, <1>6 DEF CreateExpire, Save, SaveExpire, IndexAdd, IndexExpire, Touch
<1>7. CASE \/ RotateDrop(t) \/ Revoke(t) \/ RevokeDrop(t) \/ Revoked(t) \/ KillKey(t)
           \/ KillDrop(t) \/ KillMany(t) \/ IndexClear(t)
           \/ \E i \in Id, s \in Subject : RevokeId(t, i, s)
  BY <1>4, <1>7 DEF RotateDrop, Revoke, RevokeDrop, Revoked, RevokeId, KillKey, KillDrop,
     KillMany, IndexClear
<1>8. CASE \/ Verify(t) \/ Prune(t) \/ Fail(t) \/ Leave(t)
           \/ \E s \in Subject : RevokeAll(t, s) \/ List(t, s)
  BY <1>4, <1>8 DEF RevokeAll, List, Verify, Prune, Fail, Leave
<1>. QED
  BY <1>1, <1>2, <1>3, <1>5, <1>6, <1>7, <1>8 DEF Step

\* Only the identifier a task is creating can become open.
LEMMA NothingReopens ==
  ASSUME IInv, NEW t \in Task, Step(t), NEW i \in Id, Open(i)'
  PROVE  /\ KeySeen(i)' /\ i \in born'
         /\ \/ Open(i)
            \/ Creating(t) /\ pc[t] # "adopt" /\ i = call[t].new
<1>0. TypeOK /\ Targets /\ Fresh /\ (Open(i) => i \in born)
  BY DEF IInv, Fresh
<1>1. CASE KeysKept /\ born' = born
  BY <1>0, <1>1 DEF KeysKept
<1>2. CASE (\E j \in Id : rec' = DelKey(j)) /\ born' = born
  BY <1>0, <1>2 DEF DelKey, Open, KeySeen, NoKey, Absent, TypeOK, Fresh
<1>3. CASE CreateDeadline(t)
  <2>1. call[t].new \in Id /\ rec' = ExpireKey(call[t].new)
    BY <1>0, <1>3 DEF CreateDeadline, Targets
  <2>2. Creating(t) /\ pc[t] # "adopt"
    BY <1>3 DEF CreateDeadline, Creating
  <2>3. i # call[t].new => Open(i) /\ rec'[i] = rec[i] /\ born \subseteq born'
    BY <1>0, <1>3, <2>1 DEF ExpireKey, TypeOK, Open, CreateDeadline
  <2>4. i = call[t].new => KeySeen(i) /\ i \in born'
    BY <1>0, <1>3, <2>1 DEF ExpireKey, TypeOK, Open, CreateDeadline, Fresh, KeySeen
  <2>5. i = call[t].new => KeySeen(i)'
    BY <1>0, <2>1, <2>4, ClocksAssumption DEF ExpireKey, TypeOK, KeySeen, Key
  <2>. QED
    BY <1>0, <2>2, <2>3, <2>4, <2>5 DEF Fresh, KeySeen
<1>4. CASE KeysKept /\ CreateWrite(t)
  BY <1>0, <1>4 DEF KeysKept, CreateWrite
<1>. QED
  BY <1>0, <1>1, <1>2, <1>3, <1>4, KeyEffects

\* An identifier being created was being created before, or has just been drawn.
LEMMA NewIsDrawn ==
  ASSUME IInv, NEW t \in Task, Step(t), Creating(t)'
  PROVE  \/ Creating(t) /\ call'[t].new = call[t].new
         \/ call'[t].new \notin used
<1> USE DEF Goto, EnterCall, Return, CanCall, redisVars, historyVars
<1>0. TypeOK
  BY DEF IInv
<1>1. CASE \/ Anonymous(t) \/ LoadExpire(t) \/ LoadTtl(t) \/ Tidy(t)
           \/ \E i \in Id, refresh \in BOOLEAN, modern \in HasHsetex : Load(t, i, refresh, modern)
           \/ \E s \in Who : Create(t, s) \/ Rotate(t, s)
  BY <1>0, <1>1 DEF Anonymous, Load, LoadExpire, LoadTtl, Tidy, Create, Rotate, TypeOK, Creating
<1>2. CASE CreateWrite(t)
  BY <1>0, <1>2 DEF CreateWrite, TypeOK, Call
<1>3. CASE CreateExpire(t) \/ CreateDeadline(t) \/ Adopt(t)
  BY <1>0, <1>3 DEF CreateExpire, CreateDeadline, Adopt, TypeOK, Creating
<1>4. CASE Save(t) \/ SaveExpire(t) \/ IndexAdd(t) \/ IndexExpire(t) \/ Touch(t)
  BY <1>0, <1>4 DEF Save, SaveExpire, AfterSave, IndexAdd, IndexExpire, Touch, TypeOK, Creating
<1>5. CASE \/ RotateDrop(t) \/ Revoke(t) \/ RevokeDrop(t) \/ Revoked(t) \/ KillKey(t)
           \/ KillDrop(t) \/ KillMany(t) \/ IndexClear(t)
           \/ \E i \in Id, s \in Subject : RevokeId(t, i, s)
  BY <1>0, <1>5 DEF RotateDrop, Revoke, RevokeDrop, Revoked, RevokeId, KillKey, KillDrop,
     KillMany, IndexClear, TypeOK, Creating
<1>6. CASE \/ Verify(t) \/ Prune(t) \/ Fail(t) \/ Leave(t)
           \/ \E s \in Subject : RevokeAll(t, s) \/ List(t, s)
  BY <1>0, <1>6 DEF RevokeAll, List, Verify, Prune, Fail, Leave, TypeOK, Creating
<1>. QED
  BY <1>1, <1>2, <1>3, <1>4, <1>5, <1>6 DEF Step

\* A step gives a parent only to an identifier it draws: the one the rotation
\* has closed.
LEMMA ParentOfStep ==
  ASSUME IInv, NEW t \in Task, Step(t), NEW i \in Id, parent'[i] # parent[i]
  PROVE  pc[t] = "create" /\ parent'[i] = call[t].old
<1>1. CASE UNCHANGED <<used, born, parent>>
  BY <1>1
<1>2. CASE CreateWrite(t)
  BY <1>2 DEF CreateWrite, IInv, TypeOK
<1>3. CASE CreateDeadline(t)
  BY <1>3 DEF CreateDeadline
<1>. QED
  BY <1>1, <1>2, <1>3, KeyEffects DEF IInv

\* One step of one task keeps the invariant.
LEMMA InvOfStep ==
  ASSUME IInv, NEW t \in Task, Step(t)
  PROVE  IInv'
<1>0. TypeOK /\ Targets /\ Fresh /\ Lines
  BY DEF IInv
<1>1. TypeOK'
  BY <1>0, TypeOfStep
<1>2. ASSUME NEW u \in Task
      PROVE  TaskInv(u)'
  <2>1. CASE u = t
    BY <2>1, TaskInvKept
  <2>2. CASE u # t
    <3>1. pc'[u] = pc[u] /\ call'[u] = call[u] /\ state'[u] = state[u]
      BY <1>0, <2>2, OthersKept
    <3>2. TaskInv(u)
      BY <1>0 DEF TaskInv, Targets, Fresh, Lines, Creating, TypeOK
    <3>3. Creating(u) => call[u].new \notin handed'
      BY <1>0, <2>2, <3>2, HistoryGrows DEF TaskInv, Fresh
    <3>4. Creating(u) /\ pc[u] # "adopt" => call[u].new \notin born'
      BY <1>0, <2>2, <3>2, HistoryGrows DEF TaskInv, Fresh
    <3>5. pc[u] \in {"rotateDrop", "create"} /\ call[u].old # NoId => ~Open(call[u].old)'
      <4> SUFFICES ASSUME pc[u] \in {"rotateDrop", "create"}, call[u].old # NoId,
                          Open(call[u].old)'
                   PROVE  FALSE
        OBVIOUS
      <4>1. PICK i \in handed : i = call[u].old /\ i \in Id /\ ~Open(i)
        BY <1>0, <3>2 DEF TaskInv, TypeOK
      <4>2. Open(i)'
        BY <3>1, <4>1 DEF Open
      <4>3. Creating(t) /\ i = call[t].new
        BY <4>1, <4>2, NothingReopens
      <4>. QED
        BY <1>0, <4>1, <4>3 DEF Fresh
    <3>. QED
      BY <3>1, <3>2, <3>3, <3>4, <3>5, HistoryGrows DEF TaskInv, Creating, Open
  <2>. QED
    BY <2>1, <2>2
<1>3. ASSUME NEW u \in Task, NEW v \in Task, u # v, Creating(u)', Creating(v)'
      PROVE  call'[u].new # call'[v].new
  <2>1. \A w \in Task \ {t} : Creating(w)' => /\ Creating(w) /\ call'[w] = call[w]
                                             /\ call[w].new \in used
    BY <1>0, OthersKept DEF Creating, Fresh
  <2>2. Creating(t)' => \/ Creating(t) /\ call'[t].new = call[t].new
                        \/ call'[t].new \notin used
    BY NewIsDrawn
  <2>. QED
    BY <1>0, <1>3, <2>1, <2>2 DEF Fresh
<1>4. ASSUME NEW i \in Id, parent'[i] # NoId
      PROVE  parent'[i] \in handed' /\ ~Open(parent[i])'
  <2>1. \A j \in handed : ~Open(j) => ~Open(j)'
    BY <1>0, NothingReopens DEF Fresh, TypeOK
  <2>2. parent'[i] \in handed /\ ~Open(parent'[i])
    BY <1>0, <1>4, ParentOfStep DEF Lines
  <2>3. parent'[i] \in handed' /\ ~(rec'[parent'[i]].ttl > 0)
    BY <2>1, <2>2, HistoryGrows DEF Open
  <2>. QED
    BY <2>3 DEF Open
<1>5. handed' \subseteq used' /\ born' \subseteq used'
  BY HistoryGrows
<1>6. \A i \in Id : Open(i)' => i \in born' /\ KeySeen(i)'
  BY NothingReopens
<1>7. Targets'
  BY <1>2 DEF Targets, TaskInv, Creating
<1>8. Fresh'
  BY <1>2, <1>3, <1>5, <1>6 DEF Fresh, TaskInv
<1>9. Lines'
  BY <1>2, <1>4 DEF Lines, TaskInv
<1>. QED
  BY <1>1, <1>7, <1>8, <1>9 DEF IInv

\* The clock keeps the invariant: it opens nothing.
LEMMA InvOfClock ==
  ASSUME IInv, Tick \/ \E i \in Id : Reap(i)
  PROVE  IInv'
<1>0. TypeOK /\ Targets /\ Fresh /\ Lines
  BY DEF IInv
<1>1. TypeOK'
  BY <1>0, TypeOfTick
<1>2. UNCHANGED <<used, handed, pc, state, call, historyVars>>
  BY DEF Tick, Reap
<1>3. ASSUME NEW i \in Id, Open(i)'
      PROVE  Open(i) /\ KeySeen(i)'
  <2>1. CASE Tick
    BY <1>0, <1>3, <2>1, TickEffects
  <2>2. CASE \E j \in Id : Reap(j)
    BY <1>0, <1>3, <2>2 DEF Reap, DelKey, Open, KeySeen, NoKey, Absent, Fresh, TypeOK
  <2>. QED
    BY <2>1, <2>2
<1>4. Targets'
  BY <1>0, <1>2 DEF Targets
<1>5. Fresh'
  BY <1>0, <1>2, <1>3 DEF Fresh, Creating, historyVars
<1>6. Lines'
  BY <1>0, <1>2, <1>3 DEF Lines, historyVars, Fresh, TypeOK
<1>. QED
  BY <1>1, <1>4, <1>5, <1>6 DEF IInv

\* Every command of an operation, every crash, expiry and tick of the clock, and
\* every stuttering step, keeps the inductive invariant.
LEMMA InvStep == IInv /\ [Next]_vars => IInv'
<1> SUFFICES ASSUME IInv, [Next]_vars
             PROVE  IInv'
  OBVIOUS
<1>1. CASE \E t \in Task : Step(t)
  BY <1>1, InvOfStep
<1>2. CASE Tick \/ \E i \in Id : Reap(i)
  BY <1>2, InvOfClock
<1>3. CASE UNCHANGED vars
  BY <1>3 DEF vars, IInv, TypeOK, Targets, Fresh, Lines, Creating, Open, KeySeen
<1>. QED
  BY <1>1, <1>2, <1>3 DEF Next

-----------------------------------------------------------------------------
(***************************************************************************)
(* The theorems                                                            *)
(***************************************************************************)

\* IInv holds in every reachable state of session_backend.py's store: every
\* variable has its type, only the create in progress knows the identifier it
\* draws, and what a rotation replaces was closed first.
THEOREM InvariantHolds == Spec => []IInv
<1>. QED
  BY InvInit, InvStep, PTL DEF Spec

\* Type correctness.
THEOREM TypeCorrect == Spec => []TypeOK
<1>1. IInv => TypeOK
  BY DEF IInv
<1>. QED
  BY <1>1, InvariantHolds, PTL

\* The rotation rule of SessionStore.rotate: an identifier and its replacement
\* never both work, for any number of requests, identifiers and failures.
THEOREM RotationSafe == Spec => []OneIdPerLine
<1>1. IInv => OneIdPerLine
  BY DEF IInv, Lines, OneIdPerLine
<1>. QED
  BY <1>1, InvariantHolds, PTL

\* "No number of writes can extend the key's TTL": a working identifier's
\* deadline is moved by no command, neither on nor back; only the clock spends
\* its time.  And one that does not work starts to only as the identifier that
\* a create has drawn and given its deadline.
DeadlineFixed ==
  [][\A i \in Id : Open(i)' =>
        IF Open(i) THEN rec'[i].ttl = IF Tick THEN rec[i].ttl - 1 ELSE rec[i].ttl
                   ELSE i \notin born /\ i \in born']_vars

\* The absolute clock cannot be moved, for any number of overlapping writes,
\* loads and rotations, on either command set and wherever a command fails.
THEOREM DeadlineNeverMoves == Spec => DeadlineFixed
<1>1. IInv /\ [Next]_vars =>
        [\A i \in Id : Open(i)' =>
           IF Open(i) THEN rec'[i].ttl = IF Tick THEN rec[i].ttl - 1 ELSE rec[i].ttl
                      ELSE i \notin born /\ i \in born']_vars
  <2> SUFFICES ASSUME IInv, Next, NEW i \in Id, Open(i)'
               PROVE  IF Open(i) THEN rec'[i].ttl = IF Tick THEN rec[i].ttl - 1
                                                            ELSE rec[i].ttl
                                 ELSE i \notin born /\ i \in born'
    OBVIOUS
  <2>0. TypeOK /\ Targets /\ Fresh
    BY DEF IInv
  <2>1. CASE Tick
    BY <2>0, <2>1, TickEffects
  <2>2. CASE ~Tick /\ \E j \in Id : Reap(j)
    BY <2>0, <2>2 DEF Reap, DelKey, TypeOK, Open, NoKey, Absent
  <2>3. CASE ~Tick /\ \E t \in Task : Step(t)
    <3>1. PICK t \in Task : Step(t)
      BY <2>3
    <3>2. CASE KeysKept
      BY <2>3, <3>2 DEF KeysKept, TimeLeft
    <3>3. CASE \E j \in Id : rec' = DelKey(j)
      BY <2>0, <2>3, <3>3 DEF DelKey, TypeOK, Open, NoKey, Absent
    <3>4. CASE CreateDeadline(t)
      <4>1. /\ call[t].new \in Id \ born /\ ~Open(call[t].new)
            /\ rec' = ExpireKey(call[t].new)
        BY <2>0, <3>4 DEF Targets, Fresh, CreateDeadline, Creating
      <4>2. CASE i = call[t].new /\ KeySeen(i)
        BY <3>4, <4>1, <4>2 DEF CreateDeadline
      <4>3. CASE i # call[t].new \/ ~KeySeen(i)
        <5>1. rec'[i] = rec[i]
          BY <2>0, <4>1, <4>3 DEF ExpireKey, TypeOK
        <5>. QED
          BY <2>3, <5>1 DEF Open
      <4>. QED
        BY <4>2, <4>3
    <3>. QED
      BY <2>0, <3>1, <3>2, <3>3, <3>4, KeyEffects
  <2>. QED
    BY <2>1, <2>2, <2>3 DEF Next
<1>. QED
  BY <1>1, InvariantHolds, PTL DEF Spec, DeadlineFixed

-----------------------------------------------------------------------------
(***************************************************************************)
(* SessionStore implements SessionLifecycle                                *)
(***************************************************************************)

\* Where nothing that SessionLifecycle sees has changed, nothing happened.
LEMMA LifeStutter ==
  ASSUME \A i \in Id : Phase(i)' = Phase(i) /\ TimeLeft(i)' = TimeLeft(i)
                       /\ Origin(i)' = Origin(i)
  PROVE  UNCHANGED Life!lifeVars
<1> DEFINE P(i) == Phase(i)
           L(i) == TimeLeft(i)
           O(i) == Origin(i)
<1>1. \A i \in Id : P(i)' = P(i) /\ L(i)' = L(i) /\ O(i)' = O(i)
  OBVIOUS
<1> HIDE DEF P, L, O
<1>2. /\ [i \in Id |-> P(i)]' = [i \in Id |-> P(i)]
      /\ [i \in Id |-> L(i)]' = [i \in Id |-> L(i)]
      /\ [i \in Id |-> O(i)]' = [i \in Id |-> O(i)]
  BY <1>1
<1>. QED
  BY <1>2 DEF Life!lifeVars, P, L, O

\* A deletion ends the identifier if it was open, and is nothing otherwise.
LEMMA LifeDelete ==
  ASSUME IInv, NEW j \in Id, rec' = DelKey(j), UNCHANGED <<born, parent>>
  PROVE  Life!End(j) \/ UNCHANGED Life!lifeVars
<1>0. TypeOK /\ Fresh
  BY DEF IInv
<1>1. /\ ~Open(j)'
      /\ \A i \in Id \ {j} : rec'[i] = rec[i]
  BY <1>0 DEF DelKey, TypeOK, Open, NoKey, Absent
<1>2. CASE ~Open(j)
  BY <1>1, <1>2, LifeStutter DEF Phase, TimeLeft, Origin, Open
<1>3. CASE Open(j)
  BY <1>0, <1>1, <1>3 DEF Life!End, Phase, TimeLeft, Origin, Open, Fresh
<1>. QED
  BY <1>2, <1>3

\* The EXPIRE that ends a create issues the identifier, when the key it names
\* is still there; the rotation it is part of has closed the old one.
LEMMA LifeIssue ==
  ASSUME IInv, NEW t \in Task, CreateDeadline(t)
  PROVE  (\E i \in Id, p \in MaybeId : Life!Issue(i, p)) \/ UNCHANGED Life!lifeVars
<1> DEFINE j == call[t].new
<1>0. TypeOK /\ Fresh /\ Lines /\ j \in Id /\ j \notin born /\ ~Open(j)
  BY DEF IInv, Targets, Fresh, CreateDeadline, Creating
<1>1. parent' = parent /\ rec' = ExpireKey(j)
  BY DEF CreateDeadline
<1>2. CASE ~KeySeen(j)
  <2>1. rec' = rec /\ born' = born
    BY <1>1, <1>2 DEF ExpireKey, CreateDeadline
  <2>. QED
    BY <1>1, <2>1, LifeStutter DEF Phase, TimeLeft, Origin, Open
<1>3. CASE KeySeen(j)
  <2>1. born' = born \cup {j} /\ rec'[j].ttl = AbsoluteTTL
    BY <1>0, <1>1, <1>3 DEF ExpireKey, CreateDeadline, TypeOK, Key
  <2>2. \A i \in Id \ {j} : rec'[i] = rec[i]
    BY <1>0, <1>1, <1>3 DEF ExpireKey, TypeOK
  <2>3. parent[j] \in MaybeId /\ (parent[j] # NoId => parent[j] \in Id /\ ~Open(parent[j]))
    BY <1>0 DEF TypeOK, MaybeId, Lines
  <2>4. Life!Issue(j, parent[j])
    <3>1. AbsoluteTTL > 0
      BY ClocksAssumption
    <3>2. Phase(j) = "unborn" /\ (parent[j] # NoId => Phase(parent[j]) # "open")
      BY <1>0, <2>3 DEF Phase
    <3>. HIDE DEF j
    <3>3. rec'[j].ttl > 0
      BY <2>1, <3>1
    <3>. QED
      BY <1>0, <1>1, <2>1, <2>2, <2>3, <3>1, <3>2, <3>3
         DEF Life!Issue, Phase, TimeLeft, Origin, Open
  <2>. QED
    BY <1>0, <2>3, <2>4
<1>. QED
  BY <1>2, <1>3

\* A tick of the clock passes for every identifier; those it closes end.
LEMMA LifeTick ==
  ASSUME IInv, Tick
  PROVE  \E S \in SUBSET Id : Life!Pass(S)
<1> DEFINE S == {i \in Id : Open(i) /\ ~(rec'[i].ttl > 0)}
<1>0. TypeOK /\ Fresh /\ born' = born /\ parent' = parent
  BY DEF IInv, Tick, historyVars
<1>1. \A i \in Id : rec'[i].ttl > 0 =>
         Open(i) /\ rec[i].ttl > 1 /\ rec'[i].ttl = rec[i].ttl - 1
  BY <1>0, TickEffects DEF Open
<1>2. \A i \in Id : Open(i) => i \in born
  BY <1>0 DEF Fresh
<1>3. \A i \in S : Phase(i) = "open"
  BY DEF Phase
<1>4. \A i \in Id : Phase(i) = "open" /\ TimeLeft(i) = 1 => i \in S
  BY <1>1 DEF Phase, TimeLeft
<1>5. \A i \in Id : Phase(i)' = IF i \in S THEN "over" ELSE Phase(i)
  BY <1>0, <1>1, <1>2 DEF Phase, Open
<1>6. \A i \in Id : TimeLeft(i)' = IF i \in S THEN 0
                                   ELSE IF Phase(i) = "open" THEN TimeLeft(i) - 1
                                   ELSE TimeLeft(i)
  BY <1>0, <1>1 DEF TimeLeft, Phase, Open
<1>7. \A i \in Id : Origin(i)' = Origin(i)
  BY <1>0 DEF Origin
<1>8. Life!Pass(S)
  BY <1>3, <1>4, <1>5, <1>6, <1>7 DEF Life!Pass
<1>. QED
  BY <1>8

\* Every step of the store is a step of SessionLifecycle, or none.
LEMMA LifeStep == IInv /\ [Next]_vars => [Life!LifeNext]_(Life!lifeVars)
<1> SUFFICES ASSUME IInv, [Next]_vars
             PROVE  Life!LifeNext \/ UNCHANGED Life!lifeVars
  OBVIOUS
<1> USE DEF Life!LifeNext
<1>1. ASSUME NEW t \in Task, Step(t)
      PROVE  Life!LifeNext \/ UNCHANGED Life!lifeVars
  <2>1. CASE KeysKept /\ UNCHANGED <<used, born, parent>>
    BY <2>1, LifeStutter DEF KeysKept, Phase, Origin
  <2>2. CASE KeysKept /\ CreateWrite(t)
    <3>1. born' = born /\ \A i \in born : parent'[i] = parent[i]
      BY <2>2 DEF CreateWrite, IInv, Fresh, TypeOK
    <3>. QED
      BY <2>2, <3>1, LifeStutter DEF KeysKept, Phase, Origin
  <2>3. CASE (\E i \in Id : rec' = DelKey(i)) /\ UNCHANGED <<used, born, parent>>
    BY <2>3, LifeDelete
  <2>4. CASE CreateDeadline(t)
    BY <2>4, LifeIssue DEF MaybeId
  <2>. QED
    BY <1>1, <2>1, <2>2, <2>3, <2>4, KeyEffects DEF IInv
<1>2. CASE Tick
  BY <1>2, LifeTick
<1>3. CASE \E i \in Id : Reap(i)
  BY <1>3, LifeDelete DEF Reap, historyVars
<1>4. CASE UNCHANGED vars
  BY <1>4, LifeStutter DEF vars, Phase, TimeLeft, Origin, Open
<1>. QED
  BY <1>1, <1>2, <1>3, <1>4 DEF Next

\* No identifier is open before anything has been created.
LEMMA LifeStart == Init => Life!LifeInit
<1> SUFFICES ASSUME Init
             PROVE  Life!LifeInit
  OBVIOUS
<1>0. \A i \in Id : ~Open(i) /\ i \notin born
  <2>1. born = {} /\ Fresh
    BY InvInit DEF Init, IInv
  <2>. QED
    BY <2>1 DEF Fresh
<1>1. \A i \in Id : Phase(i) = "unborn" /\ TimeLeft(i) = 0 /\ Origin(i) = NoId
  BY <1>0 DEF Phase, TimeLeft, Origin
<1>. QED
  BY <1>1 DEF Life!LifeInit, Phase, TimeLeft, Origin

\* The store of session_backend.py implements the lifecycle of an identifier:
\* issued once, its deadline never moved by any write, over for good once it is
\* over, and replaced only after it has been closed.
THEOREM StoreImplementsLifecycle == Spec => ImplementsLifecycle
<1>. QED
  BY LifeStart, LifeStep, InvariantHolds, PTL DEF Spec, ImplementsLifecycle, Life!LifeSpec

=============================================================================

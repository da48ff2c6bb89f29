------------------------- MODULE SessionIndexProofs -------------------------
(***************************************************************************)
(* Proofs about what SessionStore's index, listings and tidying promise,   *)
(* for every set of identifiers, subjects and tasks and every subset of    *)
(* the operations.                                                         *)
(*                                                                         *)
(* The argument is that a step deletes a key or an entry on the strength   *)
(* of something it read before, and that what it read cannot have become   *)
(* false: an identifier that was handed out and is closed stays closed     *)
(* (Shut), whoever still writes it.                                        *)
(***************************************************************************)
EXTENDS SessionStoreProofs

\* A request may know this identifier, and no load will accept it again.
Shut(i) == i \in handed /\ ~Open(i)

\* Every write finds HSETEX.
Hsetex == HasHsetex = {TRUE}

\* Redis removes a hash with its last field.
Eager == ~LazyFields
Redis8 == Hsetex /\ ~LazyFields

\* What the state of a task says of an open session is what its key says.
KnowsKey(t, i) == state[t].subject = rec[i].who /\ state[t].left >= rec[i].ttl

\* What a task has read, in the middle of an operation.
Reading(t) ==
  /\ Hsetex => pc[t] \notin {"loadExpire", "createExpire", "saveExpire", "indexExpire"}
  /\ pc[t] \in {"index", "indexExpire"} =>
       call[t].id \in handed /\ call[t].id = state[t].sid /\ call[t].arg = state[t].subject
         /\ call[t].arg \in Subject
  /\ pc[t] \in {"createExpire", "createDeadline", "adopt"} /\ KeySeen(call[t].new) =>
       rec[call[t].new].who = call[t].arg
  /\ \A i \in Id : state[t].sid = i /\ Open(i) => KnowsKey(t, i)
  /\ pc[t] \in {"loadExpire", "loadTtl"} /\ call[t].raw /\ Open(call[t].id) =>
       call[t].arg = rec[call[t].id].who

\* What a task holds to be dead.
Deadly(t) ==
  /\ Eager /\ pc[t] \in {"loadExpire", "loadTtl"} /\ ~call[t].raw => Shut(call[t].id)
  /\ Eager /\ pc[t] = "tidy" => Shut(call[t].id)
  /\ pc[t] = "killKey" => call[t].id \in handed
  /\ pc[t] = "killDrop" => Shut(call[t].id)
  /\ pc[t] = "revokeDrop" => Shut(state[t].sid)
  /\ pc[t] \in {"killMany", "clear"} =>
       /\ call[t].members \subseteq handed
       /\ \A i \in call[t].members : i \in call[t].todo \/ Shut(i)
  /\ pc[t] = "clear" => call[t].todo = {}
  /\ pc[t] = "verify" => call[t].todo \subseteq handed
  /\ Redis8 /\ pc[t] \in {"verify", "prune"} => \A i \in call[t].members : Shut(i)

\* The fields of keys, and the entries of the index.
Fields ==
  /\ Eager => \A i \in Id : rec[i].idle # 0
  /\ Hsetex => \A i \in Id : rec[i].idle # NoTTL
Entries ==
  /\ indexed \subseteq handed
  /\ \A s \in Subject, i \in Id : index[s][i] # Absent => i \in handed
  /\ Redis8 => \A s \in Subject, i \in indexed \ swept :
       Open(i) /\ rec[i].who = s => index[s][i] >= rec[i].ttl

IndexInv ==
  /\ Fields
  /\ Entries
  /\ \A t \in Task : Reading(t) /\ Deadly(t)

-----------------------------------------------------------------------------
(***************************************************************************)
(* What a step does to a key                                               *)
(***************************************************************************)

\* The steps that delete a session key.
Deletion(t) ==
  \/ Tidy(t) \/ Revoke(t) \/ KillKey(t) \/ KillMany(t)
  \/ \E s \in Who : Rotate(t, s)

\* The commands a step of a task may send to session keys.
LEMMA Commands ==
  ASSUME IInv, NEW t \in Task, Step(t)
  PROVE  \/ rec' = rec
         \/ \E i \in MaybeId : rec' = ExpireField(i)
         \/ (\E i \in Id : rec' = DelKey(i)) /\ Deletion(t)
         \/ CreateDeadline(t) /\ rec' = ExpireKey(call[t].new)
         \/ /\ CreateWrite(t)
            /\ \E i \in Id \ used, modern \in HasHsetex :
                 rec' = WriteField(i, call[t].arg, modern) /\ call'[t].new = i
         \/ /\ Save(t) /\ state[t].sid \in Id
            /\ \E modern \in HasHsetex :
                 rec' = WriteField(state[t].sid, state[t].subject, modern)
<1> USE TaskTypes DEF historyVars, redisVars
<1>0. TypeOK /\ Targets
  BY DEF IInv
<1>1. CASE \/ Anonymous(t) \/ LoadTtl(t) \/ Adopt(t) \/ IndexAdd(t) \/ IndexExpire(t)
           \/ RotateDrop(t) \/ RevokeDrop(t) \/ Revoked(t) \/ KillDrop(t) \/ IndexClear(t)
           \/ Verify(t) \/ Prune(t) \/ Fail(t) \/ Leave(t)
           \/ \E s \in Who : Create(t, s)
           \/ \E i \in Id, s \in Subject : RevokeId(t, i, s)
           \/ \E s \in Subject : RevokeAll(t, s) \/ List(t, s)
  BY <1>1 DEF Anonymous, LoadTtl, Adopt, IndexAdd, IndexExpire, RotateDrop, RevokeDrop,
     Revoked, KillDrop, IndexClear, Verify, Prune, Fail, Leave, Create, RevokeId, RevokeAll,
     List
<1>2. CASE \E i \in Id, refresh \in BOOLEAN, modern \in HasHsetex : Load(t, i, refresh, modern)
  BY <1>2 DEF Load, MaybeId
<1>3. CASE LoadExpire(t) \/ CreateExpire(t) \/ SaveExpire(t) \/ Touch(t)
  BY <1>0, <1>3 DEF LoadExpire, CreateExpire, SaveExpire, Touch
<1>4. CASE CreateWrite(t)
  <2>1. PICK i \in Id \ used, modern \in HasHsetex :
             /\ rec' = WriteField(i, call[t].arg, modern)
             /\ EnterCall(t, [call[t] EXCEPT !.new = i])
    BY <1>4 DEF CreateWrite
  <2>2. call'[t].new = i
    BY <1>0, <2>1 DEF EnterCall, TypeOK, Call
  <2>. QED
    BY <1>4, <2>1, <2>2
<1>5. CASE Tidy(t) \/ KillKey(t) \/ Revoke(t) \/ KillMany(t)
  BY <1>0, <1>5 DEF Tidy, KillKey, Revoke, KillMany, Targets, MaybeId, Deletion
<1>6. CASE \E s \in Who : Rotate(t, s)
  BY <1>0, <1>6 DEF Rotate, MaybeId, Deletion
<1>7. CASE CreateDeadline(t)
  BY <1>7 DEF CreateDeadline
<1>8. CASE Save(t)
  BY <1>0, <1>8 DEF Save, MaybeId
<1>. QED
  BY <1>1, <1>2, <1>3, <1>4, <1>5, <1>6, <1>7, <1>8 DEF Step

\* Whose session a key holds is decided by whoever writes its field.
LEMMA WhoWrites ==
  ASSUME IInv, NEW t \in Task, Step(t), NEW i \in Id, KeySeen(i)'
  PROVE  \/ KeySeen(i) /\ rec'[i].who = rec[i].who
         \/ CreateWrite(t) /\ i \notin used /\ i = call'[t].new /\ rec'[i].who = call[t].arg
         \/ Save(t) /\ i = state[t].sid /\ rec'[i].who = state[t].subject
<1>0. rec \in [Id -> Key]
  BY DEF IInv, TypeOK
<1>1. CASE rec' = rec
  BY <1>1 DEF KeySeen
<1>2. CASE \E j \in MaybeId : rec' = ExpireField(j)
  BY <1>0, <1>2 DEF KeySeen, ExpireField, FieldSeen, Key, NoTTL, Absent
<1>3. CASE \E j \in Id : rec' = DelKey(j)
  BY <1>0, <1>3 DEF KeySeen, DelKey, NoKey, Absent
<1>4. CASE rec' = ExpireKey(call[t].new)
  BY <1>0, <1>4 DEF KeySeen, ExpireKey, Key
<1>5. CASE CreateWrite(t) /\ \E j \in Id \ used, modern \in HasHsetex :
             rec' = WriteField(j, call[t].arg, modern) /\ call'[t].new = j
  BY <1>0, <1>5 DEF KeySeen, WriteField
<1>6. CASE /\ Save(t)
           /\ \E modern \in HasHsetex : rec' = WriteField(state[t].sid, state[t].subject, modern)
  BY <1>0, <1>6 DEF KeySeen, WriteField
<1>. QED
  BY <1>1, <1>2, <1>3, <1>4, <1>5, <1>6, Commands

\* A field keeps a clock, where the server gives it one with the value.
LEMMA FieldsOfStep ==
  ASSUME IInv, Fields, NEW t \in Task, Step(t)
  PROVE  Fields'
<1> USE ClocksAssumption DEF Absent, NoTTL
<1>0. rec \in [Id -> Key]
  BY DEF IInv, TypeOK
<1>1. CASE rec' = rec
  BY <1>1 DEF Fields, Eager
<1>2. CASE \E j \in MaybeId : rec' = ExpireField(j)
  BY <1>0, <1>2 DEF Fields, Eager, ExpireField, FieldSeen, Key
<1>3. CASE \E j \in Id : rec' = DelKey(j)
  BY <1>0, <1>3 DEF Fields, Eager, DelKey, NoKey
<1>4. CASE rec' = ExpireKey(call[t].new)
  BY <1>0, <1>4 DEF Fields, Eager, ExpireKey, Key
<1>5. CASE \E j \in MaybeId, s \in Who, modern \in HasHsetex : rec' = WriteField(j, s, modern)
  <2>1. PICK j \in MaybeId, s \in Who, modern \in HasHsetex : rec' = WriteField(j, s, modern)
    BY <1>5
  <2>2. \A i \in Id : \/ rec'[i].idle = rec[i].idle
                      \/ rec'[i].idle = IF modern THEN IdleTTL ELSE -1
    BY <1>0, <2>1 DEF WriteField
  <2>3. Hsetex => modern
    BY DEF Hsetex
  <2>. QED
    BY <2>2, <2>3 DEF Fields, Eager
<1>. QED
  BY <1>1, <1>2, <1>3, <1>4, <1>5, Commands, TaskTypes DEF IInv, MaybeId

\* An identifier that is out and closed stays closed.
LEMMA ShutStays ==
  ASSUME IInv, NEW t \in Task, Step(t), NEW i \in Id, Shut(i)
  PROVE  Shut(i)'
<1>1. i \in handed'
  BY HistoryGrows DEF Shut
<1>2. ~Open(i)'
  BY NothingReopens DEF Shut, IInv, Fresh
<1>. QED
  BY <1>1, <1>2 DEF Shut

\* An identifier that is out and open keeps its deadline and its subject.
LEMMA OpenStays ==
  ASSUME IInv, NEW t \in Task, Reading(t), Step(t), NEW i \in handed, Open(i)'
  PROVE  Open(i) /\ rec'[i].who = rec[i].who /\ rec'[i].ttl = rec[i].ttl
<1>0. i \in Id /\ i \in used /\ TypeOK /\ Targets /\ Fresh
  BY DEF IInv, TypeOK, Fresh
<1>1. Open(i) /\ KeySeen(i)'
  BY <1>0, NothingReopens DEF Fresh
<1>2. rec'[i].who = rec[i].who
  BY <1>0, <1>1, WhoWrites DEF Reading, KnowsKey
<1>3. rec'[i].ttl = rec[i].ttl
  <2>1. CASE KeysKept
    BY <1>0, <1>1, <2>1 DEF KeysKept, TimeLeft
  <2>2. CASE \E j \in Id : rec' = DelKey(j)
    BY <1>0, <2>2 DEF DelKey, NoKey, Absent, Open, TypeOK
  <2>3. CASE CreateDeadline(t)
    <3>1. call[t].new # i
      BY <1>0, <2>3 DEF CreateDeadline, Fresh, Creating
    <3>. QED
      BY <1>0, <2>3, <3>1 DEF CreateDeadline, ExpireKey, TypeOK
  <2>. QED
    BY <1>0, <2>1, <2>2, <2>3, KeyEffects
<1>. QED
  BY <1>1, <1>2, <1>3

\* Two replies that prove a key dead: no payload for a load, no time left for
\* a listing.
LEMMA ProofOfDeath ==
  ASSUME IInv, Fields, NEW i \in handed
  PROVE  /\ Eager /\ ~FieldSeen(i) => Shut(i)
         /\ Redis8 /\ ~AliveReply(i) => Shut(i)
<1>1. rec[i].idle \in Absent..IdleTTL /\ rec[i].ttl \in Absent..AbsoluteTTL
  BY DEF IInv, TypeOK, Key
<1>2. /\ Open(i) => KeySeen(i)
      /\ Eager => rec[i].idle # 0
      /\ Hsetex => rec[i].idle # NoTTL
  BY DEF IInv, TypeOK, Fresh, Fields
<1>. QED
  BY <1>1, <1>2, ClocksAssumption
     DEF Shut, FieldSeen, AliveReply, KeySeen, Open, Redis8, Eager, Absent, NoTTL

-----------------------------------------------------------------------------
(***************************************************************************)
(* What a task knows                                                       *)
(***************************************************************************)

\* What a task believes to be dead after its own step.
LEMMA DeadlyKept ==
  ASSUME IInv, IndexInv, NEW t \in Task, Step(t)
  PROVE  Deadly(t)'
<1> USE DEF Goto, EnterCall, Return, CanCall, redisVars, historyVars
<1>0. TypeOK /\ Targets /\ Fresh /\ Fields /\ Entries /\ Reading(t) /\ Deadly(t)
  BY DEF IInv, IndexInv
<1>b. /\ \A i \in Id : Shut(i) => i \in handed' /\ ~(rec'[i].ttl > 0)
      /\ handed \subseteq Id /\ handed \subseteq handed'
  BY ShutStays, HistoryGrows DEF IInv, Shut, Open, TypeOK
<1>1. CASE Anonymous(t)
  BY <1>0, <1>1, TaskTypes DEF Anonymous, Deadly, TypeOK
<1>2. CASE \E i \in Id, refresh \in BOOLEAN, modern \in HasHsetex : Load(t, i, refresh, modern)
  <2>1. PICK i \in handed : /\ pc'[t] \in {"loadExpire", "loadTtl"}
                            /\ call'[t].id = i /\ (call'[t].raw <=> FieldSeen(i))
    BY <1>0, <1>2 DEF Load, TypeOK, NoCall
  <2>2. Eager /\ ~FieldSeen(i) => Shut(i)
    BY <1>0, ProofOfDeath
  <2>. QED
    BY <1>b, <2>1, <2>2 DEF Deadly, Shut, Open
<1>3. CASE LoadExpire(t)
  <2>1. pc[t] = "loadExpire" /\ pc'[t] = "loadTtl" /\ call'[t] = call[t] /\ call[t].id \in Id
    BY <1>0, <1>3 DEF LoadExpire, TypeOK, Targets
  <2>2. Eager /\ ~call[t].raw => Shut(call[t].id)
    BY <1>0, <2>1 DEF Deadly
  <2>. QED
    BY <1>b, <2>1, <2>2 DEF Deadly, Shut, Open
<1>4. CASE LoadTtl(t)
  <2>1. /\ pc[t] = "loadTtl" /\ call[t].id \in handed
        /\ pc'[t] = "ready" \/ /\ pc'[t] = "tidy" /\ call'[t] = call[t]
                               /\ ~(call[t].raw /\ Open(call[t].id))
    BY <1>0, <1>4 DEF LoadTtl, TypeOK, Fresh
  <2>2. Eager /\ pc'[t] = "tidy" => Shut(call[t].id)
    BY <1>0, <2>1 DEF Deadly, Shut
  <2>. QED
    BY <1>b, <2>1, <2>2 DEF Deadly, Shut, Open
<1>5. CASE Tidy(t)
  BY <1>0, <1>5, TaskTypes DEF Tidy, Deadly, TypeOK
<1>6. CASE \E s \in Who : Create(t, s)
  BY <1>0, <1>6, TaskTypes DEF Create, Deadly, TypeOK
<1>7. CASE CreateWrite(t)
  BY <1>0, <1>7, TaskTypes DEF CreateWrite, Deadly, TypeOK
<1>8. CASE CreateExpire(t)
  BY <1>0, <1>8, TaskTypes DEF CreateExpire, Deadly, TypeOK
<1>9. CASE CreateDeadline(t)
  BY <1>0, <1>9, TaskTypes DEF CreateDeadline, Deadly, TypeOK
<1>10. CASE Adopt(t)
  BY <1>0, <1>10, TaskTypes DEF Adopt, Deadly, TypeOK
<1>11. CASE Save(t)
  <2>1. pc'[t] \in {"ready", "saveExpire", "index"}
    BY ZenonT(40), <1>0, <1>11 DEF TypeOK, Save, AfterSave
  <2>. QED
    BY <2>1 DEF Deadly
<1>12. CASE SaveExpire(t)
  <2>1. pc'[t] \in {"ready", "saveExpire", "index"}
    BY ZenonT(40), <1>0, <1>12 DEF TypeOK, SaveExpire, AfterSave
  <2>. QED
    BY <2>1 DEF Deadly
<1>13. CASE IndexAdd(t)
  BY <1>0, <1>13, TaskTypes DEF IndexAdd, Deadly, TypeOK
<1>14. CASE IndexExpire(t)
  BY <1>0, <1>14, TaskTypes DEF IndexExpire, Deadly, TypeOK
<1>15. CASE Touch(t)
  BY <1>0, <1>15, TaskTypes DEF Touch, Deadly, TypeOK
<1>16. CASE \E s \in Who : Rotate(t, s)
  BY <1>0, <1>16, TaskTypes DEF Rotate, Deadly, TypeOK
<1>17. CASE RotateDrop(t)
  BY <1>0, <1>17, TaskTypes DEF RotateDrop, Deadly, TypeOK
<1>18. CASE Revoke(t)
  <2>1. pc'[t] \in {"revokeDrop", "revoked"} /\ state'[t] = state[t] /\ state[t].sid \in handed
    BY <1>0, <1>18 DEF Revoke, TypeOK, Fresh
  <2>2. ~(rec'[state[t].sid].ttl > 0)
    BY <1>0, <1>18, <2>1 DEF Revoke, TypeOK, DelKey, NoKey, Absent
  <2>. QED
    BY <1>b, <2>1, <2>2 DEF Deadly, Shut, Open
<1>19. CASE RevokeDrop(t)
  BY <1>0, <1>19, TaskTypes DEF RevokeDrop, Deadly, TypeOK
<1>20. CASE Revoked(t)
  BY <1>0, <1>20, TaskTypes DEF Revoked, Deadly, TypeOK
<1>21. CASE \E i \in Id, s \in Subject : RevokeId(t, i, s)
  <2>1. PICK i \in Id : pc'[t] = "killKey" /\ call'[t].id = i /\ i \in handed
    BY <1>0, <1>21 DEF RevokeId, TypeOK, Members, Entries, NoCall
  <2>. QED
    BY <1>b, <2>1 DEF Deadly
<1>22. CASE KillKey(t)
  <2>1. PICK i \in handed : i = call[t].id /\ pc'[t] = "killDrop" /\ call'[t].id = i
    BY <1>0, <1>22 DEF KillKey, TypeOK, Deadly
  <2>2. ~(rec'[i].ttl > 0)
    BY <1>0, <1>22, <2>1 DEF KillKey, TypeOK, DelKey, NoKey, Absent
  <2>. QED
    BY <1>b, <2>1, <2>2 DEF Deadly, Shut, Open
<1>23. CASE KillDrop(t)
  BY <1>0, <1>23, TaskTypes DEF KillDrop, Deadly, TypeOK
<1>24. CASE \E s \in Subject : RevokeAll(t, s)
  <2>1. PICK s \in Subject : /\ pc'[t] = "killMany"
                             /\ call'[t].members = Members(s) /\ call'[t].todo = Members(s)
    BY <1>0, <1>24 DEF RevokeAll, TypeOK, NoCall
  <2>2. Members(s) \subseteq handed
    BY <1>0 DEF Members, Entries
  <2>. QED
    BY <1>b, <2>1, <2>2 DEF Deadly
<1>25. CASE KillMany(t)
  <2>1. PICK i \in call[t].todo : /\ rec' = DelKey(i)
                                  /\ EnterCall(t, [call[t] EXCEPT !.todo = @ \ {i}])
                                  /\ Goto(t, IF call[t].todo = {i} THEN "clear" ELSE "killMany")
    BY <1>25 DEF KillMany
  <2>2. /\ pc[t] = "killMany" /\ i \in Id
        /\ call'[t].members = call[t].members /\ call'[t].todo = call[t].todo \ {i}
        /\ pc'[t] = "killMany" \/ (pc'[t] = "clear" /\ call[t].todo = {i})
    BY <1>0, <1>25, <2>1, TaskTypes DEF KillMany, TypeOK, Call
  <2>3. ~(rec'[i].ttl > 0)
    BY <1>0, <2>1, <2>2 DEF TypeOK, DelKey, NoKey, Absent
  <2>4. \A j \in call[t].members : j \in handed /\ (j \in call[t].todo \/ Shut(j))
    BY <1>0, <2>2 DEF Deadly
  <2>5. \A j \in call[t].members :
          j \in handed' /\ (j \in call[t].todo \ {i} \/ ~(rec'[j].ttl > 0))
    BY <1>b, <2>3, <2>4
  <2>. QED
    BY <2>2, <2>5 DEF Deadly, Shut, Open
<1>26. CASE IndexClear(t)
  BY <1>0, <1>26, TaskTypes DEF IndexClear, Deadly, TypeOK
<1>27. CASE \E s \in Subject : List(t, s)
  <2>1. PICK s \in Subject : /\ pc'[t] = "verify"
                             /\ call'[t].members = {} /\ call'[t].todo = Members(s)
    BY <1>0, <1>27 DEF List, TypeOK, NoCall
  <2>2. Members(s) \subseteq handed
    BY <1>0 DEF Members, Entries
  <2>. QED
    BY <1>b, <2>1, <2>2 DEF Deadly
<1>28. CASE Verify(t)
  <2>1. PICK i \in call[t].todo, dead \in SUBSET Id :
          /\ dead = call[t].members \cup (IF AliveReply(i) THEN {} ELSE {i})
          /\ \/ pc'[t] = "ready"
             \/ /\ pc'[t] \in {"verify", "prune"}
                /\ call'[t].todo = call[t].todo \ {i} /\ call'[t].members = dead
    <3>1. PICK i \in call[t].todo :
            LET dead == call[t].members \cup (IF AliveReply(i) THEN {} ELSE {i})
                todo == call[t].todo \ {i}
            IN
            \/ Return(t)
            \/ /\ EnterCall(t, [call[t] EXCEPT !.todo = todo, !.members = dead])
               /\ Goto(t, IF todo = {} THEN "prune" ELSE "verify")
      BY <1>28 DEF Verify
    <3>2. PICK dead \in SUBSET Id :
            dead = call[t].members \cup (IF AliveReply(i) THEN {} ELSE {i})
      BY TaskTypes, <1>0
    <3>3. PICK todo \in SUBSET Id : todo = call[t].todo \ {i}
      BY TaskTypes, <1>0
    <3>4. \/ Return(t)
          \/ /\ EnterCall(t, [call[t] EXCEPT !.todo = todo, !.members = dead])
             /\ Goto(t, IF todo = {} THEN "prune" ELSE "verify")
      BY <3>1, <3>2, <3>3
    <3>5. PICK c : c = [call[t] EXCEPT !.todo = todo, !.members = dead]
      OBVIOUS
    <3>6. c.todo = todo /\ c.members = dead
      BY <1>0, <3>5, TaskTypes DEF Call
    <3>7. \/ pc'[t] = "ready"
          \/ pc'[t] \in {"verify", "prune"} /\ call'[t] = c
      BY <1>0, <3>4, <3>5 DEF TypeOK
    <3>. QED
      BY <3>2, <3>3, <3>6, <3>7
  <2>2. pc[t] = "verify" /\ call[t].todo \subseteq handed
    BY <1>0, <1>28 DEF Verify, Deadly
  <2>3. Redis8 /\ ~AliveReply(i) => Shut(i)
    BY <1>0, <2>2, ProofOfDeath
  <2>4. Redis8 => \A j \in dead : Shut(j)
    BY <1>0, <2>1, <2>2, <2>3 DEF Deadly
  <2>5. Redis8 => \A j \in dead : j \in handed' /\ ~(rec'[j].ttl > 0)
    BY <1>b, <2>4
  <2>. QED
    BY <1>b, <2>1, <2>2, <2>5 DEF Deadly, Shut, Open
<1>29. CASE Prune(t)
  <2>1. PICK i \in call[t].members :
          IF call[t].members = {i} THEN Return(t)
          ELSE /\ EnterCall(t, [call[t] EXCEPT !.members = @ \ {i}])
               /\ Goto(t, "prune")
    BY <1>29 DEF Prune
  <2>2. \/ pc'[t] = "ready"
        \/ pc'[t] = "prune" /\ call'[t].members \subseteq call[t].members
    BY <1>0, <2>1 DEF TypeOK, Call
  <2>3. Redis8 => \A j \in call[t].members : j \in Id /\ Shut(j)
    BY <1>0, <1>29, TaskTypes DEF Prune, Deadly
  <2>. QED
    BY <1>b, <2>2, <2>3 DEF Deadly, Shut, Open
<1>30. CASE Fail(t)
  BY <1>0, <1>30, TaskTypes DEF Fail, Deadly, TypeOK
<1>31. CASE Leave(t)
  BY <1>0, <1>31, TaskTypes DEF Leave, Deadly, TypeOK
<1>. QED
  BY <1>1, <1>2, <1>3, <1>4, <1>5, <1>6, <1>7, <1>8, <1>9, <1>10, <1>11, <1>12, <1>13, <1>14, <1>15, <1>16, <1>17, <1>18, <1>19, <1>20, <1>21, <1>22, <1>23, <1>24, <1>25, <1>26, <1>27, <1>28, <1>29, <1>30, <1>31 DEF Step

\* What a task has read, after its own step.
LEMMA ReadingKept ==
  ASSUME IInv, IndexInv, NEW t \in Task, Step(t)
  PROVE  Reading(t)'
<1> USE DEF Goto, EnterCall, Return, CanCall, redisVars, historyVars
<1>0. TypeOK /\ Targets /\ Fresh /\ Reading(t)
  BY DEF IInv, IndexInv
<1>a. \A i \in handed : Open(i)' =>
        Open(i) /\ rec'[i].who = rec[i].who /\ rec'[i].ttl = rec[i].ttl
  BY <1>0, OpenStays
<1>b. handed \subseteq Id /\ handed \subseteq handed'
  BY <1>0, HistoryGrows DEF TypeOK
\* What the state of the task says, where the step leaves it alone.
<1>c. ASSUME state'[t] = state[t], NEW i \in Id, state[t].sid = i, Open(i)'
      PROVE  state[t].subject = rec'[i].who /\ state[t].left >= rec'[i].ttl
  BY <1>0, <1>a, <1>c, IdsAssumption DEF Reading, KnowsKey, Fresh
\* And where it reads nothing either.
<1>d. ASSUME state'[t] = state[t],
             pc'[t] \notin {"loadExpire", "createExpire", "saveExpire", "indexExpire",
                            "index", "createDeadline", "adopt", "loadTtl"}
      PROVE  Reading(t)'
  BY <1>c, <1>d DEF Reading, KnowsKey
<1>1. CASE Anonymous(t)
  BY <1>0, <1>d, <1>1 DEF Anonymous, TypeOK
<1>2. CASE \E i \in Id, refresh \in BOOLEAN, modern \in HasHsetex : Load(t, i, refresh, modern)
  <2>1. PICK i \in handed : /\ pc'[t] = "loadTtl" \/ (~Hsetex /\ pc'[t] = "loadExpire")
                            /\ call'[t].id = i /\ call'[t].arg = rec[i].who
                            /\ state'[t] = state[t]
    <3>1. PICK i \in Id, refresh \in BOOLEAN, modern \in HasHsetex : Load(t, i, refresh, modern)
      BY <1>2
    <3>2. Hsetex => modern
      BY DEF Hsetex
    <3>. QED
      BY <1>0, <3>1, <3>2 DEF Load, TypeOK, NoCall, Goto, EnterCall
  <2>. QED
    BY <1>a, <1>c, <2>1 DEF Reading, KnowsKey
<1>3. CASE LoadExpire(t)
  <2>1. /\ pc[t] = "loadExpire" /\ pc'[t] = "loadTtl" /\ call'[t] = call[t]
        /\ call[t].id \in handed /\ state'[t] = state[t]
    BY <1>0, <1>3 DEF LoadExpire, TypeOK, Fresh
  <2>2. call[t].raw /\ Open(call[t].id) => call[t].arg = rec[call[t].id].who
    BY <1>0, <2>1 DEF Reading
  <2>3. call[t].raw /\ rec'[call[t].id].ttl > 0 => call[t].arg = rec'[call[t].id].who
    BY <1>a, <2>1, <2>2 DEF Open
  <2>. QED
    BY <1>c, <2>1, <2>3 DEF Reading, KnowsKey, Open
<1>4. CASE LoadTtl(t)
  <2>1. CASE pc'[t] = "tidy" /\ state' = state
    BY <1>d, <2>1
  <2>2. CASE pc'[t] = "ready" /\ state' = state
    BY <1>d, <2>2
  <2>3. CASE /\ pc'[t] = "ready" /\ rec' = rec /\ pc[t] = "loadTtl"
             /\ call[t].raw /\ Open(call[t].id)
             /\ state'[t].sid = call[t].id
             /\ state'[t].subject = call[t].arg
             /\ state'[t].left = rec[call[t].id].ttl
    <3>1. call[t].arg = rec[call[t].id].who /\ call[t].id \in Id
      BY <1>0, <2>3 DEF Reading, Targets
    <3>2. rec[call[t].id].ttl >= rec[call[t].id].ttl
      BY <1>0, <3>1, ClocksAssumption DEF TypeOK, Key, Absent
    <3>. QED
      BY <2>3, <3>1, <3>2 DEF Reading, KnowsKey
  <2>. QED
    BY <1>0, <1>4, <2>1, <2>2, <2>3 DEF LoadTtl, TypeOK
<1>5. CASE Tidy(t)
  BY <1>0, <1>d, <1>5 DEF Tidy, TypeOK
<1>6. CASE \E s \in Who : Create(t, s)
  BY <1>0, <1>d, <1>6 DEF Create, TypeOK
<1>7. CASE CreateWrite(t)
  <2>1. PICK i \in Id \ used, modern \in HasHsetex :
             /\ rec' = WriteField(i, call[t].arg, modern)
             /\ EnterCall(t, [call[t] EXCEPT !.new = i])
             /\ Goto(t, IF modern THEN "createDeadline" ELSE "createExpire")
    BY <1>7 DEF CreateWrite
  <2>2. /\ call'[t].new = i /\ call'[t].arg = call[t].arg
        /\ pc'[t] = "createDeadline" \/ (~Hsetex /\ pc'[t] = "createExpire")
        /\ state'[t] = state[t]
    <3>1. Hsetex => modern
      BY DEF Hsetex
    <3>2. state' = state
      BY <1>7 DEF CreateWrite
    <3>. QED
      BY <1>0, <2>1, <3>1, <3>2, TaskTypes DEF TypeOK, Call, Goto, EnterCall
  <2>3. rec'[i].who = call[t].arg
    BY <1>0, <2>1 DEF WriteField, TypeOK
  <2>. QED
    BY <1>c, <2>2, <2>3 DEF Reading, KnowsKey
<1>8. CASE CreateExpire(t)
  <2>1. /\ pc[t] = "createExpire" /\ pc'[t] = "createDeadline" /\ call'[t] = call[t]
        /\ call[t].new \in Id /\ state'[t] = state[t]
    BY <1>0, <1>8 DEF CreateExpire, TypeOK, Targets
  <2>2. ~CreateWrite(t) /\ ~Save(t)
    BY <2>1 DEF CreateWrite, Save
  <2>3. KeySeen(call[t].new) => rec[call[t].new].who = call[t].arg
    BY <1>0, <2>1 DEF Reading
  <2>4. rec'[call[t].new].idle # Absent => rec'[call[t].new].who = call[t].arg
    BY <2>1, <2>2, <2>3, WhoWrites DEF KeySeen
  <2>. QED
    BY <1>c, <2>1, <2>4 DEF Reading, KnowsKey, KeySeen
<1>9. CASE CreateDeadline(t)
  <2>1. /\ pc[t] = "createDeadline" /\ pc'[t] = "adopt" /\ call'[t] = call[t]
        /\ call[t].new \in Id /\ state'[t] = state[t]
    BY <1>0, <1>9 DEF CreateDeadline, TypeOK, Targets
  <2>2. ~CreateWrite(t) /\ ~Save(t)
    BY <2>1 DEF CreateWrite, Save
  <2>3. KeySeen(call[t].new) => rec[call[t].new].who = call[t].arg
    BY <1>0, <2>1 DEF Reading
  <2>4. rec'[call[t].new].idle # Absent => rec'[call[t].new].who = call[t].arg
    BY <2>1, <2>2, <2>3, WhoWrites DEF KeySeen
  <2>. QED
    BY <1>c, <2>1, <2>4 DEF Reading, KnowsKey, KeySeen
<1>10. CASE Adopt(t)
  <2>1. /\ pc[t] = "adopt" /\ rec' = rec /\ call[t].new \in Id /\ call[t].new \in handed'
        /\ state'[t].sid = call[t].new /\ state'[t].subject = call[t].arg
        /\ state'[t].left = AbsoluteTTL
    BY <1>0, <1>10 DEF Adopt, TypeOK, Targets
  <2>2. \/ pc'[t] = "ready"
        \/ /\ pc'[t] = "index" /\ call[t].arg # NoSubject
           /\ call'[t].id = call[t].new /\ call'[t].arg = call[t].arg
    BY <1>0, <1>10 DEF Adopt, TypeOK, NoCall
  <2>3. Open(call[t].new) => rec[call[t].new].who = call[t].arg
    BY <1>0, <2>1 DEF Reading, Fresh
  <2>4. AbsoluteTTL >= rec[call[t].new].ttl
    BY <1>0, <2>1, ClocksAssumption DEF TypeOK, Key, Absent
  <2>5. call[t].arg # NoSubject => call[t].arg \in Subject
    BY <1>0, TaskTypes DEF Who
  <2>. QED
    BY <2>1, <2>2, <2>3, <2>4, <2>5 DEF Reading, KnowsKey, Open
<1>11. CASE Save(t)
  <2>1. state[t].sid \in handed /\ state'[t] = state[t]
    BY <1>0, <1>11, TaskTypes, IdsAssumption DEF Save, Fresh, Targets
  <2>2. \/ pc'[t] = "ready"
        \/ pc'[t] = "saveExpire" /\ ~Hsetex
        \/ /\ pc'[t] = "index" /\ state[t].subject # NoSubject
           /\ call'[t].id = state[t].sid /\ call'[t].arg = state[t].subject
    <3>1. PICK modern \in HasHsetex :
               \/ modern /\ AfterSave(t)
               \/ ~modern /\ Goto(t, "saveExpire") /\ UNCHANGED call
      BY <1>11 DEF Save
    <3>2. Hsetex => modern
      BY DEF Hsetex
    <3>. QED
      BY ZenonT(40), <1>0, <3>1, <3>2 DEF TypeOK, AfterSave, NoCall, Goto, EnterCall, Return
  <2>3. state[t].subject # NoSubject => state[t].subject \in Subject
    BY <1>0, TaskTypes DEF Who
  <2>. QED
    BY <1>b, <1>c, <2>1, <2>2, <2>3 DEF Reading, KnowsKey
<1>12. CASE SaveExpire(t)
  <2>1. state[t].sid \in handed /\ state'[t] = state[t]
    BY <1>0, <1>12, TaskTypes, IdsAssumption DEF SaveExpire, Fresh, Targets
  <2>2. \/ pc'[t] = "ready"
        \/ pc'[t] = "saveExpire" /\ ~Hsetex
        \/ /\ pc'[t] = "index" /\ state[t].subject # NoSubject
           /\ call'[t].id = state[t].sid /\ call'[t].arg = state[t].subject
    BY ZenonT(40), <1>0, <1>12 DEF TypeOK, SaveExpire, AfterSave, NoCall
  <2>3. state[t].subject # NoSubject => state[t].subject \in Subject
    BY <1>0, TaskTypes DEF Who
  <2>. QED
    BY <1>b, <1>c, <2>1, <2>2, <2>3 DEF Reading, KnowsKey
<1>13. CASE IndexAdd(t)
  <2>1. /\ pc[t] = "index" /\ state'[t] = state[t]
        /\ \/ pc'[t] = "ready"
           \/ pc'[t] = "indexExpire" /\ ~Hsetex /\ call'[t] = call[t]
    BY <1>0, <1>13 DEF IndexAdd, TypeOK, Hsetex
  <2>2. /\ call[t].id \in handed' /\ call[t].id = state[t].sid
        /\ call[t].arg = state[t].subject /\ call[t].arg \in Subject
    BY <1>0, <1>b, <2>1 DEF Reading
  <2>. QED
    BY <1>c, <2>1, <2>2 DEF Reading, KnowsKey
<1>14. CASE IndexExpire(t)
  BY <1>0, <1>d, <1>14 DEF IndexExpire, TypeOK
<1>15. CASE Touch(t)
  BY <1>0, <1>d, <1>15 DEF Touch, TypeOK
<1>16. CASE \E s \in Who : Rotate(t, s)
  BY <1>0, <1>d, <1>16 DEF Rotate, TypeOK
<1>17. CASE RotateDrop(t)
  BY <1>0, <1>d, <1>17 DEF RotateDrop, TypeOK
<1>18. CASE Revoke(t)
  BY <1>0, <1>d, <1>18 DEF Revoke, TypeOK
<1>19. CASE RevokeDrop(t)
  BY <1>0, <1>d, <1>19 DEF RevokeDrop, TypeOK
<1>20. CASE Revoked(t)
  BY <1>0, <1>20, IdsAssumption DEF Revoked, Reading, KnowsKey, NoState, TypeOK
<1>21. CASE \E i \in Id, s \in Subject : RevokeId(t, i, s)
  BY <1>0, <1>d, <1>21 DEF RevokeId, TypeOK
<1>22. CASE KillKey(t)
  BY <1>0, <1>d, <1>22 DEF KillKey, TypeOK
<1>23. CASE KillDrop(t)
  BY <1>0, <1>d, <1>23 DEF KillDrop, TypeOK
<1>24. CASE \E s \in Subject : RevokeAll(t, s)
  BY <1>0, <1>d, <1>24 DEF RevokeAll, TypeOK
<1>25. CASE KillMany(t)
  BY <1>0, <1>d, <1>25 DEF KillMany, TypeOK
<1>26. CASE IndexClear(t)
  BY <1>0, <1>d, <1>26 DEF IndexClear, TypeOK
<1>27. CASE \E s \in Subject : List(t, s)
  BY <1>0, <1>d, <1>27 DEF List, TypeOK
<1>28. CASE Verify(t)
  BY <1>0, <1>d, <1>28 DEF Verify, TypeOK
<1>29. CASE Prune(t)
  BY <1>0, <1>d, <1>29 DEF Prune, TypeOK
<1>30. CASE Fail(t)
  BY <1>0, <1>d, <1>30 DEF Fail, TypeOK
<1>31. CASE Leave(t)
  BY <1>0, <1>31, IdsAssumption DEF Leave, Reading, KnowsKey, NoState, TypeOK
<1>. QED
  BY <1>1, <1>2, <1>3, <1>4, <1>5, <1>6, <1>7, <1>8, <1>9, <1>10, <1>11, <1>12, <1>13, <1>14, <1>15, <1>16, <1>17, <1>18, <1>19, <1>20, <1>21, <1>22, <1>23, <1>24, <1>25, <1>26, <1>27, <1>28, <1>29, <1>30, <1>31 DEF Step

\* What the other tasks know stays true: nobody else writes the identifier a
\* task is creating, and nobody reopens what a task holds to be dead.
LEMMA OthersKnow ==
  ASSUME IInv, IndexInv, NEW t \in Task, Step(t), NEW u \in Task, u # t
  PROVE  Reading(u)' /\ Deadly(u)'
<1>0. TypeOK /\ Targets /\ Fresh /\ Reading(t) /\ Reading(u) /\ Deadly(u)
  BY DEF IInv, IndexInv
<1>1. pc'[u] = pc[u] /\ call'[u] = call[u] /\ state'[u] = state[u]
  BY <1>0, OthersKept
<1>2. \A i \in handed : rec'[i].ttl > 0 =>
        rec[i].ttl > 0 /\ rec'[i].who = rec[i].who /\ rec'[i].ttl = rec[i].ttl
  BY <1>0, OpenStays DEF Open
<1>3. /\ \A i \in Id : Shut(i) => i \in handed' /\ ~(rec'[i].ttl > 0)
      /\ handed \subseteq Id /\ handed \subseteq handed'
  BY <1>0, ShutStays, HistoryGrows DEF Shut, Open, TypeOK
<1>4. /\ state[u].sid \in handed \cup {NoId}
      /\ pc[u] \in {"loadExpire", "loadTtl"} => call[u].id \in handed
  BY <1>0 DEF Fresh
<1>5. ASSUME pc[u] \in {"createExpire", "createDeadline", "adopt"}, rec'[call[u].new].idle # Absent
      PROVE  rec'[call[u].new].who = call[u].arg
  <2>1. PICK i \in used \ handed : i = call[u].new /\ i \in Id
    BY <1>0, <1>5 DEF Fresh, Creating, TypeOK
  <2>2. ~(Save(t) /\ i = state[t].sid)
    BY <1>0, <2>1, IdsAssumption DEF Fresh
  <2>3. rec[i].idle # Absent /\ rec'[i].who = rec[i].who
    BY <1>5, <2>1, <2>2, WhoWrites DEF KeySeen
  <2>. QED
    BY <1>0, <1>5, <2>1, <2>3 DEF Reading, KeySeen
<1>6. Reading(u)'
  <2>1. \A i \in Id : state[u].sid = i /\ rec'[i].ttl > 0 =>
          state[u].subject = rec'[i].who /\ state[u].left >= rec'[i].ttl
    BY <1>0, <1>2, <1>4, IdsAssumption DEF Reading, KnowsKey, Open
  <2>2. pc[u] \in {"loadExpire", "loadTtl"} /\ call[u].raw /\ rec'[call[u].id].ttl > 0 =>
          call[u].arg = rec'[call[u].id].who
    BY <1>0, <1>2, <1>4 DEF Reading, Open
  <2>3. /\ Hsetex => pc[u] \notin {"loadExpire", "createExpire", "saveExpire", "indexExpire"}
        /\ pc[u] \in {"index", "indexExpire"} =>
             call[u].id \in handed' /\ call[u].id = state[u].sid /\ call[u].arg = state[u].subject
               /\ call[u].arg \in Subject
    BY <1>0, <1>3 DEF Reading
  <2>. QED
    BY <1>1, <1>5, <2>1, <2>2, <2>3 DEF Reading, KnowsKey, KeySeen, Open
<1>7. Deadly(u)'
  <2>1. /\ Eager /\ pc[u] \in {"loadExpire", "loadTtl"} /\ ~call[u].raw => call[u].id \in Id /\ Shut(call[u].id)
        /\ Eager /\ pc[u] = "tidy" => call[u].id \in Id /\ Shut(call[u].id)
        /\ pc[u] = "killKey" => call[u].id \in handed
        /\ pc[u] = "killDrop" => call[u].id \in Id /\ Shut(call[u].id)
        /\ pc[u] = "revokeDrop" => state[u].sid \in Id /\ Shut(state[u].sid)
    BY <1>0 DEF Deadly, Targets
  <2>2. /\ pc[u] \in {"killMany", "clear"} =>
             /\ call[u].members \subseteq handed
             /\ \A i \in call[u].members : i \in call[u].todo \/ Shut(i)
        /\ pc[u] = "clear" => call[u].todo = {}
        /\ pc[u] = "verify" => call[u].todo \subseteq handed
        /\ Redis8 /\ pc[u] \in {"verify", "prune"} =>
             \A i \in call[u].members : i \in Id /\ Shut(i)
    BY <1>0, TaskTypes DEF Deadly
  <2>. QED
    BY <1>1, <1>3, <2>1, <2>2 DEF Deadly, Shut, Open
<1>. QED
  BY <1>6, <1>7

-----------------------------------------------------------------------------
(***************************************************************************)
(* What a step does to the index                                           *)
(***************************************************************************)

\* A step of a task leaves the index and its history alone, drops an entry,
\* writes one, or clears all entries of a subject.
LEMMA IndexSteps ==
  ASSUME IInv, IndexInv, NEW t \in Task, Step(t)
  PROVE  \/ UNCHANGED <<index, indexed, swept>>
         \/ /\ \E s \in Who, i \in MaybeId :
                 index' = HDel(s, i) /\ (Redis8 /\ i \in Id => Shut(i))
            /\ UNCHANGED <<indexed, swept>>
         \/ /\ pc[t] \in {"index", "indexExpire"}
            /\ \E n \in Int :
                 /\ index' = [index EXCEPT ![call[t].arg][call[t].id] = n]
                 /\ Redis8 => n = state[t].left
            /\ indexed' \subseteq indexed \cup {call[t].id}
            /\ indexed \subseteq indexed'
            /\ swept' = swept
         \/ IndexClear(t)
<1> USE DEF redisVars, historyVars
<1>0. TypeOK /\ Targets /\ Fresh /\ Lines /\ Reading(t) /\ Deadly(t)
  BY DEF IInv, IndexInv
<1>1. CASE \/ Anonymous(t) \/ LoadExpire(t) \/ LoadTtl(t) \/ Tidy(t)
           \/ \E i \in Id, refresh \in BOOLEAN, modern \in HasHsetex : Load(t, i, refresh, modern)
           \/ \E s \in Who : Create(t, s) \/ Rotate(t, s)
           \/ CreateWrite(t) \/ CreateExpire(t) \/ CreateDeadline(t) \/ Adopt(t)
  BY <1>1 DEF Anonymous, LoadExpire, LoadTtl, Tidy, Load, Create, Rotate, CreateWrite,
     CreateExpire, CreateDeadline, Adopt
<1>2. CASE \/ Save(t) \/ SaveExpire(t) \/ Touch(t) \/ Revoke(t) \/ Revoked(t) \/ KillKey(t)
           \/ KillMany(t) \/ Verify(t) \/ Fail(t) \/ Leave(t)
           \/ \E i \in Id, s \in Subject : RevokeId(t, i, s)
           \/ \E s \in Subject : RevokeAll(t, s) \/ List(t, s)
  BY <1>2 DEF Save, SaveExpire, Touch, Revoke, Revoked, KillKey, KillMany, Verify, Fail, Leave,
     RevokeId, RevokeAll, List
<1>3. CASE IndexAdd(t)
  <2>1. state[t].left \in Int /\ NoTTL \in Int
    BY <1>0, TaskTypes DEF NoTTL
  <2>. QED
    BY <1>0, <1>3, <2>1 DEF IndexAdd, Redis8, Hsetex
<1>4. CASE IndexExpire(t)
  <2>1. state[t].left \in Int /\ Absent \in Int /\ ~Redis8
    BY <1>0, <1>4, TaskTypes DEF Absent, Reading, Redis8, IndexExpire
  <2>. QED
    BY <1>0, <1>4, <2>1 DEF IndexExpire
<1>5. CASE RotateDrop(t)
  BY <1>0, <1>5, TaskTypes, IdsAssumption DEF RotateDrop, Lines, Shut
<1>6. CASE RevokeDrop(t)
  BY <1>0, <1>6, TaskTypes DEF RevokeDrop, Deadly
<1>7. CASE KillDrop(t)
  BY <1>0, <1>7, TaskTypes DEF KillDrop, Deadly
<1>8. CASE Prune(t)
  <2>1. PICK i \in call[t].members : index' = HDel(call[t].arg, i) \/ index' = index
    BY <1>8 DEF Prune
  <2>2. i \in MaybeId /\ call[t].arg \in Who /\ (Redis8 => Shut(i))
    BY <1>0, <1>8, TaskTypes DEF Prune, Deadly, MaybeId
  <2>. QED
    BY <1>8, <2>1, <2>2 DEF Prune
<1>9. CASE IndexClear(t)
  BY <1>9
<1>. QED
  BY <1>1, <1>2, <1>3, <1>4, <1>5, <1>6, <1>7, <1>8, <1>9 DEF Step

\* The entries of open sessions outlast them, after a step of a task.
LEMMA EntriesOfStep ==
  ASSUME IInv, IndexInv, NEW t \in Task, Step(t)
  PROVE  Entries'
<1>0. TypeOK /\ Targets /\ Fresh /\ Reading(t) /\ Deadly(t) /\ Entries
  BY DEF IInv, IndexInv
<1>1. handed \subseteq handed' /\ handed \subseteq Id /\ Absent \in Int
  BY <1>0, HistoryGrows DEF TypeOK, Absent
<1>2. index \in [Subject -> [Id -> Absent..AbsoluteTTL]]
  BY <1>0 DEF TypeOK
<1>3. \A i \in handed : rec'[i].ttl > 0 =>
        rec[i].ttl > 0 /\ rec'[i].who = rec[i].who /\ rec'[i].ttl = rec[i].ttl
  BY <1>0, OpenStays DEF Open
<1>4. CASE UNCHANGED <<index, indexed, swept>>
  BY <1>0, <1>1, <1>3, <1>4 DEF Entries, Open
<1>5. CASE /\ \E s \in Who, i \in MaybeId :
                index' = HDel(s, i) /\ (Redis8 /\ i \in Id => Shut(i))
           /\ UNCHANGED <<indexed, swept>>
  <2>1. PICK j \in MaybeId, r \in Who :
          index' = HDel(r, j) /\ (Redis8 /\ j \in Id => Shut(j))
    BY <1>5
  <2>2. \A s \in Subject, i \in Id : \/ index'[s][i] = index[s][i]
                                     \/ i = j /\ index'[s][i] = Absent
    BY <1>2, <2>1 DEF HDel
  <2>3. \A i \in handed : Redis8 /\ i = j => ~(rec'[i].ttl > 0)
    BY <1>1, <1>3, <2>1 DEF Shut, Open
  <2>. QED
    BY <1>0, <1>1, <1>3, <1>5, <2>2, <2>3 DEF Entries, Open
<1>6. CASE /\ pc[t] \in {"index", "indexExpire"}
           /\ \E n \in Int : /\ index' = [index EXCEPT ![call[t].arg][call[t].id] = n]
                             /\ Redis8 => n = state[t].left
           /\ indexed' \subseteq indexed \cup {call[t].id} /\ indexed \subseteq indexed'
           /\ swept' = swept
  <2>1. PICK n \in Int : /\ index' = [index EXCEPT ![call[t].arg][call[t].id] = n]
                         /\ Redis8 => n = state[t].left
    BY <1>6
  <2>2. PICK j \in handed, r \in Subject :
          /\ j = call[t].id /\ r = call[t].arg /\ j = state[t].sid /\ r = state[t].subject
    BY <1>0, <1>6 DEF Reading
  <2>3. /\ index'[r][j] = n
        /\ \A s \in Subject, i \in Id : s # r \/ i # j => index'[s][i] = index[s][i]
    BY <1>1, <1>2, <2>1, <2>2
  <2>4. Open(j) => r = rec[j].who /\ state[t].left >= rec[j].ttl
    BY <1>0, <1>1, <2>2 DEF Reading, KnowsKey
  <2>5. indexed' \subseteq handed'
    BY <1>0, <1>1, <1>6, <2>2 DEF Entries
  <2>6. \A s \in Subject, i \in Id : index'[s][i] # Absent => i \in handed'
    BY <1>0, <1>1, <2>2, <2>3 DEF Entries
  <2>7. ASSUME Redis8, NEW s \in Subject, NEW i \in indexed' \ swept',
               Open(i)', rec'[i].who = s
        PROVE  index'[s][i] >= rec'[i].ttl
    <3>1. i \in handed /\ (i = j \/ i \in indexed \ swept)
      BY <1>0, <1>6, <2>2, <2>7 DEF Entries
    <3>2. rec[i].ttl > 0 /\ rec[i].who = s /\ rec'[i].ttl = rec[i].ttl
      BY <1>3, <2>7, <3>1 DEF Open
    <3>3. CASE i = j
      BY <2>1, <2>3, <2>4, <2>7, <3>2, <3>3 DEF Open
    <3>4. CASE i # j
      BY <1>0, <1>1, <2>3, <2>7, <3>1, <3>2, <3>4 DEF Entries, Open
    <3>. QED
      BY <3>3, <3>4
  <2>. QED
    BY <2>5, <2>6, <2>7 DEF Entries
<1>7. CASE IndexClear(t)
  <2>1. PICK r \in Who : r = call[t].arg
    BY <1>0, TaskTypes
  <2>2. /\ pc[t] = "clear" /\ indexed' = indexed
        /\ index' = [index EXCEPT ![r] = [i \in Id |-> Absent]]
        /\ swept' = swept \cup (Members(r) \ call[t].members)
    BY <1>7, <2>1 DEF IndexClear
  <2>3. \A s \in Subject, i \in Id : \/ index'[s][i] = index[s][i]
                                     \/ s = r /\ index'[s][i] = Absent
    BY <1>2, <2>2
  <2>4. \A i \in call[t].members : Shut(i)
    BY <1>0, <2>2 DEF Deadly
  <2>5. ASSUME Redis8, NEW s \in Subject, NEW i \in indexed' \ swept',
               Open(i)', rec'[i].who = s
        PROVE  index'[s][i] >= rec'[i].ttl
    <3>1. i \in indexed \ swept /\ i \in handed
      BY <1>0, <2>2, <2>5 DEF Entries
    <3>2. rec[i].ttl > 0 /\ rec[i].who = s /\ rec'[i].ttl = rec[i].ttl
      BY <1>3, <2>5, <3>1 DEF Open
    <3>3. index[s][i] >= rec[i].ttl
      BY <1>0, <2>5, <3>1, <3>2 DEF Entries, Open
    <3>4. CASE s = r
      <4>1. i \in Members(r)
        BY <1>0, <1>1, <1>2, <3>1, <3>2, <3>3, <3>4 DEF Members, Absent, TypeOK, Key
      <4>. QED
        BY <2>2, <2>4, <2>5, <3>2, <4>1 DEF Shut, Open
    <3>5. CASE s # r
      BY <1>1, <2>3, <3>1, <3>2, <3>3, <3>5
    <3>. QED
      BY <3>4, <3>5
  <2>. QED
    BY <1>0, <1>1, <2>2, <2>3, <2>5 DEF Entries
<1>. QED
  BY <1>4, <1>5, <1>6, <1>7, IndexSteps

-----------------------------------------------------------------------------
(***************************************************************************)
(* The invariant                                                           *)
(***************************************************************************)

\* The empty store.
LEMMA IndexInit == Init => IndexInv
<1> SUFFICES ASSUME Init
             PROVE  IndexInv
  OBVIOUS
<1>1. \A i \in Id : rec[i].idle = Absent /\ rec[i].ttl = Absent
  BY DEF Init, NoKey
<1>2. Fields /\ Entries
  BY <1>1 DEF Init, Fields, Entries, Absent, NoTTL
<1>3. ASSUME NEW t \in Task
      PROVE  Reading(t) /\ Deadly(t)
  BY <1>1, IdsAssumption DEF Init, Reading, Deadly, NoState
<1>. QED
  BY <1>2, <1>3 DEF IndexInv

\* A step of a task.
LEMMA IndexOfStep ==
  ASSUME IInv, IndexInv, NEW t \in Task, Step(t)
  PROVE  IndexInv'
<1>1. Fields'
  BY FieldsOfStep DEF IndexInv
<1>2. Entries'
  BY EntriesOfStep
<1>3. ASSUME NEW u \in Task
      PROVE  Reading(u)' /\ Deadly(u)'
  <2>1. CASE u = t
    BY <2>1, ReadingKept, DeadlyKept
  <2>2. CASE u # t
    BY <2>2, OthersKnow
  <2>. QED
    BY <2>1, <2>2
<1>. QED
  BY <1>1, <1>2, <1>3 DEF IndexInv

\* What the clock and the server's own deletions do to a key and its fields.
LEMMA ClockOnKeys ==
  ASSUME IInv, Fields, Tick \/ \E j \in Id : Reap(j), NEW i \in Id
  PROVE  /\ KeySeen(i)' => KeySeen(i) /\ rec'[i].who = rec[i].who
         /\ rec'[i].ttl > 0 => /\ rec[i].ttl > 0 /\ rec'[i].who = rec[i].who
                               /\ rec'[i].ttl <= rec[i].ttl
         /\ Eager => rec'[i].idle # 0
         /\ Hsetex => rec'[i].idle # NoTTL
<1>1. rec \in [Id -> Key] /\ rec[i] \in Key
  BY DEF IInv, TypeOK
<1>2. (Eager => rec[i].idle # 0) /\ (Hsetex => rec[i].idle # NoTTL)
  BY DEF Fields
<1>3. CASE Tick
  <2>1. rec'[i] = AgedKey(rec[i])
    BY <1>3 DEF Tick
  <2>2. CASE AgedKey(rec[i]) = NoKey
    BY <2>1, <2>2 DEF NoKey, KeySeen, Absent, NoTTL
  <2>3. CASE /\ ~(rec[i].ttl = 1 \/ (rec[i].idle = 1 /\ ~LazyFields))
             /\ AgedKey(rec[i]).who = rec[i].who
             /\ AgedKey(rec[i]).idle = CountDown(rec[i].idle)
             /\ AgedKey(rec[i]).ttl = CountDown(rec[i].ttl)
    BY <1>1, <1>2, <2>1, <2>3, ClocksAssumption
       DEF KeySeen, CountDown, Key, Absent, NoTTL, Eager
  <2>. QED
    BY <1>1, <2>2, <2>3 DEF AgedKey, Key
<1>4. CASE \E j \in Id : Reap(j)
  BY <1>1, <1>2, <1>4, ClocksAssumption DEF Reap, DelKey, NoKey, KeySeen, Absent, NoTTL, Key
<1>. QED
  BY <1>3, <1>4

\* The clock.  An entry loses its ticks with its key.
LEMMA IndexOfClock ==
  ASSUME IInv, IndexInv, Tick \/ \E j \in Id : Reap(j)
  PROVE  IndexInv'
<1>0. TypeOK /\ Targets /\ Fresh /\ Lines /\ Fields /\ Entries
  BY DEF IInv, IndexInv
<1>1. UNCHANGED <<used, handed, pc, state, call, indexed, swept>>
  BY DEF Tick, Reap, historyVars
<1>2. ASSUME NEW i \in Id
      PROVE  /\ rec'[i].idle # Absent => rec[i].idle # Absent /\ rec'[i].who = rec[i].who
             /\ rec'[i].ttl > 0 => /\ rec[i].ttl > 0 /\ rec'[i].who = rec[i].who
                                   /\ rec'[i].ttl <= rec[i].ttl
             /\ Eager => rec'[i].idle # 0
             /\ Hsetex => rec'[i].idle # NoTTL
  BY <1>0, <1>2, ClockOnKeys DEF KeySeen
<1>3. Fields'
  BY <1>2 DEF Fields, Eager
<1>4. ASSUME NEW t \in Task
      PROVE  Reading(t)'
  <2>1. Reading(t) /\ pc'[t] = pc[t] /\ call'[t] = call[t] /\ state'[t] = state[t]
    BY <1>1 DEF IndexInv
  <2>2. /\ pc[t] \in {"createExpire", "createDeadline", "adopt"} => call[t].new \in Id
        /\ pc[t] \in {"loadExpire", "loadTtl"} => call[t].id \in Id
        /\ state[t].left \in Int /\ \A i \in Id : rec[i].ttl \in Int /\ rec'[i].ttl \in Int
    <3>1. TypeOK'
      BY <1>0, TypeOfTick
    <3>. QED
      BY <1>0, <3>1, TaskTypes DEF Targets, TypeOK, Key, Absent
  <2>3. \A i \in Id : state[t].sid = i /\ rec'[i].ttl > 0 =>
          state[t].subject = rec'[i].who /\ state[t].left >= rec'[i].ttl
    BY <1>2, <2>1, <2>2 DEF Reading, KnowsKey, Open
  <2>4. /\ Hsetex => pc[t] \notin {"loadExpire", "createExpire", "saveExpire", "indexExpire"}
        /\ pc[t] \in {"index", "indexExpire"} =>
             call[t].id \in handed /\ call[t].id = state[t].sid /\ call[t].arg = state[t].subject
               /\ call[t].arg \in Subject
    BY <2>1 DEF Reading
  <2>5. /\ pc[t] \in {"createExpire", "createDeadline", "adopt"}
             /\ rec'[call[t].new].idle # Absent =>
             rec'[call[t].new].who = call[t].arg
        /\ pc[t] \in {"loadExpire", "loadTtl"} /\ call[t].raw /\ rec'[call[t].id].ttl > 0 =>
             call[t].arg = rec'[call[t].id].who
    BY <1>2, <2>1, <2>2 DEF Reading, KeySeen, Open
  <2>. QED
    BY <1>1, <2>1, <2>3, <2>4, <2>5 DEF Reading, KnowsKey, KeySeen, Open
<1>5. ASSUME NEW t \in Task
      PROVE  Deadly(t)'
  <2>1. Deadly(t) /\ pc'[t] = pc[t] /\ call'[t] = call[t] /\ state'[t] = state[t]
    BY <1>1 DEF IndexInv
  <2>2. handed' = handed /\ handed \subseteq Id
        /\ \A i \in Id : Shut(i) => i \in handed /\ ~(rec'[i].ttl > 0)
    BY <1>0, <1>1, <1>2 DEF Shut, Open, TypeOK
  <2>3. /\ Eager /\ pc[t] \in {"loadExpire", "loadTtl"} /\ ~call[t].raw =>
             call[t].id \in Id /\ Shut(call[t].id)
        /\ Eager /\ pc[t] = "tidy" => call[t].id \in Id /\ Shut(call[t].id)
        /\ pc[t] = "killKey" => call[t].id \in handed
        /\ pc[t] = "killDrop" => call[t].id \in Id /\ Shut(call[t].id)
        /\ pc[t] = "revokeDrop" => state[t].sid \in Id /\ Shut(state[t].sid)
    BY <1>0, <2>1 DEF Deadly, Targets
  <2>4. /\ pc[t] \in {"killMany", "clear"} =>
             /\ call[t].members \subseteq handed
             /\ \A i \in call[t].members : i \in call[t].todo \/ Shut(i)
        /\ pc[t] = "clear" => call[t].todo = {}
        /\ pc[t] = "verify" => call[t].todo \subseteq handed
        /\ Redis8 /\ pc[t] \in {"verify", "prune"} =>
             \A i \in call[t].members : i \in Id /\ Shut(i)
    BY <1>0, <2>1, TaskTypes DEF Deadly
  <2>. QED
    BY <2>1, <2>2, <2>3, <2>4 DEF Deadly, Shut, Open
<1>6. Entries'
  <2>1. CASE Tick
    <3>1. \A s \in Subject, i \in Id : index'[s][i] = AgedEntry(index[s][i])
      BY <2>1 DEF Tick
    <3>2. \A s \in Subject, i \in Id : index'[s][i] # Absent => i \in handed
      BY <1>0, <3>1 DEF Entries, AgedEntry, CountDown, Absent
    <3>3. ASSUME Redis8, NEW s \in Subject, NEW i \in indexed \ swept,
                 rec'[i].ttl > 0, rec'[i].who = s
          PROVE  index'[s][i] >= rec'[i].ttl
      <4>1. i \in Id /\ index[s][i] \in Absent..AbsoluteTTL
        BY <1>0 DEF TypeOK
      <4>2. Open(i) /\ rec[i].who = s
        BY <1>2, <3>3, <4>1 DEF Open
      <4>3. rec[i].ttl > 1 /\ rec'[i].ttl = rec[i].ttl - 1 /\ rec[i].ttl \in Int
        BY <1>0, <2>1, <3>3, <4>1, TickEffects DEF Open, TypeOK, Key, Absent
      <4>4. index[s][i] >= rec[i].ttl
        BY <1>0, <3>3, <4>2 DEF Entries
      <4>. QED
        BY <3>1, <4>1, <4>3, <4>4, ClocksAssumption DEF AgedEntry, CountDown, Absent
    <3>. QED
      BY <1>0, <1>1, <3>2, <3>3 DEF Entries, Open
  <2>2. CASE \E j \in Id : Reap(j)
    <3>1. index' = index /\ \A i \in Id : rec'[i].ttl > 0 => rec'[i] = rec[i]
      BY <1>0, <2>2 DEF Reap, DelKey, NoKey, Absent, TypeOK
    <3>2. indexed \subseteq Id
      BY <1>0 DEF TypeOK
    <3>. QED
      BY <1>0, <1>1, <3>1, <3>2 DEF Entries, Open
  <2>. QED
    BY <2>1, <2>2
<1>. QED
  BY <1>3, <1>4, <1>5, <1>6 DEF IndexInv

\* Every step.
LEMMA IndexStep == IInv /\ IndexInv /\ [Next]_vars => IndexInv'
<1> SUFFICES ASSUME IInv, IndexInv, [Next]_vars
             PROVE  IndexInv'
  OBVIOUS
<1>1. CASE \E t \in Task : Step(t)
  BY <1>1, IndexOfStep
<1>2. CASE Tick \/ \E i \in Id : Reap(i)
  BY <1>2, IndexOfClock
<1>3. CASE UNCHANGED vars
  BY <1>3 DEF vars, IndexInv, Fields, Entries, Reading, Deadly, KnowsKey, Shut, Open, KeySeen
<1>. QED
  BY <1>1, <1>2, <1>3 DEF Next

\* The invariant holds in every reachable state.
LEMMA IndexInvariant == Spec => [](IInv /\ IndexInv)
<1>. QED
  BY InvInit, InvStep, IndexInit, IndexStep, PTL DEF Spec

-----------------------------------------------------------------------------
(***************************************************************************)
(* Whose sessions a lookup finds                                           *)
(***************************************************************************)

\* The session of i, if it works at all, is one of subject s.
Belongs(s, i) == Open(i) => rec[i].who = s

\* What is looked up under a subject are that subject's sessions: the entries
\* of its index, and what an operation has read there and not yet dealt with.
Owned ==
  /\ \A s \in Subject, i \in Id : index[s][i] # Absent => Belongs(s, i)
  /\ \A t \in Task :
       /\ pc[t] = "killKey" => Belongs(call[t].arg, call[t].id)
       /\ pc[t] = "killMany" =>
            /\ call[t].todo \subseteq call[t].members
            /\ \A i \in call[t].todo : Belongs(call[t].arg, i)
       /\ pc[t] = "verify" => \A i \in call[t].todo : Belongs(call[t].arg, i)

\* How an operation comes to hold what it looked up.
LEMMA Lookups ==
  ASSUME IInv, NEW t \in Task, Step(t)
  PROVE  /\ pc'[t] = "killKey" =>
              \E s \in Subject : call'[t].arg = s /\ call'[t].id \in Members(s)
         /\ pc'[t] = "killMany" =>
              \/ \E s \in Subject : /\ call'[t].arg = s /\ call'[t].todo = Members(s)
                                    /\ call'[t].members = Members(s)
              \/ /\ pc[t] = "killMany" /\ call'[t].arg = call[t].arg
                 /\ call'[t].todo \subseteq call[t].todo
                 /\ call'[t].members = call[t].members
         /\ pc'[t] = "verify" =>
              \/ \E s \in Subject : call'[t].arg = s /\ call'[t].todo = Members(s)
              \/ /\ pc[t] = "verify" /\ call'[t].arg = call[t].arg
                 /\ call'[t].todo \subseteq call[t].todo
<1> USE DEF Goto, EnterCall, Return, CanCall
<1>0. TypeOK /\ call[t] \in Call
  BY TaskTypes DEF IInv
<1>1. CASE \E i \in Id, s \in Subject : RevokeId(t, i, s)
  BY <1>0, <1>1 DEF RevokeId, NoCall, TypeOK
<1>2. CASE \E s \in Subject : RevokeAll(t, s)
  BY <1>0, <1>2 DEF RevokeAll, NoCall, TypeOK
<1>3. CASE \E s \in Subject : List(t, s)
  BY <1>0, <1>3 DEF List, NoCall, TypeOK
<1>4. CASE KillMany(t)
  <2>1. PICK i \in call[t].todo :
          /\ EnterCall(t, [call[t] EXCEPT !.todo = @ \ {i}])
          /\ pc'[t] \in {"clear", "killMany"}
    BY <1>0, <1>4 DEF KillMany, TypeOK
  <2>. QED
    BY <1>0, <1>4, <2>1 DEF KillMany, Call, TypeOK
<1>5. CASE Verify(t)
  <2>1. PICK i \in call[t].todo, dead \in SUBSET Id :
          /\ pc'[t] \in {"ready", "prune", "verify"}
          /\ \/ pc'[t] = "ready"
             \/ EnterCall(t, [call[t] EXCEPT !.todo = call[t].todo \ {i}, !.members = dead])
    <3>1. \A i \in call[t].todo :
            call[t].members \cup (IF AliveReply(i) THEN {} ELSE {i}) \in SUBSET Id
      BY <1>0, TaskTypes
    <3>. QED
      BY <1>0, <1>5, <3>1 DEF Verify, TypeOK
  <2>2. CASE pc'[t] # "verify"
    BY <1>5, <2>1, <2>2 DEF Verify
  <2>3. CASE pc'[t] = "verify"
    <3>1. call'[t] = [call[t] EXCEPT !.todo = call[t].todo \ {i}, !.members = dead]
      BY <1>0, <2>1, <2>3 DEF TypeOK
    <3>2. call'[t].todo = call[t].todo \ {i} /\ call'[t].arg = call[t].arg
      BY <1>0, <3>1 DEF Call
    <3>. QED
      BY <1>5, <2>3, <3>2 DEF Verify
  <2>. QED
    BY <2>2, <2>3
<1>6. CASE \/ Anonymous(t) \/ LoadExpire(t) \/ LoadTtl(t) \/ Tidy(t) \/ CreateWrite(t)
           \/ CreateExpire(t) \/ CreateDeadline(t) \/ Adopt(t) \/ IndexAdd(t)
           \/ IndexExpire(t) \/ RotateDrop(t) \/ Revoke(t) \/ RevokeDrop(t)
           \/ Revoked(t) \/ KillKey(t) \/ KillDrop(t) \/ IndexClear(t)
           \/ Fail(t) \/ Leave(t)
  <2>1. pc'[t] \notin {"killKey", "killMany", "verify"}
    BY <1>0, <1>6 DEF Anonymous, LoadExpire, LoadTtl, Tidy, CreateWrite, CreateExpire,
       CreateDeadline, Adopt, IndexAdd, IndexExpire, RotateDrop, Revoke, RevokeDrop, Revoked,
       KillKey, KillDrop, IndexClear, Fail, Leave, TypeOK
  <2>. QED
    BY <2>1
<1>7. CASE \/ Save(t) \/ SaveExpire(t) \/ Touch(t) \/ Prune(t)
           \/ \E s \in Who : Create(t, s) \/ Rotate(t, s)
           \/ \E i \in Id, refresh \in BOOLEAN, modern \in HasHsetex : Load(t, i, refresh, modern)
  <2>1. pc'[t] \notin {"killKey", "killMany", "verify"}
    <3>1. CASE Save(t) \/ SaveExpire(t)
      BY ZenonT(40), <1>0, <3>1 DEF Save, SaveExpire, AfterSave, TypeOK
    <3>2. CASE Touch(t) \/ Prune(t)
      BY <1>0, <3>2 DEF Touch, Prune, TypeOK
    <3>3. CASE \E s \in Who : Create(t, s) \/ Rotate(t, s)
      BY <1>0, <3>3 DEF Create, Rotate, TypeOK
    <3>4. CASE \E i \in Id, refresh \in BOOLEAN, modern \in HasHsetex : Load(t, i, refresh, modern)
      BY <1>0, <3>4 DEF Load, TypeOK
    <3>. QED
      BY <1>7, <3>1, <3>2, <3>3, <3>4
  <2>. QED
    BY <2>1
<1>. QED
  BY <1>1, <1>2, <1>3, <1>4, <1>5, <1>6, <1>7 DEF Step

\* A step of a task leaves every lookup with the sessions of its subject.
LEMMA OwnedOfStep ==
  ASSUME IInv, IndexInv, Owned, NEW t \in Task, Step(t)
  PROVE  Owned'
<1>0. TypeOK /\ Entries /\ Reading(t) /\ handed \subseteq Id
  BY DEF IInv, IndexInv, TypeOK
<1>1. ASSUME NEW i \in handed, NEW s, Belongs(s, i)
      PROVE  rec'[i].ttl > 0 => rec'[i].who = s
  BY <1>0, <1>1, OpenStays DEF Belongs, Open
<1>2. \A s \in Subject : Members(s) \subseteq handed /\ \A i \in Members(s) : Belongs(s, i)
  BY <1>0 DEF Members, Entries, Owned
<1>3. ASSUME NEW s \in Subject, NEW i \in Id, index'[s][i] # Absent, rec'[i].ttl > 0
      PROVE  rec'[i].who = s
  <2>1. \/ index[s][i] # Absent
        \/ /\ pc[t] \in {"index", "indexExpire"} /\ i = call[t].id /\ s = call[t].arg
    <3>1. index \in [Subject -> [Id -> Absent..AbsoluteTTL]]
      BY <1>0 DEF TypeOK
    <3>2. CASE index' = index
      BY <1>3, <3>2
    <3>3. CASE \E r \in Who, j \in MaybeId : index' = HDel(r, j)
      BY <1>3, <3>1, <3>3 DEF HDel
    <3>4. CASE /\ pc[t] \in {"index", "indexExpire"}
               /\ \E n \in Int : index' = [index EXCEPT ![call[t].arg][call[t].id] = n]
      BY <1>3, <3>1, <3>4
    <3>5. CASE \E r \in Who : index' = [index EXCEPT ![r] = [j \in Id |-> Absent]]
      BY <1>3, <3>1, <3>5
    <3>6. IndexClear(t) => \E r \in Who : index' = [index EXCEPT ![r] = [j \in Id |-> Absent]]
      BY <1>0, TaskTypes DEF IndexClear
    <3>. QED
      BY <3>2, <3>3, <3>4, <3>5, <3>6, IndexSteps
  <2>2. CASE index[s][i] # Absent
    BY <1>1, <1>2, <1>3, <2>2 DEF Members
  <2>3. CASE pc[t] \in {"index", "indexExpire"} /\ i = call[t].id /\ s = call[t].arg
    <3>1. i \in handed /\ i = state[t].sid /\ s = state[t].subject
      BY <1>0, <2>3 DEF Reading
    <3>2. Belongs(s, i)
      BY <1>0, <3>1 DEF Reading, KnowsKey, Belongs
    <3>. QED
      BY <1>1, <1>3, <3>1, <3>2
  <2>. QED
    BY <2>1, <2>2, <2>3
<1>4. ASSUME NEW u \in Task
      PROVE  /\ pc'[u] = "killKey" => Belongs(call[u].arg, call[u].id)'
             /\ pc'[u] = "killMany" =>
                  /\ call'[u].todo \subseteq call'[u].members
                  /\ \A i \in call'[u].todo : Belongs(call[u].arg, i)'
             /\ pc'[u] = "verify" => \A i \in call'[u].todo : Belongs(call[u].arg, i)'
  <2>0. Deadly(u)
    BY DEF IndexInv
  <2>1. CASE u # t
    <3>1. pc'[u] = pc[u] /\ call'[u] = call[u]
      BY <1>0, <2>1, OthersKept
    <3>2. /\ pc[u] = "killKey" => call[u].id \in handed /\ Belongs(call[u].arg, call[u].id)
          /\ pc[u] = "killMany" => /\ call[u].todo \subseteq call[u].members
                                   /\ call[u].members \subseteq handed
                                   /\ \A i \in call[u].todo : Belongs(call[u].arg, i)
          /\ pc[u] = "verify" => /\ call[u].todo \subseteq handed
                                 /\ \A i \in call[u].todo : Belongs(call[u].arg, i)
      BY <2>0 DEF Deadly, Owned
    <3>. QED
      BY <1>1, <3>1, <3>2 DEF Belongs, Open
  <2>2. CASE u = t
    <3>1. /\ pc[t] = "killMany" => /\ call[t].todo \subseteq call[t].members
                                   /\ call[t].members \subseteq handed
                                   /\ \A i \in call[t].todo : Belongs(call[t].arg, i)
          /\ pc[t] = "verify" => /\ call[t].todo \subseteq handed
                                 /\ \A i \in call[t].todo : Belongs(call[t].arg, i)
      BY <2>0, <2>2 DEF Deadly, Owned
    <3>2. pc'[t] = "killKey" =>
            call'[t].id \in handed /\ Belongs(call'[t].arg, call'[t].id)
      BY <1>2, Lookups
    <3>3. pc'[t] = "verify" => /\ call'[t].todo \subseteq handed
                               /\ \A i \in call'[t].todo : Belongs(call'[t].arg, i)
      BY <1>2, <3>1, Lookups
    <3>4. pc'[t] = "killMany" => /\ call'[t].todo \subseteq handed
                                 /\ \A i \in call'[t].todo : Belongs(call'[t].arg, i)
      BY <1>2, <3>1, Lookups
    <3>5. pc'[t] = "killMany" => call'[t].todo \subseteq call'[t].members
      BY <3>1, Lookups
    <3>. QED
      BY <1>1, <2>2, <3>2, <3>3, <3>4, <3>5 DEF Belongs, Open
  <2>. QED
    BY <2>1, <2>2
<1>. QED
  BY <1>3, <1>4 DEF Owned, Belongs, Open

\* Every step.
LEMMA OwnedStep == IInv /\ IndexInv /\ Owned /\ [Next]_vars => Owned'
<1> SUFFICES ASSUME IInv, IndexInv, Owned, [Next]_vars
             PROVE  Owned'
  OBVIOUS
<1>1. CASE \E t \in Task : Step(t)
  BY <1>1, OwnedOfStep
<1>2. CASE Tick \/ \E j \in Id : Reap(j)
  <2>1. /\ UNCHANGED <<pc, call>> /\ TypeOK /\ Entries
        /\ \A t \in Task : Deadly(t) /\ handed \subseteq Id
    BY <1>2 DEF IInv, IndexInv, Tick, Reap, TypeOK
  <2>2. \A i \in Id : rec'[i].ttl > 0 => rec[i].ttl > 0 /\ rec'[i].who = rec[i].who
    BY <1>2, ClockOnKeys DEF IndexInv
  <2>3. \A s \in Subject, i \in Id : index'[s][i] # Absent => index[s][i] # Absent
    BY <1>2, <2>1 DEF Tick, Reap, AgedEntry, CountDown, Absent, TypeOK
  <2>4. \A t \in Task :
          /\ pc[t] = "killKey" => call[t].id \in Id
          /\ pc[t] \in {"killMany", "verify"} => call[t].todo \subseteq Id
    BY <2>1, TaskTypes DEF Deadly
  <2>. QED
    BY <2>1, <2>2, <2>3, <2>4 DEF Owned, Belongs, Open
<1>3. CASE UNCHANGED vars
  BY <1>3 DEF vars, Owned, Belongs, Open
<1>. QED
  BY <1>1, <1>2, <1>3 DEF Next

\* Lookups are honest in every reachable state.
LEMMA OwnedInvariant == Spec => [](IInv /\ IndexInv /\ Owned)
<1>1. Init => Owned
  BY DEF Init, Owned
<1>. QED
  BY <1>1, InvInit, InvStep, IndexInit, IndexStep, OwnedStep, PTL DEF Spec

\* Nothing but a revoke_all clears a whole index, or sets out to.
LEMMA SweptSteps ==
  ASSUME NEW t \in Task, Step(t), ~IndexClear(t)
  PROVE  swept' = swept
<1> USE DEF historyVars
<1>1. CASE \/ Anonymous(t) \/ LoadExpire(t) \/ LoadTtl(t) \/ Tidy(t) \/ CreateWrite(t)
           \/ CreateExpire(t) \/ CreateDeadline(t) \/ Adopt(t) \/ IndexAdd(t)
           \/ IndexExpire(t) \/ RotateDrop(t) \/ Revoke(t) \/ RevokeDrop(t)
           \/ Revoked(t) \/ KillKey(t) \/ KillDrop(t) \/ Fail(t) \/ Leave(t)
  BY <1>1 DEF Anonymous, LoadExpire, LoadTtl, Tidy, CreateWrite, CreateExpire,
     CreateDeadline, Adopt, IndexAdd, IndexExpire, RotateDrop, Revoke, RevokeDrop, Revoked,
     KillKey, KillDrop, Fail, Leave
<1>2. CASE \/ Save(t) \/ SaveExpire(t) \/ Touch(t) \/ Prune(t) \/ KillMany(t) \/ Verify(t)
           \/ \E s \in Who : Create(t, s) \/ Rotate(t, s)
           \/ \E s \in Subject : RevokeAll(t, s) \/ List(t, s)
           \/ \E i \in Id, s \in Subject : RevokeId(t, i, s)
           \/ \E i \in Id, refresh \in BOOLEAN, modern \in HasHsetex : Load(t, i, refresh, modern)
  BY <1>2 DEF Save, SaveExpire, Touch, Prune, KillMany, Verify, Create, Rotate, RevokeAll,
     List, RevokeId, Load
<1>. QED
  BY <1>1, <1>2 DEF Step

\* Without calls of revoke_all no task is in the middle of one.
LEMMA OverviewSteps ==
  ASSUME TypeOK, "revoke_all" \notin Ops, NEW t \in Task, Step(t),
         pc[t] \notin {"killMany", "clear"}
  PROVE  pc'[t] \notin {"killMany", "clear"}
<1> USE DEF Goto, EnterCall, Return, CanCall, TypeOK
<1>1. CASE \/ Anonymous(t) \/ LoadExpire(t) \/ LoadTtl(t) \/ Tidy(t) \/ CreateWrite(t)
           \/ CreateExpire(t) \/ CreateDeadline(t) \/ Adopt(t) \/ IndexAdd(t)
           \/ IndexExpire(t) \/ RotateDrop(t) \/ Revoke(t) \/ RevokeDrop(t)
           \/ Revoked(t) \/ KillKey(t) \/ KillDrop(t) \/ Fail(t) \/ Leave(t)
  BY <1>1 DEF Anonymous, LoadExpire, LoadTtl, Tidy, CreateWrite, CreateExpire,
     CreateDeadline, Adopt, IndexAdd, IndexExpire, RotateDrop, Revoke, RevokeDrop, Revoked,
     KillKey, KillDrop, Fail, Leave
<1>2. CASE KillMany(t) \/ IndexClear(t) \/ \E s \in Subject : RevokeAll(t, s)
  BY <1>2 DEF KillMany, IndexClear, RevokeAll
<1>3. CASE Save(t) \/ SaveExpire(t)
  BY ZenonT(40), <1>3 DEF Save, SaveExpire, AfterSave
<1>4. CASE Touch(t) \/ Prune(t) \/ Verify(t)
  BY <1>4 DEF Touch, Prune, Verify
<1>5. CASE \E s \in Who : Create(t, s) \/ Rotate(t, s)
  BY <1>5 DEF Create, Rotate
<1>6. CASE \/ \E s \in Subject : List(t, s)
           \/ \E i \in Id, s \in Subject : RevokeId(t, i, s)
           \/ \E i \in Id, refresh \in BOOLEAN, modern \in HasHsetex : Load(t, i, refresh, modern)
  BY <1>6 DEF List, RevokeId, Load
<1>. QED
  BY <1>1, <1>2, <1>3, <1>4, <1>5, <1>6 DEF Step

-----------------------------------------------------------------------------
(***************************************************************************)
(* The theorems                                                            *)
(***************************************************************************)

\* revoke_all reaches what it read: when it drops the index, none of the
\* identifiers in it works, on either command set, whatever the requests that
\* hold them write and wherever one of them fails.
THEOREM RevokeAllEnds == Spec => []RevokeAllEndsIds
<1>1. IInv /\ IndexInv => RevokeAllEndsIds
  BY DEF IndexInv, Deadly, RevokeAllEndsIds, Shut, Live, Open
<1>. QED
  BY <1>1, IndexInvariant, PTL

\* The tidy-up of load_with_status deletes no live session, where the server
\* removes a hash with its last field: what it read may be old, but what it
\* proves stays true.
THEOREM TidyIsSafe ==
  ASSUME ~LazyFields
  PROVE  Spec => []TidyKillsOnlyDead
<1>1. IInv /\ IndexInv => TidyKillsOnlyDead
  BY DEF IndexInv, Deadly, TidyKillsOnlyDead, Eager, Shut, Live, Open
<1>. QED
  BY <1>1, IndexInvariant, PTL

\* The index is an upper bound on Redis 8: a session that works and whose index
\* step completed is listed under its subject until it ends, unless a revoke_all
\* cleared an entry it had not read.
THEOREM IndexIsBound ==
  ASSUME HasHsetex = {TRUE}, ~LazyFields
  PROVE  Spec => []IndexCovers
<1>1. IInv /\ IndexInv => IndexCovers
  BY DEF IndexInv, Entries, IndexCovers, Redis8, Hsetex, Live, Open
<1>. QED
  BY <1>1, IndexInvariant, PTL

\* The upper bound as list_for_subject and _index_members state it, without an
\* exception: it does hold on Redis 8 where nobody calls revoke_all.
THEOREM IndexIsBoundWithoutRevokeAll ==
  ASSUME HasHsetex = {TRUE}, ~LazyFields, "revoke_all" \notin Ops
  PROVE  Spec => []IndexIsUpperBound
<1> DEFINE NoSweep == swept = {} /\ \A t \in Task : pc[t] \notin {"killMany", "clear"}
<1>1. Init => NoSweep
  BY DEF Init
<1>2. IInv /\ NoSweep /\ [Next]_vars => NoSweep'
  <2> SUFFICES ASSUME IInv, NoSweep, [Next]_vars
               PROVE  NoSweep'
    OBVIOUS
  <2>0. TypeOK
    BY DEF IInv
  <2>1. CASE \E t \in Task : Step(t)
    <3>1. PICK t \in Task : Step(t)
      BY <2>1
    <3>2. swept' = swept
      <4>1. ~IndexClear(t)
        BY DEF IndexClear
      <4>. QED
        BY <3>1, <4>1, SweptSteps
    <3>3. \A u \in Task \ {t} : pc'[u] = pc[u]
      BY <2>0, <3>1, OthersKept
    <3>4. pc'[t] \notin {"killMany", "clear"}
      BY <2>0, <3>1, OverviewSteps
    <3>. QED
      BY <3>2, <3>3, <3>4
  <2>2. CASE Tick \/ \E i \in Id : Reap(i)
    BY <2>2 DEF Tick, Reap, historyVars
  <2>3. CASE UNCHANGED vars
    BY <2>3 DEF vars
  <2>. QED
    BY <2>1, <2>2, <2>3 DEF Next
<1>3. IInv /\ IndexInv /\ NoSweep => IndexIsUpperBound
  <2> SUFFICES ASSUME IInv, IndexInv, NoSweep,
                      NEW i \in indexed, NEW s \in Subject, Live(i), rec[i].who = s
               PROVE  index[s][i] # Absent
    BY DEF IndexIsUpperBound, Members, IInv, TypeOK
  <2>1. i \in Id /\ rec[i].ttl \in Absent..AbsoluteTTL
    BY DEF IInv, TypeOK, Key
  <2>2. rec[i].ttl > 0 /\ index[s][i] >= rec[i].ttl
    BY DEF IndexInv, Entries, Redis8, Hsetex, Live, Open
  <2>. QED
    BY <2>1, <2>2 DEF Absent
<1>. QED
  BY <1>1, <1>2, <1>3, InvInit, InvStep, IndexInvariant, PTL DEF Spec

\* A listing prunes the entry of no session that still works: the verdicts of
\* _verify may be old when _prune_stale acts on them, and stay true.
PrunesOnlyDead ==
  \A t \in Task : pc[t] = "prune" => \A i \in call[t].members : ~Live(i)

\* On Redis 8 a listing prunes only what is over.
THEOREM PruningIsSafe ==
  ASSUME HasHsetex = {TRUE}, ~LazyFields
  PROVE  Spec => []PrunesOnlyDead
<1>1. IInv /\ IndexInv => PrunesOnlyDead
  BY DEF IndexInv, Deadly, PrunesOnlyDead, Redis8, Hsetex, Shut, Live, Open
<1>. QED
  BY <1>1, IndexInvariant, PTL

\* A subject is shown, and can end, its own sessions only: whatever has been
\* indexed, rotated or written again since, the identifiers that revoke_id and
\* revoke_all are about to delete and those a listing is about to verify stand
\* for no session of another subject.
OwnSessionsOnly ==
  \A t \in Task :
    /\ pc[t] = "killKey" /\ Live(call[t].id) => rec[call[t].id].who = call[t].arg
    /\ pc[t] \in {"killMany", "verify"} =>
         \A i \in call[t].todo : Live(i) => rec[i].who = call[t].arg

\* Lookups find own sessions, on either command set and any server.
THEOREM LookupsFindOwnSessions == Spec => []OwnSessionsOnly
<1>1. Owned => OwnSessionsOnly
  BY DEF Owned, OwnSessionsOnly, Belongs, Live, Open
<1>. QED
  BY <1>1, OwnedInvariant, PTL

\* The ways in which a session is meant to end: its clocks, a revoke or a
\* rotation of a request that holds it, a revocation under its own subject.
Ended(i) ==
  \/ Tick
  \/ \E t \in Task :
       \/ state[t].sid = i /\ (Revoke(t) \/ \E s \in Who : Rotate(t, s))
       \/ call[t].id = i /\ call[t].arg = rec[i].who /\ KillKey(t)
       \/ i \in call[t].todo /\ call[t].arg = rec[i].who /\ KillMany(t)

\* A session that works stops working in no other way: not by the tidy-up of
\* a load, a late save, a failed create or a listing.
EndsOnPurpose == [][\A i \in Id : Live(i) /\ ~Live(i)' => Ended(i)]_vars

\* Sessions end on purpose, where the server removes a hash with its last field.
THEOREM SessionsEndOnPurpose ==
  ASSUME ~LazyFields
  PROVE  Spec => EndsOnPurpose
<1>1. IInv /\ IndexInv /\ Owned /\ [Next]_vars =>
        [\A i \in Id : Live(i) /\ ~Live(i)' => Ended(i)]_vars
  <2> SUFFICES ASSUME IInv, IndexInv, Owned, Next, NEW i \in Id, Live(i), ~Live(i)'
               PROVE  Ended(i)
    OBVIOUS
  <2>0. /\ rec \in [Id -> Key] /\ TypeOK /\ Targets
        /\ FieldSeen(i) /\ rec[i].ttl > 0 /\ KeySeen(i)
    BY DEF IInv, TypeOK, Live, FieldSeen, KeySeen, Absent, NoTTL
  <2>1. CASE Tick
    BY <2>1 DEF Ended
  <2>2. CASE \E j \in Id : Reap(j)
    <3>1. PICK j \in Id : rec[j].idle = 0 /\ rec' = DelKey(j)
      BY <2>2 DEF Reap
    <3>2. j # i
      BY <2>0, <3>1 DEF FieldSeen, NoTTL
    <3>. QED
      BY <2>0, <3>1, <3>2 DEF DelKey, Live, FieldSeen
  <2>3. CASE \E t \in Task : Step(t)
    <3>1. PICK t \in Task : Step(t)
      BY <2>3
    <3>2. (\E j \in Id : rec' = DelKey(j)) /\ Deletion(t)
      <4>1. rec' # rec
        BY DEF Live, FieldSeen
      <4>2. ASSUME NEW j \in MaybeId
            PROVE  rec' # ExpireField(j)
        BY <2>0, <4>2, ClocksAssumption DEF ExpireField, Live, FieldSeen, Key
      <4>3. rec' # ExpireKey(call[t].new)
        BY <2>0, ClocksAssumption DEF ExpireKey, Live, FieldSeen, Key
      <4>4. ASSUME NEW j, NEW s, NEW modern \in BOOLEAN
            PROVE  rec' # WriteField(j, s, modern)
        BY <2>0, <4>4, ClocksAssumption DEF WriteField, Live, FieldSeen, Key, NoTTL
      <4>. QED
        BY <3>1, <4>1, <4>2, <4>3, <4>4, Commands, ServerAssumption
    <3>3. ASSUME NEW j, rec' = DelKey(j)
          PROVE  j = i
      BY <2>0, <3>3 DEF DelKey, Live, FieldSeen
    <3>4. CASE Tidy(t)
      <4>1. call[t].id = i
        BY <3>3, <3>4 DEF Tidy
      <4>. QED
        BY <3>4, <4>1 DEF IndexInv, Deadly, Tidy, Eager, Shut, Live, Open
    <3>5. CASE Revoke(t)
      BY <3>3, <3>5 DEF Revoke, Ended
    <3>6. CASE KillKey(t)
      <4>1. call[t].id = i /\ pc[t] = "killKey"
        BY <3>3, <3>6 DEF KillKey
      <4>. QED
        BY <2>0, <3>6, <4>1 DEF Owned, Belongs, Open, Ended
    <3>7. CASE KillMany(t)
      <4>1. i \in call[t].todo /\ pc[t] = "killMany"
        BY <3>3, <3>7 DEF KillMany
      <4>. QED
        BY <2>0, <3>7, <4>1 DEF Owned, Belongs, Open, Ended
    <3>8. CASE \E s \in Who : Rotate(t, s)
      <4>1. rec' # rec
        BY DEF Live, FieldSeen
      <4>2. state[t].sid = i
        BY <3>3, <3>8, <4>1 DEF Rotate
      <4>. QED
        BY <3>8, <4>2 DEF Ended
    <3>. QED
      BY <3>2, <3>4, <3>5, <3>6, <3>7, <3>8 DEF Deletion
  <2>. QED
    BY <2>1, <2>2, <2>3 DEF Next
<1>. QED
  BY <1>1, OwnedInvariant, PTL DEF Spec, EndsOnPurpose
=============================================================================

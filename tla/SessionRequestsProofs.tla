----------------------- MODULE SessionRequestsProofs -----------------------
(***************************************************************************)
(* Proofs about SessionRequests, for every set of identifiers, subjects    *)
(* and requests, every setting and any number of operations in a handler.  *)
(*                                                                         *)
(* The argument: an identifier a response has named is a request's only    *)
(* as the one it was loaded from, and a request writes that one only when  *)
(* its principal has not changed; an identifier a request has drawn itself *)
(* is its alone until its response names it (Held, Apart).                 *)
(***************************************************************************)
EXTENDS SessionRequests, TLAPS

-----------------------------------------------------------------------------
(***************************************************************************)
(* The invariant                                                           *)
(***************************************************************************)

\* Whatever is live, listed or out has been drawn.
Known ==
  /\ exposed \subseteq used
  /\ cookie \in exposed \cup {NoId}
  /\ \A i \in Id : Live(i) => i \in used
  /\ \A s \in Subject : index[s] \subseteq used
  /\ unindexed \subseteq used

\* The request has an identifier it drew itself.
Drew(q) == q.sid # q.loaded /\ q.sid # NoId

\* A request whose handler runs.
Held(q) ==
  q.pc = "handler" =>
    /\ q.loaded \in exposed \cup {NoId} /\ q.unloaded \in exposed \cup {NoId}
    /\ q.sid \in used \cup {NoId}
    /\ q.loaded # NoId => q.unloaded = NoId
    /\ q.loaded # NoId /\ q.sid # q.loaded => ~Live(q.loaded)
    /\ q.loaded # NoId /\ q.sid = q.loaded /\ Live(q.sid) => store[q.sid].who = q.before
    /\ q.revoked => q.sid = NoId
    /\ ~q.modified => q.data.who = q.before /\ q.subject = q.before
    /\ q.returned # NoId => q.sid = q.returned /\ Drew(q)
    /\ Drew(q) => q.sid \notin exposed
    /\ Drew(q) /\ ~q.modified /\ Live(q.sid) =>
         /\ store[q.sid].who = q.before
         /\ q.before = NoSubject \/ q.sid \in unindexed \/ q.sid \in index[q.before]

\* A request whose response is on its way.
SentOK(q) ==
  q.pc = "sent" =>
    /\ q.reply.kind = "clears" /\ q.reply.forgot =>
         \A i \in Id \cap {q.loaded, q.unloaded, q.sid} : i \in used /\ ~Live(i)
    /\ q.reply.kind = "names" =>
         /\ q.reply.id \in exposed
         /\ q.returned # NoId => q.reply.id = q.returned
         /\ q.reply.failed /\ Live(q.reply.id) => store[q.reply.id].who = q.before

\* An identifier that a request drew is no other request's.
Apart ==
  \A r, u \in Request :
    r # u /\ req[r].pc = "handler" /\ req[u].pc = "handler" /\ Drew(req[r]) =>
      req[r].sid # req[u].sid

\* What a revoke_all has read was drawn; once it has deleted that, it is over.
SweepOK(x) ==
  x.at # "none" =>
    /\ x.of \in Subject /\ x.members \subseteq used
    /\ x.at = "deleted" => \A i \in x.members : ~Live(i)

IInv ==
  /\ TypeOK
  /\ Known
  /\ Apart
  /\ ExposedAreIndexed
  /\ \A r \in Request : SweepOK(sweep[r])
  /\ \A r \in Request : Held(req[r]) /\ SentOK(req[r])

-----------------------------------------------------------------------------
(***************************************************************************)
(* Worlds                                                                  *)
(***************************************************************************)

Record == [who : Who, items : BOOLEAN, live : BOOLEAN]
World == [store : [Id -> Record], index : [Subject -> SUBSET Id],
          used : SUBSET Id, unindexed : SUBSET Id]

\* In a world too, what is live or listed has been drawn.
Closed(w) ==
  /\ w \in World
  /\ \A i \in Id : w.store[i].live => i \in w.used
  /\ \A s \in Subject : w.index[s] \subseteq w.used
  /\ w.unindexed \subseteq w.used

\* What has been lost sight of still is, or is over, or is listed again.
Tracked(w, j) ==
  \/ j \in w.unindexed
  \/ ~w.store[j].live
  \/ w.store[j].who \in Subject /\ j \in w.index[w.store[j].who]

\* What may become of a world: records are drawn, the record of i ends, or is
\* written if it is live; and what is no longer listed has ended.
After(v, w, i, written) ==
  /\ Closed(w)
  /\ v.used \subseteq w.used
  /\ \A j \in v.unindexed : Tracked(w, j)
  /\ \A j \in Id :
       \/ w.store[j] = v.store[j]
       \/ j \in w.used \ v.used
       \/ j = i /\ w.store[j] = Gone
       \/ j = i /\ v.store[j].live /\ w.store[j] \in written
  /\ \A j \in Id, s \in Subject :
       j \in v.index[s] => j \in w.index[s] \/ (j = i /\ w.store[j] = Gone)

\* An identifier whose record is listed under s, or not known to be.
Listed(w, s, i) == s = NoSubject \/ i \in w.unindexed \/ i \in w.index[s]

LEMMA RecordTypes ==
  /\ Gone \in Record /\ ~Gone.live /\ Gone.who = NoSubject
  /\ NoData \in Data /\ NoData.who = NoSubject
  /\ \A d \in Data : Stored(d) \in Record /\ Stored(d).live /\ Stored(d).who = d.who
  /\ NoSubject \in Who /\ NoId \in MaybeId
BY DEF Gone, Record, NoData, Data, Stored, Who, MaybeId

\* The world as it is.
LEMMA NowClosed ==
  ASSUME TypeOK, Known
  PROVE  /\ Closed(Now)
         /\ Now.store = store /\ Now.index = index /\ Now.used = used
         /\ Now.unindexed = unindexed
BY DEF TypeOK, Known, Closed, World, Now, Record, Live

\* Nothing may happen to a world.
LEMMA AfterItself ==
  ASSUME NEW w, Closed(w), NEW i, NEW written
  PROVE  After(w, w, i, written)
BY DEF After, Tracked

\* A drawn identifier that is not live stays dead.
LEMMA DeadStays ==
  ASSUME NEW v, NEW w, NEW i, NEW written, After(v, w, i, written),
         NEW j \in Id, j \in v.used, ~v.store[j].live
  PROVE  j \in w.used /\ ~w.store[j].live
BY RecordTypes DEF After, Closed, World

\* The record of i ends, then its entry is dropped.
LEMMA DeletedWorld ==
  ASSUME NEW w, Closed(w), NEW i \in Id
  PROVE  /\ After(w, Deleted(w, i), i, {})
         /\ Deleted(w, i).store[i] = Gone
         /\ Deleted(w, i).used = w.used /\ Deleted(w, i).unindexed = w.unindexed
<1>1. PICK d : d = Deleted(w, i)
  OBVIOUS
<1>2. /\ d.store = [w.store EXCEPT ![i] = Gone] /\ d.index = w.index /\ d.used = w.used
      /\ d.unindexed = w.unindexed /\ d \in World
  BY <1>1, RecordTypes DEF Deleted, Closed, World
<1>3. d.store[i] = Gone /\ \A j \in Id : j # i => d.store[j] = w.store[j]
  BY <1>2 DEF Closed, World
<1>4. Closed(d)
  BY <1>2, <1>3, RecordTypes DEF Closed
<1>5. After(w, d, i, {})
  BY <1>2, <1>3, <1>4 DEF After, Tracked
<1>. QED
  BY <1>1, <1>2, <1>3, <1>5

LEMMA DroppedWorld ==
  ASSUME NEW w, Closed(w), NEW s \in Who, NEW i \in Id, w.store[i] = Gone
  PROVE  /\ After(w, Dropped(w, s, i), i, {})
         /\ Dropped(w, s, i).store = w.store
         /\ Dropped(w, s, i).used = w.used /\ Dropped(w, s, i).unindexed = w.unindexed
<1>1. CASE s = NoSubject
  BY <1>1, AfterItself DEF Dropped
<1>2. CASE s \in Subject
  <2>1. PICK d : d = Dropped(w, s, i)
    OBVIOUS
  <2>2. /\ d.store = w.store /\ d.used = w.used /\ d.unindexed = w.unindexed
        /\ d.index = [w.index EXCEPT ![s] = @ \ {i}] /\ d \in World
    BY <1>2, <2>1, NamesAssumption DEF Dropped, Closed, World
  <2>3. \A r \in Subject : d.index[r] \subseteq w.index[r] /\ w.index[r] \ {i} \subseteq d.index[r]
    BY <1>2, <2>2 DEF Closed, World
  <2>4. Closed(d)
    BY <2>2, <2>3 DEF Closed
  <2>5. After(w, d, i, {})
    BY <2>2, <2>3, <2>4 DEF After, Tracked
  <2>. QED
    BY <2>1, <2>2, <2>5
<1>. QED
  BY <1>1, <1>2 DEF Who

\* One thing after another.
LEMMA AfterBoth ==
  ASSUME NEW v, NEW w, NEW x, NEW i, NEW written, Closed(v),
         After(v, w, i, written), After(w, x, i, {}) \/ After(w, x, NoId, {})
  PROVE  After(v, x, i, written)
<1>0. \A j \in Id : i = j \/ i # j
  OBVIOUS
<1>1. \A j \in Id : j # NoId
  BY NamesAssumption
<1>2. ASSUME NEW j \in Id
      PROVE  /\ \/ x.store[j] = v.store[j]
                \/ j \in x.used \ v.used
                \/ j = i /\ x.store[j] = Gone
                \/ j = i /\ v.store[j].live /\ x.store[j] \in written
             /\ \A s \in Subject :
                  j \in v.index[s] => j \in x.index[s] \/ (j = i /\ x.store[j] = Gone)
  BY <1>1, <1>2 DEF After, Closed
<1>3. Closed(x) /\ v.used \subseteq x.used
  BY DEF After
<1>4. ASSUME NEW j \in v.unindexed
      PROVE  Tracked(x, j)
  <2>1. j \in Id /\ j \in v.used /\ j \in w.used /\ Tracked(w, j)
    BY DEF After, Closed, World
  <2>2. x.store[j] = w.store[j] \/ ~x.store[j].live
    BY <1>1, <2>1, RecordTypes DEF After
  <2>3. CASE j \in w.unindexed
    BY <2>3 DEF After
  <2>4. CASE ~w.store[j].live
    BY <2>2, <2>4 DEF Tracked
  <2>5. CASE w.store[j].who \in Subject /\ j \in w.index[w.store[j].who]
    <3>1. j \in x.index[w.store[j].who] \/ ~x.store[j].live
      BY <1>1, <2>1, <2>5, RecordTypes DEF After
    <3>. QED
      BY <2>2, <2>5, <3>1 DEF Tracked
  <2>. QED
    BY <2>1, <2>3, <2>4, <2>5 DEF Tracked
<1>. QED
  BY <1>2, <1>3, <1>4 DEF After

-----------------------------------------------------------------------------
(***************************************************************************)
(* Outcomes of the store operations                                        *)
(***************************************************************************)

\* What an operation leaves of a request, but for its identifier, its subject
\* and its flags.
Same(p, q) ==
  /\ p \in Requests
  /\ p.pc = q.pc /\ p.ops = q.ops /\ p.before = q.before /\ p.loaded = q.loaded
  /\ p.unloaded = q.unloaded /\ p.returned = q.returned /\ p.reply = q.reply

\* The request goes on with identifier i.
Has(p, q, i) == Same(p, q) /\ p.sid = i /\ p.data = q.data /\ p.modified = q.modified

\* Ending the session in hand.
LEMMA EndingOut ==
  ASSUME TypeOK, Known, NEW q, q.sid \in used \cup {NoId}, q.subject \in Who,
         NEW o \in Ending(q)
  PROVE  /\ o.q = q /\ o.ok \in BOOLEAN
         /\ After(Now, o.w, q.sid, {}) /\ o.w.used = used /\ o.w.unindexed = unindexed
         /\ o.ok /\ q.sid # NoId => o.w.store[q.sid] = Gone
<1>0. Closed(Now) /\ Now.used = used /\ Now.unindexed = unindexed
  BY NowClosed
<1>1. CASE q.sid = NoId
  <2>1. o = Done(Now, q)
    BY <1>1 DEF Ending
  <2>. QED
    BY <1>0, <1>1, <2>1, AfterItself DEF Done
<1>2. CASE q.sid \in Id
  <2>1. PICK d : d = Deleted(Now, q.sid)
    OBVIOUS
  <2>2. /\ After(Now, d, q.sid, {}) /\ d.store[q.sid] = Gone /\ d.used = used
        /\ d.unindexed = unindexed
    BY <1>0, <1>2, <2>1, DeletedWorld
  <2>3. PICK e : e = Dropped(d, q.subject, q.sid)
    OBVIOUS
  <2>4. /\ After(d, e, q.sid, {}) /\ e.store = d.store /\ e.used = used
        /\ e.unindexed = unindexed
    BY <1>2, <2>2, <2>3, DroppedWorld DEF After
  <2>5. After(Now, e, q.sid, {})
    BY <1>0, <2>2, <2>4, AfterBoth
  <2>6. o = Raised(Now, q) \/ o = Raised(d, q) \/ o = Raised(e, q) \/ o = Done(e, q)
    BY <1>2, <2>1, <2>3, NamesAssumption DEF Ending
  <2>. QED
    <3>1. \/ o.w = Now /\ o.q = q /\ o.ok = FALSE
          \/ o.w = d /\ o.q = q /\ o.ok = FALSE
          \/ o.w = e /\ o.q = q /\ o.ok = FALSE
          \/ o.w = e /\ o.q = q /\ o.ok = TRUE
      BY <2>6 DEF Done, Raised
    <3>2. After(Now, Now, q.sid, {})
      BY <1>0, AfterItself
    <3>. QED
      BY <1>0, <2>2, <2>4, <2>5, <3>1, <3>2
<1>. QED
  BY <1>1, <1>2 DEF TypeOK

\* What a create of i leaves of the world w: a drawn identifier, and unless it
\* raised a record and a request that has it.
Created(o, w, q, i) ==
  /\ After(w, o.w, NoId, {}) /\ i \in o.w.used /\ o.w.unindexed = w.unindexed
  /\ \/ o.q = q /\ o.ok = FALSE
     \/ Has(o.q, q, i) /\ o.ok = TRUE /\ o.w.store[i] = Stored(q.data)

\* A create of a drawn identifier.
LEMMA CreatingOut ==
  ASSUME NEW w, Closed(w), NEW q \in Requests, NEW i \in Id, i \notin w.used,
         NEW o \in Creating(w, q, i)
  PROVE  Created(o, w, q, i)
<1>1. PICK d : d = [w EXCEPT !.used = @ \cup {i}]
  OBVIOUS
<1>2. /\ d.store = w.store /\ d.index = w.index /\ d.unindexed = w.unindexed
      /\ d.used = w.used \cup {i} /\ d \in World /\ q.data \in Data
  BY <1>1 DEF Closed, World, Requests
<1>3. Closed(d)
  BY <1>2 DEF Closed
<1>4. After(w, d, NoId, {})
  BY <1>2, <1>3 DEF After, Tracked
<1>5. PICK e : e = [d EXCEPT !.store[i] = Stored(q.data)]
  OBVIOUS
<1>6. /\ e.store = [d.store EXCEPT ![i] = Stored(q.data)] /\ e.index = d.index
      /\ e.unindexed = d.unindexed /\ e.used = d.used /\ e \in World
  BY <1>2, <1>5, RecordTypes DEF World
<1>7. e.store[i] = Stored(q.data) /\ \A j \in Id : j # i => e.store[j] = d.store[j]
  BY <1>2, <1>6 DEF World
<1>8. Closed(e)
  BY <1>2, <1>3, <1>6, <1>7 DEF Closed
<1>9. After(w, e, NoId, {})
  <2>1. \A j \in w.unindexed : j \in e.unindexed
    BY <1>2, <1>6
  <2>. QED
    BY <1>2, <1>6, <1>7, <1>8, <2>1 DEF After, Tracked
<1>11. PICK p : p = [q EXCEPT !.sid = i]
  OBVIOUS
<1>12. Has(p, q, i)
  BY <1>11 DEF Has, Same, Requests, MaybeId
<1>10. \/ o = Raised(d, q) \/ o = Raised(e, q)
       \/ o = Done(e, p)
  BY <1>1, <1>5, <1>11 DEF Creating
<1>. QED
  <2>1. \/ o.w = d /\ o.q = q /\ o.ok = FALSE
        \/ o.w = e /\ o.q = q /\ o.ok = FALSE
        \/ o.w = e /\ o.q = p /\ o.ok = TRUE
    BY <1>10 DEF Done, Raised
  <2>2. /\ i \in d.used /\ i \in e.used
        /\ d.unindexed = w.unindexed /\ e.unindexed = w.unindexed
    BY <1>2, <1>6
  <2>. QED
    BY <1>4, <1>7, <1>9, <1>12, <2>1, <2>2 DEF Created

\* Indexing i under s.
LEMMA IndexingOut ==
  ASSUME NEW w, Closed(w), NEW q, NEW s \in Who, NEW i \in Id, i \in w.used,
         NEW o \in Indexing(w, q, s, i),
         i \in w.unindexed /\ w.store[i].live => w.store[i].who = s
  PROVE  /\ After(w, o.w, NoId, {}) /\ o.q = q /\ o.ok \in BOOLEAN
         /\ o.w.store = w.store /\ o.w.used = w.used
         /\ Listed(o.w, s, i)
<1>1. CASE s = NoSubject
  <2>1. o = Done(w, q)
    BY <1>1 DEF Indexing
  <2>. QED
    BY <1>1, <2>1, AfterItself DEF Listed, Done
<1>2. CASE s \in Subject
  <2>1. PICK d : d = [w EXCEPT !.index[s] = @ \cup {i}, !.unindexed = @ \ {i}]
    OBVIOUS
  <2>2. /\ d.store = w.store /\ d.used = w.used /\ d.unindexed = w.unindexed \ {i}
        /\ d.index = [w.index EXCEPT ![s] = @ \cup {i}] /\ d \in World
    BY <1>2, <2>1 DEF Closed, World
  <2>3. /\ i \in d.index[s]
        /\ \A r \in Subject : w.index[r] \subseteq d.index[r] /\ d.index[r] \subseteq w.index[r] \cup {i}
    BY <1>2, <2>2 DEF Closed, World
  <2>4. Closed(d)
    BY <2>2, <2>3 DEF Closed
  <2>5. After(w, d, NoId, {}) /\ Listed(d, s, i)
    <3>1. ASSUME NEW j \in w.unindexed
          PROVE  Tracked(d, j)
      BY <1>2, <2>2, <2>3 DEF Tracked
    <3>. QED
      BY <2>2, <2>3, <2>4, <3>1 DEF After, Listed
  <2>6. PICK e : e = [w EXCEPT !.unindexed = @ \cup {i}]
    OBVIOUS
  <2>7. /\ e.store = w.store /\ e.used = w.used /\ e.index = w.index
        /\ e.unindexed = w.unindexed \cup {i} /\ e \in World
    BY <2>6 DEF Closed, World
  <2>8. Closed(e)
    BY <2>7 DEF Closed
  <2>9. After(w, e, NoId, {}) /\ Listed(e, s, i)
    BY <2>7, <2>8 DEF After, Listed, Tracked
  <2>10. o = Done(d, q) \/ o = Raised(d, q) \/ o = Raised(e, q)
    BY <1>2, <2>1, <2>6, NamesAssumption DEF Indexing
  <2>. QED
    <3>1. \/ o.w = d /\ o.q = q /\ o.ok = TRUE
          \/ o.w = d /\ o.q = q /\ o.ok = FALSE
          \/ o.w = e /\ o.q = q /\ o.ok = FALSE
      BY <2>10 DEF Done, Raised
    <3>. QED
      BY <2>2, <2>5, <2>7, <2>9, <3>1
<1>. QED
  BY <1>1, <1>2 DEF Who

\* What a rotation leaves: it raised, or the request goes on with an identifier
\* it drew.
Rotates(o, q, s) ==
  /\ After(Now, o.w, q.sid, {}) /\ o.ok \in BOOLEAN
  /\ \/ o.q = q /\ ~o.ok
     \/ /\ Has(o.q, q, o.q.sid)
        /\ o.q.subject = s /\ ~o.q.rotated /\ ~o.q.revoked
        /\ o.q.sid \in Id \ used /\ o.q.sid \in o.w.used
        /\ o.w.store[o.q.sid] = Stored(q.data)
        /\ Listed(o.w, s, o.q.sid)
        /\ q.sid # NoId => ~o.w.store[q.sid].live

\* Where a rotation can stop.
LEMMA RotatedCases ==
  ASSUME NEW q, NEW s, NEW o \in Rotated(q, s)
  PROVE  \/ o \in Ending(q) /\ ~o.ok
         \/ \E e \in Ending(q), i \in Id \ used :
              e.ok /\ o \in Creating(e.w, q, i) /\ ~o.ok
         \/ \E e \in Ending(q), i \in Id \ used :
              e.ok /\ \E c \in Creating(e.w, q, i) :
                c.ok /\ o \in Indexing(c.w, [c.q EXCEPT !.rotated = FALSE, !.revoked = FALSE,
                                                         !.subject = s], s, c.q.sid)
<1>1. PICK R : R = Rotating(q)
  OBVIOUS
<1>2. \/ o \in R /\ ~o.ok
      \/ \E c \in R : c.ok /\ o \in Indexing(c.w, [c.q EXCEPT !.rotated = FALSE,
                           !.revoked = FALSE, !.subject = s], s, c.q.sid)
  BY <1>1 DEF Rotated
<1>3. \A c \in R : \/ c \in Ending(q) /\ ~c.ok
                   \/ \E e \in Ending(q), i \in Id \ used : e.ok /\ c \in Creating(e.w, q, i)
  BY <1>1 DEF Rotating
<1>. QED
  BY <1>2, <1>3

\* rotate: it raises, or the request goes on with an identifier it drew.
LEMMA RotatedOut ==
  ASSUME TypeOK, Known, NEW q \in Requests, q.sid \in used \cup {NoId}, NEW s \in Who,
         NEW o \in Rotated(q, s)
  PROVE  Rotates(o, q, s)
<1>0. Closed(Now) /\ Now.used = used /\ q.data \in Data /\ q.subject \in Who
  BY NowClosed DEF Requests
<1>1. CASE o \in Ending(q) /\ ~o.ok
  BY <1>0, <1>1, EndingOut DEF Rotates
<1>2. ASSUME NEW e \in Ending(q), e.ok, NEW i \in Id \ used, NEW c \in Creating(e.w, q, i)
      PROVE  /\ After(Now, c.w, q.sid, {}) /\ i \in c.w.used /\ i \notin c.w.unindexed
             /\ q.sid # NoId => ~c.w.store[q.sid].live
             /\ \/ c.q = q /\ c.ok = FALSE
                \/ Has(c.q, q, i) /\ c.ok = TRUE /\ c.w.store[i] = Stored(q.data)
  <2>0. PICK w : w = e.w
    OBVIOUS
  <2>1. /\ After(Now, w, q.sid, {}) /\ w.used = used /\ w.unindexed = unindexed
        /\ q.sid # NoId => w.store[q.sid] = Gone
    BY <1>0, <1>2, <2>0, EndingOut
  <2>2. Closed(w)
    BY <2>1 DEF After
  <2>3. /\ After(w, c.w, NoId, {}) /\ i \in c.w.used /\ c.w.unindexed = unindexed
        /\ \/ c.q = q /\ c.ok = FALSE
           \/ Has(c.q, q, i) /\ c.ok = TRUE /\ c.w.store[i] = Stored(q.data)
    <3>1. i \in Id /\ i \notin w.used /\ c \in Creating(w, q, i)
      BY <1>2, <2>0, <2>1
    <3>2. Created(c, w, q, i)
      BY <2>2, <3>1, CreatingOut
    <3>. QED
      BY <2>1, <3>2 DEF Created
  <2>4. After(Now, c.w, q.sid, {})
    BY <1>0, <2>1, <2>3, AfterBoth
  <2>5. q.sid # NoId => ~c.w.store[q.sid].live
    <3>1. SUFFICES ASSUME q.sid # NoId
                   PROVE  ~c.w.store[q.sid].live
      OBVIOUS
    <3>2. q.sid \in Id /\ q.sid \in w.used /\ ~w.store[q.sid].live
      BY <2>1, <3>1, RecordTypes DEF TypeOK
    <3>. QED
      BY <2>3, <3>2, DeadStays
  <2>. QED
    BY <1>2, <2>3, <2>4, <2>5 DEF Known
<1>3. ASSUME NEW e \in Ending(q), e.ok, NEW i \in Id \ used, NEW c \in Creating(e.w, q, i), c.ok,
             NEW a, a = [c.q EXCEPT !.rotated = FALSE, !.revoked = FALSE, !.subject = s],
             o \in Indexing(c.w, a, s, c.q.sid)
      PROVE  Rotates(o, q, s)
  <2>1. /\ After(Now, c.w, q.sid, {}) /\ i \in c.w.used /\ i \notin c.w.unindexed
        /\ q.sid # NoId => ~c.w.store[q.sid].live
        /\ Has(c.q, q, i) /\ c.w.store[i] = Stored(q.data)
    BY <1>2, <1>3
  <2>2. /\ c.q \in Requests /\ c.q.sid = i /\ c.q.data = q.data /\ c.q.modified = q.modified
        /\ Same(c.q, q)
    BY <2>1 DEF Has, Same
  <2>3. /\ a \in Requests /\ a.sid = i /\ a.data = q.data /\ a.modified = q.modified
        /\ a.subject = s /\ ~a.rotated /\ ~a.revoked /\ Same(a, q)
    BY <1>3, <2>2 DEF Requests, Same
  <2>4. Closed(c.w)
    BY <2>1 DEF After
  <2>5. /\ After(c.w, o.w, NoId, {}) /\ o.q = a /\ o.ok \in BOOLEAN
        /\ o.w.store = c.w.store /\ o.w.used = c.w.used /\ Listed(o.w, s, i)
    BY <1>3, <2>1, <2>2, <2>4, IndexingOut
  <2>6. After(Now, o.w, q.sid, {})
    BY <1>0, <2>1, <2>5, AfterBoth
  <2>. QED
    BY <1>3, <2>1, <2>3, <2>5, <2>6 DEF Rotates, Has
<1>4. \A e \in Ending(q), i \in Id \ used : e.ok => \A c \in Creating(e.w, q, i) : c.ok \in BOOLEAN
  BY <1>2
<1>5. \/ o \in Ending(q) /\ ~o.ok
      \/ \E e \in Ending(q), i \in Id \ used :
           e.ok /\ o \in Creating(e.w, q, i) /\ ~o.ok
      \/ \E e \in Ending(q), i \in Id \ used :
           e.ok /\ \E c \in Creating(e.w, q, i) :
             c.ok /\ o \in Indexing(c.w, [c.q EXCEPT !.rotated = FALSE, !.revoked = FALSE,
                                                      !.subject = s], s, c.q.sid)
  BY RotatedCases
<1>6. ASSUME NEW e \in Ending(q), e.ok, NEW i \in Id \ used, o \in Creating(e.w, q, i), ~o.ok
      PROVE  Rotates(o, q, s)
  BY <1>2, <1>6 DEF Rotates
<1>. QED
  BY <1>1, <1>3, <1>5, <1>6

\* What a revocation leaves: it raised, or the session has ended.
Revokes(o, q) ==
  /\ After(Now, o.w, q.sid, {}) /\ o.ok \in BOOLEAN
  /\ \/ o.q = q /\ ~o.ok
     \/ /\ Same(o.q, q) /\ o.q.data = NoData /\ o.q.modified
        /\ o.q.sid = NoId /\ o.q.subject = NoSubject /\ o.q.revoked /\ ~o.q.rotated
        /\ q.sid # NoId => ~o.w.store[q.sid].live

LEMMA RevokedOut ==
  ASSUME TypeOK, Known, NEW q \in Requests, q.sid \in used \cup {NoId},
         NEW o \in Revoked(q)
  PROVE  Revokes(o, q)
<1>0. q.subject \in Who
  BY DEF Requests
<1>1. PICK e \in Ending(q) :
        o = IF e.ok THEN Done(e.w, [e.q EXCEPT !.data = NoData, !.accessed = TRUE,
                                      !.modified = TRUE, !.sid = NoId, !.subject = NoSubject,
                                      !.revoked = TRUE, !.rotated = FALSE])
            ELSE e
  BY DEF Revoked
<1>2. /\ e.q = q /\ e.ok \in BOOLEAN
      /\ After(Now, e.w, q.sid, {}) /\ e.w.used = used
      /\ e.ok /\ q.sid # NoId => e.w.store[q.sid] = Gone
  BY <1>0, EndingOut
<1>3. PICK p : p = [q EXCEPT !.data = NoData, !.accessed = TRUE,
                             !.modified = TRUE, !.sid = NoId, !.subject = NoSubject,
                             !.revoked = TRUE, !.rotated = FALSE]
  OBVIOUS
<1>4. /\ Same(p, q) /\ p.data = NoData /\ p.modified
      /\ p.sid = NoId /\ p.subject = NoSubject /\ p.revoked /\ ~p.rotated
  BY <1>3, RecordTypes DEF Requests, Same
<1>5. \/ e.ok /\ o.w = e.w /\ o.q = p /\ o.ok = TRUE
      \/ ~e.ok /\ o = e
  BY <1>1, <1>2, <1>3 DEF Done
<1>. QED
  BY <1>2, <1>4, <1>5, RecordTypes DEF Revokes

\* What a write leaves: it raised, or the session is stored and indexed under
\* the subject its payload has.
Writes(o, q) ==
  /\ After(Now, o.w, q.sid, {Stored(q.data)}) /\ o.ok \in BOOLEAN
  /\ Has(o.q, q, o.q.sid)
  /\ q.sid # NoId => o.q.sid = q.sid
  /\ o.ok =>
       /\ o.q.sid \in Id /\ o.q.sid \in o.w.used
       /\ q.sid = NoId => o.q.sid \notin used
       /\ o.w.store[o.q.sid].live => o.w.store[o.q.sid].who = q.data.who
       /\ Listed(o.w, q.data.who, o.q.sid)

\* A save: the record of q is written if it is live.
LEMMA SavedWorld ==
  ASSUME TypeOK, Known, NEW q \in Requests, q.sid \in Id, NEW w,
         w = [Now EXCEPT !.store[q.sid] = IF @.live THEN Stored(q.data) ELSE @]
  PROVE  /\ After(Now, w, q.sid, {Stored(q.data)}) /\ w.used = used
         /\ w.store[q.sid].live => w.store[q.sid].who = q.data.who
<1>1. /\ Closed(Now) /\ Now.used = used /\ Now.store = store /\ q.data \in Data
      /\ store \in [Id -> Record]
  BY NowClosed DEF Requests, Closed, World
<1>2. PICK e \in Record : e = IF store[q.sid].live THEN Stored(q.data) ELSE store[q.sid]
  BY <1>1, RecordTypes
<1>3. /\ w.store = [store EXCEPT ![q.sid] = e] /\ w.used = used
      /\ w.index = Now.index /\ w.unindexed = Now.unindexed /\ w \in World
  BY <1>1, <1>2 DEF Closed, World
<1>4. w.store[q.sid] = e /\ \A j \in Id : j # q.sid => w.store[j] = store[j]
  BY <1>1, <1>3
<1>5. Closed(w)
  BY <1>1, <1>2, <1>3, <1>4 DEF Closed
<1>6. e = store[q.sid] \/ (store[q.sid].live /\ e = Stored(q.data))
  BY <1>2
<1>7. After(Now, w, q.sid, {Stored(q.data)})
  BY <1>1, <1>3, <1>4, <1>5, <1>6 DEF After, Tracked
<1>8. e.live => e.who = q.data.who
  BY <1>1, <1>2, RecordTypes
<1>. QED
  BY <1>3, <1>4, <1>7, <1>8

\* The first half of a write.
Stores(e, q) ==
  /\ After(Now, e.w, q.sid, {Stored(q.data)}) /\ e.ok \in BOOLEAN
  /\ Has(e.q, q, e.q.sid)
  /\ q.sid # NoId => e.q.sid = q.sid
  /\ e.ok =>
       /\ e.q.sid \in Id /\ e.q.sid \in e.w.used
       /\ q.sid = NoId => e.q.sid \notin used
       /\ e.w.store[e.q.sid].live => e.w.store[e.q.sid].who = q.data.who

LEMMA WrittenOut ==
  ASSUME TypeOK, Known, NEW q \in Requests, q.sid \in used \cup {NoId},
         NEW o \in Written(q)
  PROVE  Writes(o, q)
<1>0. /\ Closed(Now) /\ Now.used = used /\ q.data \in Data /\ q.data.who \in Who
      /\ After(Now, Now, q.sid, {Stored(q.data)}) /\ Has(q, q, q.sid)
  BY NowClosed, AfterItself DEF Requests, Data, Has, Same
<1>1. PICK saved : saved = [Now EXCEPT !.store[q.sid] = IF @.live THEN Stored(q.data) ELSE @]
  OBVIOUS
<1>2. ASSUME NEW e, \/ q.sid = NoId /\ \E i \in Id \ used : e \in Creating(Now, q, i)
                    \/ q.sid # NoId /\ e \in {Raised(Now, q), Raised(saved, q), Done(saved, q)}
      PROVE  Stores(e, q)
  <2>1. CASE q.sid = NoId
    <3>1. PICK i \in Id : i \notin used /\ e \in Creating(Now, q, i)
      BY <1>2, <2>1
    <3>2. Created(e, Now, q, i)
      BY <1>0, <3>1, CreatingOut
    <3>3. After(Now, e.w, q.sid, {Stored(q.data)})
      BY <1>0, <2>1, <3>2, AfterBoth DEF Created
    <3>4. CASE e.q = q /\ e.ok = FALSE
      BY <1>0, <2>1, <3>3, <3>4 DEF Stores
    <3>5. CASE Has(e.q, q, i) /\ e.ok = TRUE /\ e.w.store[i] = Stored(q.data)
      <4>1. e.q.sid = i /\ Has(e.q, q, e.q.sid)
        BY <3>5 DEF Has
      <4>2. i \in e.w.used /\ e.w.store[i].who = q.data.who
        BY <1>0, <3>2, <3>5, RecordTypes DEF Created
      <4>. QED
        BY <2>1, <3>1, <3>3, <3>5, <4>1, <4>2 DEF Stores
    <3>. QED
      BY <3>2, <3>4, <3>5 DEF Created
  <2>2. CASE q.sid \in Id
    <3>1. /\ After(Now, saved, q.sid, {Stored(q.data)}) /\ saved.used = used
          /\ saved.store[q.sid].live => saved.store[q.sid].who = q.data.who
      BY <1>1, <2>2, SavedWorld
    <3>2. \/ e.w = Now /\ e.q = q /\ e.ok = FALSE
          \/ e.w = saved /\ e.q = q /\ e.ok = FALSE
          \/ e.w = saved /\ e.q = q /\ e.ok = TRUE
      BY <1>2, <2>2, NamesAssumption DEF Raised, Done
    <3>3. q.sid \in used
      BY <2>2, NamesAssumption
    <3>4. CASE e.w = Now /\ e.q = q /\ e.ok = FALSE
      BY <1>0, <3>4 DEF Stores
    <3>5. CASE e.w = saved /\ e.q = q /\ e.ok = FALSE
      BY <1>0, <3>1, <3>5 DEF Stores
    <3>6. CASE e.w = saved /\ e.q = q /\ e.ok = TRUE
      <4>1. e.ok \in BOOLEAN /\ Has(e.q, q, e.q.sid) /\ e.q.sid = q.sid /\ q.sid # NoId
        BY <1>0, <2>2, <3>6, NamesAssumption
      <4>2. After(Now, e.w, q.sid, {Stored(q.data)})
        BY <3>1, <3>6
      <4>3. e.q.sid \in Id /\ e.q.sid \in e.w.used
        BY <2>2, <3>1, <3>3, <3>6
      <4>4. e.w.store[e.q.sid].live => e.w.store[e.q.sid].who = q.data.who
        BY <3>1, <3>6
      <4>. QED
        BY <4>1, <4>2, <4>3, <4>4 DEF Stores
    <3>. QED
      BY <3>2, <3>4, <3>5, <3>6
  <2>. QED
    BY <2>1, <2>2 DEF TypeOK
<1>3. ASSUME NEW e, Stores(e, q), e.ok, NEW a, a = [e.q EXCEPT !.subject = q.data.who],
             o \in Indexing(e.w, a, q.data.who, e.q.sid)
      PROVE  Writes(o, q)
  <2>1. PICK w, i : w = e.w /\ i = e.q.sid
    OBVIOUS
  <2>2. /\ After(Now, w, q.sid, {Stored(q.data)}) /\ i \in Id /\ i \in w.used
        /\ Has(e.q, q, i) /\ (q.sid # NoId => i = q.sid) /\ (q.sid = NoId => i \notin used)
        /\ w.store[i].live => w.store[i].who = q.data.who
    BY <1>3, <2>1 DEF Stores
  <2>3. Has(a, q, i)
    BY <1>0, <1>3, <2>2 DEF Has, Same, Requests
  <2>4. Closed(w)
    BY <2>2 DEF After
  <2>5. /\ After(w, o.w, NoId, {}) /\ o.q = a /\ o.ok \in BOOLEAN
        /\ o.w.store = w.store /\ o.w.used = w.used /\ Listed(o.w, q.data.who, i)
    BY <1>0, <1>3, <2>1, <2>2, <2>4, IndexingOut
  <2>6. After(Now, o.w, q.sid, {Stored(q.data)})
    BY <1>0, <2>2, <2>5, AfterBoth
  <2>7. o.q.sid = i
    BY <2>3, <2>5 DEF Has
  <2>. QED
    BY <2>2, <2>3, <2>5, <2>6, <2>7 DEF Writes
<1>4. ASSUME Stores(o, q), ~o.ok
      PROVE  Writes(o, q)
  BY <1>4 DEF Stores, Writes
<1>5. PICK S : S = IF q.sid = NoId THEN UNION {Creating(Now, q, i) : i \in Id \ used}
                   ELSE {Raised(Now, q), Raised(saved, q), Done(saved, q)}
  OBVIOUS
<1>6. \A e \in S : Stores(e, q)
  <2>1. ASSUME NEW e \in S
        PROVE  \/ q.sid = NoId /\ \E i \in Id \ used : e \in Creating(Now, q, i)
               \/ q.sid # NoId /\ e \in {Raised(Now, q), Raised(saved, q), Done(saved, q)}
    BY <1>5
  <2>. QED
    BY <1>2, <2>1
<1>7. \/ o \in S /\ ~o.ok
      \/ \E e \in S : e.ok /\ o \in Indexing(e.w, [e.q EXCEPT !.subject = q.data.who], q.data.who, e.q.sid)
  BY <1>1, <1>5, Zenon DEF Written
<1>. QED
  BY <1>3, <1>4, <1>6, <1>7

-----------------------------------------------------------------------------
(***************************************************************************)
(* What a change of world leaves of the invariant                          *)
(***************************************************************************)

\* Records are drawn, some end, and that of i may be written, with the same
\* principal if a response has named i; what is no longer listed has ended or is
\* known to have been lost sight of, and what was is, or is listed again.
Evolves(i) ==
  /\ store' \in [Id -> Record] /\ index' \in [Subject -> SUBSET Id]
  /\ used' \in SUBSET Id /\ unindexed' \in SUBSET Id
  /\ used \subseteq used' /\ unindexed' \subseteq used'
  /\ \A j \in Id : store'[j].live => j \in used'
  /\ \A s \in Subject : index'[s] \subseteq used'
  /\ \A j \in used :
       \/ store'[j] = store[j]
       \/ ~store'[j].live
       \/ j = i /\ store[j].live /\ (j \in exposed => store'[j].who = store[j].who)
  /\ \A j \in used, s \in Subject :
       j \in index[s] => j \in index'[s] \/ ~store'[j].live \/ j \in unindexed'
  /\ \A j \in unindexed :
       \/ j \in unindexed' \/ ~store'[j].live
       \/ store'[j].who \in Subject /\ j \in index'[store'[j].who]

LEMMA WorldEvolves ==
  ASSUME TypeOK, Known, NEW w, NEW i, NEW written, Becomes(w), After(Now, w, i, written),
         \A x \in written : i \in exposed /\ Live(i) => x.who = store[i].who
  PROVE  Evolves(i)
<1>1. /\ Now.store = store /\ Now.index = index /\ Now.used = used
      /\ Now.unindexed = unindexed
  BY NowClosed
<1>2. store' \in [Id -> Record] /\ index' \in [Subject -> SUBSET Id]
      /\ used' \in SUBSET Id /\ unindexed' \in SUBSET Id
      /\ used \subseteq used' /\ unindexed' \subseteq used'
      /\ (\A j \in Id : store'[j].live => j \in used')
      /\ \A s \in Subject : index'[s] \subseteq used'
  BY <1>1 DEF Becomes, After, Closed, World
<1>3. \A j \in used : \/ store'[j] = store[j]
                      \/ j = i /\ ~store'[j].live
                      \/ j = i /\ store[j].live /\ store'[j] \in written
  BY <1>1, RecordTypes DEF Becomes, After, TypeOK
<1>4. \A j \in used, s \in Subject :
        j \in index[s] => j \in index'[s] \/ ~store'[j].live
  BY <1>1, RecordTypes DEF Becomes, After, TypeOK
<1>5. \A j \in unindexed :
        \/ j \in unindexed' \/ ~store'[j].live
        \/ store'[j].who \in Subject /\ j \in index'[store'[j].who]
  BY <1>1 DEF Becomes, After, Tracked
<1>. QED
  BY <1>2, <1>3, <1>4, <1>5 DEF Evolves, Live

\* Where nothing is written, no identifier is singled out.
LEMMA WorldEnds ==
  ASSUME TypeOK, Known, NEW w, NEW i, Becomes(w), After(Now, w, i, {})
  PROVE  Evolves(NoId)
<1>1. Evolves(i)
  BY WorldEvolves
<1>2. /\ Now.store = store /\ Now.used = used
  BY NowClosed
<1>3. \A j \in used : store'[j] = store[j] \/ ~store'[j].live
  BY <1>2, RecordTypes DEF Becomes, After, TypeOK
<1>. QED
  BY <1>1, <1>3 DEF Evolves

LEMMA NothingEvolves ==
  ASSUME TypeOK, Known, UNCHANGED <<store, index, used, unindexed>>
  PROVE  Evolves(NoId)
BY DEF TypeOK, Known, Evolves, Record, Live

\* What is over stays over, and what a response has named keeps its principal.
LEMMA EvolvedFacts ==
  ASSUME TypeOK, Known, NEW i, Evolves(i), NEW j \in used
  PROVE  /\ ~Live(j) => ~Live(j)'
         /\ j \in exposed /\ Live(j)' => Live(j) /\ store'[j].who = store[j].who
         /\ j # i /\ Live(j)' => Live(j) /\ store'[j].who = store[j].who
         /\ \A s \in Subject :
              j \in index[s] /\ Live(j)' => j \in index'[s] \/ j \in unindexed'
         /\ j \in unindexed /\ Live(j)' =>
              \/ j \in unindexed'
              \/ store'[j].who \in Subject /\ j \in index'[store'[j].who]
BY DEF Evolves, Live

\* p is q, further on in its handler.
Further(p, q) ==
  /\ p.pc = "handler" /\ q.pc = "handler"
  /\ p.loaded = q.loaded /\ p.unloaded = q.unloaded /\ p.sid = q.sid /\ p.before = q.before
  /\ p.returned \in {q.returned, NoId} /\ (p.revoked => q.revoked)
  /\ \/ p.modified
     \/ ~q.modified /\ p.data = q.data /\ p.subject = q.subject

LEMMA HeldKeeps ==
  ASSUME TypeOK, Known, NEW i, Evolves(i), exposed \subseteq exposed',
         NEW q \in Requests, NEW p, Further(p, q), Held(q),
         Drew(q) => q.sid # i /\ q.sid \notin exposed'
  PROVE  Held(p)'
<1>1. /\ q.loaded \in exposed \cup {NoId} /\ q.unloaded \in exposed \cup {NoId}
      /\ q.sid \in used \cup {NoId}
  BY DEF Held, Further
<1>2. exposed \subseteq used /\ used \subseteq used'
  BY DEF Known, Evolves
<1>3. \A j \in used : ~Live(j) => ~Live(j)'
  BY EvolvedFacts
<1>4. \A j \in used : j \in exposed /\ Live(j)' => Live(j) /\ store'[j].who = store[j].who
  BY EvolvedFacts
<1>5. \A j \in used : j # i /\ Live(j)' => Live(j) /\ store'[j].who = store[j].who
  BY EvolvedFacts
<1>6. \A j \in used, s \in Subject :
        j \in index[s] /\ Live(j)' => j \in index'[s] \/ j \in unindexed'
  BY EvolvedFacts
<1>12. \A j \in used : j \in unindexed /\ Live(j)' =>
         \/ j \in unindexed'
         \/ store'[j].who \in Subject /\ j \in index'[store'[j].who]
  BY EvolvedFacts
<1>7. p.loaded # NoId /\ p.sid # p.loaded => ~Live(p.loaded)'
  BY <1>1, <1>2, <1>3 DEF Held, Further
<1>8. p.loaded # NoId /\ p.sid = p.loaded /\ Live(p.sid)' => store'[p.sid].who = p.before
  BY <1>1, <1>2, <1>4 DEF Held, Further
<1>9. Drew(p) <=> Drew(q)
  BY DEF Drew, Further
<1>10. ASSUME Drew(p), ~p.modified, Live(p.sid)'
       PROVE  /\ store'[p.sid].who = p.before
              /\ p.before = NoSubject \/ p.sid \in unindexed' \/ p.sid \in index'[p.before]
  <2>1. q.sid \in used /\ q.sid # i /\ ~q.modified /\ p.sid = q.sid /\ p.before = q.before
    BY <1>1, <1>9, <1>10 DEF Drew, Further
  <2>2. Live(q.sid) /\ store'[q.sid].who = store[q.sid].who
    BY <1>5, <1>10, <2>1
  <2>3. /\ store[q.sid].who = q.before
        /\ q.before = NoSubject \/ q.sid \in unindexed \/ q.sid \in index[q.before]
    BY <1>9, <1>10, <2>1, <2>2 DEF Held, Further
  <2>4. q.before \in Subject \cup {NoSubject}
    BY DEF Requests, Who
  <2>. QED
    BY <1>6, <1>10, <1>12, <2>1, <2>2, <2>3, <2>4
<1>11. /\ p.loaded \in exposed' \cup {NoId} /\ p.unloaded \in exposed' \cup {NoId}
       /\ p.sid \in used' \cup {NoId}
       /\ p.loaded # NoId => p.unloaded = NoId
       /\ p.revoked => p.sid = NoId
       /\ ~p.modified => p.data.who = p.before /\ p.subject = p.before
       /\ p.returned # NoId => p.sid = p.returned /\ Drew(p)
       /\ Drew(p) => p.sid \notin exposed'
  BY <1>1, <1>2, <1>9 DEF Held, Further
<1>. QED
  BY <1>7, <1>8, <1>10, <1>11 DEF Held, Drew

LEMMA SentKeeps ==
  ASSUME TypeOK, Known, NEW i, Evolves(i), exposed \subseteq exposed',
         NEW q \in Requests, SentOK(q)
  PROVE  SentOK(q)'
<1>1. exposed \subseteq used /\ used \subseteq used'
  BY DEF Known, Evolves
<1>2. \A j \in used : ~Live(j) => ~Live(j)'
  BY EvolvedFacts
<1>3. \A j \in used : j \in exposed /\ Live(j)' => Live(j) /\ store'[j].who = store[j].who
  BY EvolvedFacts
<1>. QED
  BY <1>1, <1>2, <1>3 DEF SentOK

-----------------------------------------------------------------------------
(***************************************************************************)
(* The invariant, one request at a time                                    *)
(***************************************************************************)

\* What a response has named keeps its principal, and only an identifier that
\* is drawn in this very step becomes live.
Fixed ==
  /\ \A j \in exposed : Live(j) /\ Live(j)' => store'[j].who = store[j].who
  /\ \A j \in Id : ~Live(j) /\ Live(j)' => j \notin used /\ j \in used'

\* A revoke_all goes on as it was, or as it should.
SweepsOn ==
  /\ sweep' \in [Request -> Sweeps]
  /\ \A u \in Request :
       sweep'[u] = sweep[u] \/ \E x \in Sweeps : sweep'[u] = x /\ SweepOK(x)'

LEMMA SweepsStay ==
  ASSUME TypeOK, UNCHANGED sweep
  PROVE  SweepsOn
BY DEF TypeOK, SweepsOn

LEMMA SweepsStop ==
  ASSUME TypeOK, NEW r \in Request, sweep' = [sweep EXCEPT ![r] = NoSweep]
  PROVE  SweepsOn
<1>1. PICK x : x = NoSweep
  OBVIOUS
<1>2. x \in Sweeps /\ SweepOK(x)'
  BY <1>1 DEF NoSweep, Sweeps, Who, SweepOK
<1>. QED
  BY <1>1, <1>2 DEF SweepsOn, TypeOK

LEMMA SweepKeeps ==
  ASSUME IInv, NEW i, Evolves(i), SweepsOn, NEW u \in Request
  PROVE  SweepOK(sweep[u])'
<1>1. TypeOK /\ Known /\ SweepOK(sweep[u])
  BY DEF IInv
<1>2. used \subseteq used' /\ \A j \in used : ~Live(j) => ~Live(j)'
  BY <1>1, EvolvedFacts DEF Evolves
<1>3. CASE sweep'[u] = sweep[u]
  BY <1>1, <1>2, <1>3 DEF SweepOK
<1>4. ASSUME NEW x \in Sweeps, sweep'[u] = x, SweepOK(x)'
      PROVE  SweepOK(sweep[u])'
  BY <1>4 DEF SweepOK
<1>. QED
  BY <1>3, <1>4 DEF SweepsOn

\* Request r becomes q; what a response names was drawn by r or is new, and is
\* listed under its principal.
Proceeds(r, q) ==
  /\ q \in Requests /\ req' = [req EXCEPT ![r] = q] /\ SweepsOn
  /\ exposed \subseteq exposed' /\ exposed' \subseteq used'
  /\ cookie' \in exposed' \cup {NoId}
  /\ \A j \in exposed' \ exposed :
       /\ j \notin used \/ (req[r].pc = "handler" /\ Drew(req[r]) /\ j = req[r].sid)
       /\ Live(j)' => \/ store'[j].who = NoSubject
                      \/ j \in unindexed'
                      \/ j \in index'[store'[j].who]
  /\ q.pc = "handler" =>
       \/ q.sid = q.loaded \/ q.sid = NoId \/ q.sid \in Id \ used
       \/ req[r].pc = "handler" /\ q.sid = req[r].sid /\ q.loaded = req[r].loaded

\* What r may write is its own.
Own(r, i) == i = NoId \/ (req[r].pc = "handler" /\ i = req[r].sid)

\* An identifier that a response has named stays listed, if it is not lost
\* sight of.
LEMMA ExposedStays ==
  ASSUME TypeOK, Known, ExposedAreIndexed, NEW i, Evolves(i),
         NEW j \in exposed, j \notin unindexed', Live(j)', store'[j].who # NoSubject
  PROVE  j \in index'[store'[j].who]
<1>1. j \in used /\ j \in Id
  BY DEF Known, TypeOK
<1>2. Live(j) /\ store'[j].who = store[j].who
  BY <1>1, EvolvedFacts
<1>3. CASE j \in unindexed
  BY <1>1, <1>3, EvolvedFacts
<1>4. CASE j \notin unindexed
  <2>1. store[j].who \in Subject /\ j \in index[store[j].who]
    BY <1>1, <1>2, <1>4 DEF ExposedAreIndexed, TypeOK, Who
  <2>. QED
    BY <1>1, <1>2, <2>1, EvolvedFacts
<1>. QED
  BY <1>3, <1>4

LEMMA StepKeeps ==
  ASSUME IInv, NEW r \in Request, NEW q, NEW i, Evolves(i), Own(r, i),
         Proceeds(r, q), Held(q)', SentOK(q)'
  PROVE  IInv' /\ Fixed
<1>1. /\ TypeOK /\ Known /\ Apart /\ ExposedAreIndexed
      /\ \A u \in Request : req[u] \in Requests /\ Held(req[u]) /\ SentOK(req[u])
  BY DEF IInv, TypeOK
<1>2. /\ req'[r] = q /\ q \in Requests /\ req' \in [Request -> Requests]
      /\ \A u \in Request : u # r => req'[u] = req[u]
  BY <1>1 DEF Proceeds, TypeOK
<1>3. exposed \subseteq exposed' /\ exposed' \subseteq used' /\ exposed \subseteq used
  BY <1>1 DEF Proceeds, Known
<1>4. TypeOK'
  BY <1>2, <1>3 DEF Proceeds, SweepsOn, Evolves, TypeOK, Record, MaybeId
<1>5. Known'
  BY <1>3 DEF Proceeds, Evolves, Known, Live
<1>6. ASSUME NEW u \in Request, u # r, req[u].pc = "handler"
      PROVE  Drew(req[u]) => req[u].sid # i /\ req[u].sid \notin exposed'
  <2>1. SUFFICES ASSUME Drew(req[u])
                 PROVE  req[u].sid # i /\ req[u].sid \notin exposed'
    OBVIOUS
  <2>2. req[u].sid \in used /\ req[u].sid \notin exposed /\ req[u].sid # NoId
    BY <1>1, <1>6, <2>1 DEF Held, Drew
  <2>3. req[r].pc = "handler" => req[u].sid # req[r].sid
    BY <1>1, <1>6, <2>1 DEF Apart
  <2>. QED
    BY <2>2, <2>3 DEF Own, Proceeds
<1>7. \A u \in Request : Held(req[u])'
  <2>1. ASSUME NEW u \in Request, u # r, NEW p \in Requests, p = req[u], p.pc = "handler"
        PROVE  Held(p)'
    <3>1. Further(p, p)
      BY <2>1 DEF Further
    <3>2. Drew(p) => p.sid # i /\ p.sid \notin exposed'
      BY <1>6, <2>1
    <3>3. Held(p)
      BY <1>1, <2>1
    <3>. QED
      BY <1>1, <1>3, <3>1, <3>2, <3>3, HeldKeeps
  <2>2. \A u \in Request : u # r => req'[u] \in Requests /\ req'[u] = req[u]
    BY <1>1, <1>2
  <2>3. ASSUME NEW u \in Request, NEW p, p = req'[u], Held(p)'
        PROVE  Held(req[u])'
    BY <2>3 DEF Held, Drew
  <2>4. ASSUME NEW u \in Request, u # r
        PROVE  Held(req[u])'
    <3>1. PICK p \in Requests : p = req[u] /\ p = req'[u]
      BY <2>2, <2>4
    <3>2. CASE p.pc = "handler"
      BY <2>1, <2>3, <2>4, <3>1, <3>2
    <3>3. CASE p.pc # "handler"
      BY <3>1, <3>3 DEF Held
    <3>. QED
      BY <3>2, <3>3
  <2>. QED
    BY <1>2, <2>3, <2>4
<1>8. \A u \in Request : SentOK(req[u])'
  <2>1. ASSUME NEW u \in Request, NEW p, p = req'[u], SentOK(p)'
        PROVE  SentOK(req[u])'
    BY <2>1 DEF SentOK
  <2>2. ASSUME NEW u \in Request, u # r
        PROVE  SentOK(req[u])'
    <3>1. PICK p \in Requests : p = req[u] /\ p = req'[u]
      BY <1>1, <1>2, <2>2
    <3>2. SentOK(p)
      BY <1>1, <3>1
    <3>3. SentOK(p)'
      BY <1>1, <1>3, <3>2, SentKeeps
    <3>. QED
      BY <2>1, <3>1, <3>3
  <2>. QED
    BY <1>2, <2>1, <2>2
<1>9. Apart'
  <2>1. ASSUME NEW u \in Request, u # r, req[u].pc = "handler", q.pc = "handler"
        PROVE  /\ Drew(q) => q.sid # req[u].sid
               /\ Drew(req[u]) => req[u].sid # q.sid
    <3>1. req[u].sid \in used \cup {NoId}
      BY <1>1, <2>1 DEF Held
    <3>2. CASE q.sid \in Id \ used
      BY <3>1, <3>2, NamesAssumption DEF Drew
    <3>3. CASE q.sid = NoId
      BY <3>3 DEF Drew
    <3>4. CASE q.sid = q.loaded
      BY <1>6, <2>1, <3>4 DEF Drew, Held
    <3>5. CASE req[r].pc = "handler" /\ q.sid = req[r].sid /\ q.loaded = req[r].loaded
      BY <1>1, <2>1, <3>5 DEF Drew, Apart
    <3>. QED
      BY <2>1, <3>2, <3>3, <3>4, <3>5 DEF Proceeds
  <2>. QED
    BY <1>1, <1>2, <2>1 DEF Apart, Drew
<1>10. ExposedAreIndexed'
  <2>1. ASSUME NEW j \in exposed' \ unindexed', Live(j)', store'[j].who # NoSubject
        PROVE  j \in index'[store'[j].who]
    <3>1. CASE j \in exposed
      BY <1>1, <2>1, <3>1, ExposedStays
    <3>2. CASE j \notin exposed
      BY <2>1, <3>2 DEF Proceeds
    <3>. QED
      BY <3>1, <3>2
  <2>. QED
    BY <2>1 DEF ExposedAreIndexed, Live
<1>11. Fixed
  BY <1>1, <1>3, EvolvedFacts DEF Fixed, Evolves, Live
<1>12. \A u \in Request : SweepOK(sweep[u])'
  BY SweepKeeps DEF Proceeds
<1>. QED
  BY <1>4, <1>5, <1>7, <1>8, <1>9, <1>10, <1>11, <1>12 DEF IInv

-----------------------------------------------------------------------------
(***************************************************************************)
(* Before and in the application                                           *)
(***************************************************************************)

\* What IInv says of one request.
LEMMA InvFacts ==
  ASSUME IInv, NEW r \in Request
  PROVE  /\ TypeOK /\ Known /\ req[r] \in Requests
         /\ Held(req[r]) /\ SentOK(req[r])
         /\ exposed \subseteq used
         /\ req[r].pc = "handler" => req[r].sid \in used \cup {NoId}
         /\ cookie \in exposed \cup {NoId}
BY DEF IInv, TypeOK, Known, Held

LEMMA ArriveKeeps ==
  ASSUME IInv, NEW r \in Request, Arrive(r)
  PROVE  /\ IInv' /\ Fixed
         /\ req'[r].data.who = req'[r].subject /\ req'[r].sid = req'[r].loaded
<1>1. /\ TypeOK /\ Known /\ Evolves(NoId) /\ exposed' = exposed /\ cookie' = cookie
      /\ exposed \subseteq used' /\ cookie \in exposed \cup {NoId}
      /\ store \in [Id -> Record] /\ SweepsOn
  BY InvFacts, NothingEvolves, SweepsStay DEF Arrive, TypeOK, Record, Known
<1>2. PICK q : /\ req' = [req EXCEPT ![r] = q]
               /\ \/ q = [Idle EXCEPT !.pc = "handler"]
                  \/ /\ cookie \in Id
                     /\ q = [Idle EXCEPT !.pc = "handler",
                               !.data = [who |-> store[cookie].who, items |-> store[cookie].items],
                               !.before = store[cookie].who, !.loaded = cookie,
                               !.sid = cookie, !.subject = store[cookie].who]
                  \/ cookie \in Id /\ q = [Idle EXCEPT !.pc = "handler", !.unloaded = cookie]
  BY <1>1 DEF Arrive, TypeOK, MaybeId
<1>3. Idle \in Requests
  BY BoundAssumption, RecordTypes DEF Idle, NoReply, Requests, MaybeId
<1>4. /\ q \in Requests /\ q.pc = "handler" /\ q.returned = NoId /\ ~q.revoked /\ ~q.modified
      /\ q.data.who = q.before /\ q.subject = q.before /\ q.sid = q.loaded
      /\ q.unloaded \in exposed \cup {NoId} /\ q.loaded \in exposed \cup {NoId}
      /\ q.loaded # NoId => q.unloaded = NoId /\ q.before = store[q.loaded].who
  <2>1. CASE q = [Idle EXCEPT !.pc = "handler"]
    BY <1>3, <2>1, RecordTypes DEF Idle, Requests
  <2>2. CASE cookie \in Id /\ q = [Idle EXCEPT !.pc = "handler", !.unloaded = cookie]
    BY <1>1, <1>3, <2>2, RecordTypes DEF Idle, Requests, MaybeId
  <2>3. CASE /\ cookie \in Id
             /\ q = [Idle EXCEPT !.pc = "handler",
                       !.data = [who |-> store[cookie].who, items |-> store[cookie].items],
                       !.before = store[cookie].who, !.loaded = cookie,
                       !.sid = cookie, !.subject = store[cookie].who]
    <3>1. store[cookie].who \in Who /\ store[cookie].items \in BOOLEAN
      BY <1>1, <2>3 DEF Record
    <3>2. PICK d \in Data : /\ d = [who |-> store[cookie].who, items |-> store[cookie].items]
                            /\ d.who = store[cookie].who
      <4>1. ASSUME NEW w \in Who, NEW b \in BOOLEAN
            PROVE  [who |-> w, items |-> b] \in Data
        BY DEF Data
      <4>. QED
        BY <3>1, <4>1
    <3>3. q = [Idle EXCEPT !.pc = "handler", !.data = d, !.before = d.who, !.loaded = cookie,
                           !.sid = cookie, !.subject = d.who]
      BY <2>3, <3>2
    <3>4. q \in Requests
      <4>1. PICK a : a = [Idle EXCEPT !.pc = "handler", !.data = d, !.before = d.who]
        OBVIOUS
      <4>2. a \in Requests
        BY <1>3, <3>1, <3>2, <4>1 DEF Requests
      <4>3. q = [a EXCEPT !.loaded = cookie, !.sid = cookie, !.subject = d.who]
        BY <1>3, <3>3, <4>1 DEF Requests
      <4>4. cookie \in MaybeId /\ d.who \in Who
        BY <2>3, <3>1, <3>2 DEF MaybeId
      <4>. QED
        BY <4>2, <4>3, <4>4 DEF Requests
    <3>5. q.pc = "handler" /\ q.returned = NoId /\ ~q.revoked /\ ~q.modified
      BY <3>3 DEF Idle
    <3>6. q.data = d /\ q.before = d.who /\ q.subject = d.who
      BY <3>3 DEF Idle
    <3>7. q.sid = cookie /\ q.loaded = cookie /\ q.unloaded = NoId
      BY <3>3 DEF Idle
    <3>. QED
      BY <1>1, <2>3, <3>2, <3>4, <3>5, <3>6, <3>7
  <2>. QED
    BY <1>2, <2>1, <2>2, <2>3
<1>5. Held(q)'
  BY <1>1, <1>4 DEF Held, Drew, Arrive, Known
<1>6. SentOK(q)'
  BY <1>4 DEF SentOK
<1>7. Proceeds(r, q)
  BY <1>1, <1>2, <1>4 DEF Proceeds
<1>8. req'[r] = q
  BY <1>1, <1>2 DEF TypeOK
<1>. QED
  BY <1>1, <1>4, <1>5, <1>6, <1>7, <1>8, StepKeeps DEF Own

\* A step of the handler that leaves its identifier alone.
LEMMA FurtherKeeps ==
  ASSUME IInv, NEW r \in Request, NEW q \in Requests, Further(q, req[r]), Evolves(NoId),
         req' = [req EXCEPT ![r] = q], UNCHANGED <<cookie, exposed>>, SweepsOn
  PROVE  IInv' /\ Fixed
<1>0. /\ TypeOK /\ Known /\ req[r] \in Requests /\ Held(req[r]) /\ exposed \subseteq used
      /\ cookie \in exposed \cup {NoId}
  BY InvFacts
<1>1. PICK p \in Requests : p = req[r]
  BY <1>0
<1>2. Drew(p) => p.sid # NoId /\ p.sid \notin exposed'
  BY <1>0, <1>1 DEF Drew, Held, Further
<1>3. Held(q)'
  BY <1>0, <1>1, <1>2, HeldKeeps
<1>4. SentOK(q)'
  BY DEF SentOK, Further
<1>5. Proceeds(r, q)
  BY <1>0 DEF Proceeds, Further, Evolves
<1>. QED
  BY <1>3, <1>4, <1>5, StepKeeps DEF Own

LEMMA EditKeeps ==
  ASSUME IInv, NEW r \in Request, NEW op, May(r, op), NEW d \in Data, Edit(r, d)
  PROVE  IInv' /\ Fixed
<1>1. /\ TypeOK /\ Known /\ req[r] \in Requests
  BY InvFacts
<1>2. Evolves(NoId) /\ SweepsOn
  BY <1>1, NothingEvolves, SweepsStay DEF Edit
<1>3. PICK q : q = [req[r] EXCEPT !.data = d, !.accessed = TRUE, !.modified = TRUE,
                                  !.ops = @ + 1]
  OBVIOUS
<1>4. req' = [req EXCEPT ![r] = q]
  BY <1>1, <1>3 DEF Edit, TypeOK
<1>5. q \in Requests /\ Further(q, req[r])
  <2>1. req[r].ops + 1 \in 0..MaxOps /\ req[r].pc = "handler"
    BY <1>1, BoundAssumption DEF May, Requests
  <2>2. q \in Requests
    BY <1>1, <1>3, <2>1 DEF Requests
  <2>3. /\ q.pc = req[r].pc /\ q.loaded = req[r].loaded /\ q.unloaded = req[r].unloaded
        /\ q.sid = req[r].sid /\ q.before = req[r].before /\ q.returned = req[r].returned
        /\ q.revoked = req[r].revoked /\ q.subject = req[r].subject
        /\ q.data = d /\ q.modified = TRUE
    BY <1>1, <1>3 DEF Requests
  <2>. QED
    BY <2>1, <2>2, <2>3 DEF Further
<1>. QED
  BY <1>2, <1>4, <1>5, FurtherKeeps DEF Edit

LEMMA PutKeeps ==
  ASSUME IInv, NEW r \in Request, Put(r)
  PROVE  IInv' /\ Fixed
<1>1. [req[r].data EXCEPT !.items = TRUE] \in Data
  BY InvFacts DEF Requests, Data
<1>. QED
  BY <1>1, EditKeeps DEF Put

LEMMA SetPrincipalKeeps ==
  ASSUME IInv, NEW r \in Request, NEW s \in Who, SetPrincipal(r, s)
  PROVE  IInv' /\ Fixed
<1>1. [req[r].data EXCEPT !.who = s] \in Data
  BY InvFacts DEF Requests, Data
<1>. QED
  BY <1>1, EditKeeps DEF SetPrincipal

LEMMA ClearKeeps ==
  ASSUME IInv, NEW r \in Request, Clear(r)
  PROVE  IInv' /\ Fixed
BY RecordTypes, EditKeeps DEF Clear

LEMMA ReadKeeps ==
  ASSUME IInv, NEW r \in Request, Read(r)
  PROVE  IInv' /\ Fixed
<1>1. TypeOK /\ Known /\ req[r] \in Requests
  BY InvFacts
<1>2. PICK q : q = [req[r] EXCEPT !.accessed = TRUE, !.ops = @ + 1]
  OBVIOUS
<1>3. req' = [req EXCEPT ![r] = q]
  BY <1>1, <1>2 DEF Read, TypeOK
<1>4. q \in Requests /\ Further(q, req[r])
  <2>1. req[r].ops + 1 \in 0..MaxOps /\ req[r].pc = "handler"
    BY <1>1, BoundAssumption DEF Read, May, Requests
  <2>2. q \in Requests
    BY <1>1, <1>2, <2>1 DEF Requests
  <2>3. /\ q.pc = req[r].pc /\ q.loaded = req[r].loaded /\ q.unloaded = req[r].unloaded
        /\ q.sid = req[r].sid /\ q.before = req[r].before /\ q.returned = req[r].returned
        /\ q.revoked = req[r].revoked /\ q.subject = req[r].subject
        /\ q.data = req[r].data /\ q.modified = req[r].modified
    BY <1>1, <1>2 DEF Requests
  <2>. QED
    BY <2>1, <2>2, <2>3 DEF Further
<1>. QED
  BY <1>1, <1>3, <1>4, NothingEvolves, SweepsStay, FurtherKeeps DEF Read

LEMMA ReauthenticateKeeps ==
  ASSUME IInv, NEW r \in Request, Reauthenticate(r)
  PROVE  IInv' /\ Fixed
<1>1. TypeOK /\ Known /\ req[r] \in Requests
  BY InvFacts
<1>2. PICK q : q = [req[r] EXCEPT !.rotated = TRUE, !.ops = @ + 1]
  OBVIOUS
<1>3. req' = [req EXCEPT ![r] = q]
  BY <1>1, <1>2 DEF Reauthenticate, TypeOK
<1>4. q \in Requests /\ Further(q, req[r])
  <2>1. req[r].ops + 1 \in 0..MaxOps /\ req[r].pc = "handler"
    BY <1>1, BoundAssumption DEF Reauthenticate, May, Requests
  <2>2. q \in Requests
    BY <1>1, <1>2, <2>1 DEF Requests
  <2>3. /\ q.pc = req[r].pc /\ q.loaded = req[r].loaded /\ q.unloaded = req[r].unloaded
        /\ q.sid = req[r].sid /\ q.before = req[r].before /\ q.returned = req[r].returned
        /\ q.revoked = req[r].revoked /\ q.subject = req[r].subject
        /\ q.data = req[r].data /\ q.modified = req[r].modified
    BY <1>1, <1>2 DEF Requests
  <2>. QED
    BY <2>1, <2>2, <2>3 DEF Further
<1>. QED
  BY <1>1, <1>3, <1>4, NothingEvolves, SweepsStay, FurtherKeeps DEF Reauthenticate

\* revoke_all reads the index.
LEMMA RevokeAllReadKeeps ==
  ASSUME IInv, NEW r \in Request, NEW s \in Subject, RevokeAllRead(r, s)
  PROVE  IInv' /\ Fixed
<1>1. TypeOK /\ Known /\ req[r] \in Requests
  BY InvFacts
<1>2. PICK q : q = [req[r] EXCEPT !.ops = @ + 1]
  OBVIOUS
<1>3. req' = [req EXCEPT ![r] = q]
  BY <1>1, <1>2 DEF RevokeAllRead, TypeOK
<1>4. q \in Requests /\ Further(q, req[r])
  BY <1>1, <1>2, BoundAssumption DEF RevokeAllRead, May, Further, Requests
<1>5. Evolves(NoId)
  BY <1>1, NothingEvolves DEF RevokeAllRead
<1>6. SweepsOn
  <2>1. CASE UNCHANGED sweep
    BY <1>1, <2>1, SweepsStay
  <2>2. CASE sweep' = [sweep EXCEPT ![r] = [at |-> "read", of |-> s, members |-> index[s]]]
    <3>1. PICK x : x = [at |-> "read", of |-> s, members |-> index[s]]
      OBVIOUS
    <3>2. x \in Sweeps
      BY <1>1, <3>1 DEF Sweeps, Who, TypeOK
    <3>3. SweepOK(x)'
      BY <1>1, <3>1 DEF SweepOK, Known, RevokeAllRead
    <3>. QED
      BY <1>1, <2>2, <3>1, <3>2, <3>3 DEF SweepsOn, TypeOK
  <2>. QED
    BY <2>1, <2>2 DEF RevokeAllRead
<1>. QED
  BY <1>3, <1>4, <1>5, <1>6, FurtherKeeps DEF RevokeAllRead

\* What the request was loaded from is over once it has ended or is left behind.
LEMMA LeftBehind ==
  ASSUME IInv, NEW r \in Request, req[r].pc = "handler", Evolves(NoId),
         req[r].sid # NoId => ~store'[req[r].sid].live, req[r].loaded # NoId
  PROVE  req[r].loaded \in used /\ ~store'[req[r].loaded].live
<1>1. /\ TypeOK /\ Known /\ Held(req[r]) /\ exposed \subseteq used
  BY InvFacts
<1>2. req[r].loaded \in used
  BY <1>1 DEF Held
<1>3. CASE req[r].sid = req[r].loaded
  BY <1>2, <1>3
<1>4. CASE req[r].sid # req[r].loaded
  <2>1. PICK j \in used : j = req[r].loaded
    BY <1>2
  <2>2. ~Live(j)
    BY <1>1, <1>4, <2>1 DEF Held
  <2>3. ~Live(j)'
    BY <1>1, <2>2, EvolvedFacts
  <2>. QED
    BY <2>1, <2>3 DEF Live
<1>. QED
  BY <1>2, <1>3, <1>4

LEMMA HandlerRotateKeeps ==
  ASSUME IInv, NEW r \in Request, HandlerRotate(r)
  PROVE  IInv' /\ Fixed
<1>1. /\ TypeOK /\ Known /\ req[r] \in Requests /\ Held(req[r]) /\ exposed \subseteq used
      /\ cookie \in exposed \cup {NoId} /\ req[r].pc = "handler" /\ req[r].ops + 1 \in 0..MaxOps
      /\ req[r].sid \in used \cup {NoId} /\ req[r].subject \in Who
  BY InvFacts, BoundAssumption DEF HandlerRotate, May, Requests
<1>2. PICK p : p = [req[r] EXCEPT !.returned = NoId]
  OBVIOUS
<1>3. /\ p \in Requests /\ p.returned = NoId
      /\ p.pc = "handler" /\ p.loaded = req[r].loaded /\ p.unloaded = req[r].unloaded
      /\ p.sid = req[r].sid /\ p.before = req[r].before /\ p.revoked = req[r].revoked
      /\ p.subject = req[r].subject /\ p.data = req[r].data /\ p.modified = req[r].modified
      /\ p.ops = req[r].ops
  BY <1>1, <1>2, RecordTypes DEF Requests
<1>4. PICK o \in Rotated(p, req[r].subject) :
        /\ Becomes(o.w)
        /\ req' = [req EXCEPT ![r] = [o.q EXCEPT !.ops = @ + 1,
                                        !.returned = IF o.ok THEN o.q.sid ELSE NoId]]
  BY <1>2 DEF HandlerRotate
<1>5. Rotates(o, p, req[r].subject)
  BY <1>1, <1>3, <1>4, RotatedOut
<1>6. Evolves(NoId)
  BY <1>1, <1>4, <1>5, WorldEnds DEF Rotates
<1>7. PICK q : q = [o.q EXCEPT !.ops = @ + 1, !.returned = IF o.ok THEN o.q.sid ELSE NoId]
  OBVIOUS
<1>8. req' = [req EXCEPT ![r] = q] /\ UNCHANGED <<cookie, exposed>> /\ SweepsOn
  BY <1>1, <1>4, <1>7, SweepsStay DEF HandlerRotate
<1>9. CASE o.q = p /\ ~o.ok
  <2>1. q \in Requests
    BY <1>1, <1>3, <1>7, <1>9, RecordTypes DEF Requests
  <2>2. /\ q.pc = p.pc /\ q.loaded = p.loaded /\ q.unloaded = p.unloaded
        /\ q.sid = p.sid /\ q.before = p.before /\ q.returned = NoId
        /\ q.revoked = p.revoked /\ q.subject = p.subject
        /\ q.data = p.data /\ q.modified = p.modified
    BY <1>3, <1>7, <1>9 DEF Requests
  <2>3. Further(q, req[r])
    BY <1>1, <1>3, <2>2 DEF Further
  <2>. QED
    BY <1>6, <1>8, <2>1, <2>3, FurtherKeeps
<1>10. CASE /\ Has(o.q, p, o.q.sid)
            /\ o.q.subject = req[r].subject /\ ~o.q.rotated /\ ~o.q.revoked
            /\ o.q.sid \in Id \ used /\ o.q.sid \in o.w.used
            /\ o.w.store[o.q.sid] = Stored(p.data)
            /\ Listed(o.w, req[r].subject, o.q.sid)
            /\ p.sid # NoId => ~o.w.store[p.sid].live
  <2>1. o.q \in Requests /\ o.q.ops = req[r].ops
    BY <1>3, <1>10 DEF Has, Same
  <2>2. q \in Requests /\ q.returned \in {o.q.sid, NoId}
    BY <1>1, <1>7, <1>10, <2>1, RecordTypes DEF Requests
  <2>3. /\ q.pc = o.q.pc /\ q.loaded = o.q.loaded /\ q.unloaded = o.q.unloaded
        /\ q.sid = o.q.sid /\ q.before = o.q.before /\ q.revoked = o.q.revoked
        /\ q.subject = o.q.subject /\ q.data = o.q.data /\ q.modified = o.q.modified
    BY <1>7, <2>1 DEF Requests
  <2>4. /\ q.pc = "handler" /\ q.loaded = req[r].loaded /\ q.unloaded = req[r].unloaded
        /\ q.before = req[r].before /\ ~q.revoked /\ q.subject = req[r].subject
        /\ q.data = req[r].data /\ q.modified = req[r].modified
        /\ q.sid \in Id \ used /\ q.sid \in used' /\ store'[q.sid] = Stored(q.data)
    BY <1>3, <1>4, <1>10, <2>3 DEF Has, Same, Becomes
  <2>5. \/ req[r].subject = NoSubject \/ q.sid \in unindexed'
        \/ q.sid \in index'[req[r].subject]
    BY <1>4, <1>10, <2>3 DEF Listed, Becomes
  <2>6. req[r].sid # NoId => ~store'[req[r].sid].live
    BY <1>3, <1>4, <1>10 DEF Becomes, Live
  <2>7. q.loaded # NoId => ~store'[q.loaded].live
    BY <1>1, <1>6, <2>4, <2>6, LeftBehind
  <2>8. store'[q.sid].who = q.data.who
    BY <2>2, <2>4, RecordTypes DEF Requests
  <2>9. Held(q)'
    <3>1. /\ q.loaded \in exposed \cup {NoId} /\ q.unloaded \in exposed \cup {NoId}
          /\ q.loaded # NoId => q.unloaded = NoId
          /\ ~q.modified => q.data.who = q.before /\ q.subject = q.before
      BY <1>1, <2>4 DEF Held
    <3>2. q.sid # q.loaded /\ q.sid # NoId /\ q.sid \notin exposed'
      BY <1>1, <1>8, <2>4, <3>1, NamesAssumption
    <3>. QED
      BY <1>8, <2>2, <2>3, <2>4, <2>5, <2>7, <2>8, <3>1, <3>2 DEF Held, Drew, Live
  <2>10. SentOK(q)'
    BY <2>4 DEF SentOK
  <2>11. Proceeds(r, q)
    BY <1>1, <1>6, <1>8, <2>2, <2>4 DEF Proceeds, Evolves
  <2>. QED
    BY <1>6, <2>9, <2>10, <2>11, StepKeeps DEF Own
<1>. QED
  BY <1>5, <1>9, <1>10 DEF Rotates

LEMMA HandlerRevokeKeeps ==
  ASSUME IInv, NEW r \in Request, HandlerRevoke(r)
  PROVE  IInv' /\ Fixed
<1>1. /\ TypeOK /\ Known /\ req[r] \in Requests /\ Held(req[r]) /\ exposed \subseteq used
      /\ cookie \in exposed \cup {NoId} /\ req[r].pc = "handler" /\ req[r].ops + 1 \in 0..MaxOps
      /\ req[r].sid \in used \cup {NoId}
  BY InvFacts, BoundAssumption DEF HandlerRevoke, May, Requests
<1>2. PICK p \in Requests : p = req[r]
  BY <1>1
<1>3. PICK o \in Revoked(p) :
        /\ Becomes(o.w)
        /\ req' = [req EXCEPT ![r] = [o.q EXCEPT !.ops = @ + 1, !.returned = NoId]]
  BY <1>2 DEF HandlerRevoke
<1>4. Revokes(o, p)
  BY <1>1, <1>2, <1>3, RevokedOut
<1>5. Evolves(NoId)
  BY <1>1, <1>3, <1>4, WorldEnds DEF Revokes
<1>6. PICK q : q = [o.q EXCEPT !.ops = @ + 1, !.returned = NoId]
  OBVIOUS
<1>7. req' = [req EXCEPT ![r] = q] /\ UNCHANGED <<cookie, exposed>> /\ SweepsOn
  BY <1>1, <1>3, <1>6, SweepsStay DEF HandlerRevoke
<1>8. o.q \in Requests /\ o.q.ops = p.ops
  BY <1>4 DEF Revokes, Same
<1>9. q \in Requests
  BY <1>1, <1>2, <1>6, <1>8, RecordTypes DEF Requests
<1>10. /\ q.pc = o.q.pc /\ q.loaded = o.q.loaded /\ q.unloaded = o.q.unloaded
       /\ q.sid = o.q.sid /\ q.before = o.q.before /\ q.returned = NoId
       /\ q.revoked = o.q.revoked /\ q.subject = o.q.subject
       /\ q.data = o.q.data /\ q.modified = o.q.modified
  BY <1>6, <1>8 DEF Requests
<1>11. CASE o.q = p
  <2>1. Further(q, req[r])
    BY <1>1, <1>2, <1>10, <1>11 DEF Further
  <2>. QED
    BY <1>5, <1>7, <1>9, <2>1, FurtherKeeps
<1>12. CASE /\ Same(o.q, p) /\ o.q.modified /\ o.q.sid = NoId
            /\ p.sid # NoId => ~o.w.store[p.sid].live
  <2>1. /\ q.pc = "handler" /\ q.loaded = req[r].loaded /\ q.unloaded = req[r].unloaded
        /\ q.sid = NoId /\ q.modified /\ q.returned = NoId
    BY <1>1, <1>2, <1>10, <1>12 DEF Same
  <2>2. req[r].sid # NoId => ~store'[req[r].sid].live
    BY <1>2, <1>3, <1>12 DEF Becomes, Live
  <2>3. q.loaded # NoId => ~store'[q.loaded].live
    BY <1>1, <1>5, <2>1, <2>2, LeftBehind
  <2>4. Held(q)'
    BY <1>1, <1>7, <2>1, <2>3 DEF Held, Drew, Live
  <2>5. SentOK(q)'
    BY <2>1 DEF SentOK
  <2>6. Proceeds(r, q)
    BY <1>1, <1>5, <1>7, <1>9, <2>1 DEF Proceeds, Evolves
  <2>. QED
    BY <1>5, <2>4, <2>5, <2>6, StepKeeps DEF Own
<1>. QED
  BY <1>4, <1>11, <1>12 DEF Revokes

-----------------------------------------------------------------------------
(***************************************************************************)
(* The response                                                            *)
(***************************************************************************)

Replies == [kind : {"none", "names", "clears"}, id : MaybeId, failed : BOOLEAN, forgot : BOOLEAN]

\* What a reply says is so: it names a session of the request's own that is
\* listed, or one the request came with; and it clears what is over.
Truthful(r, p, reply) ==
  /\ reply.kind = "names" =>
       /\ reply.id \in Id /\ reply.id \in used'
       /\ reply.id \in exposed \/ reply.id \notin used \/ (Drew(req[r]) /\ reply.id = req[r].sid)
       /\ store'[reply.id].live =>
            \/ store'[reply.id].who = NoSubject
            \/ reply.id \in unindexed'
            \/ reply.id \in index'[store'[reply.id].who]
       /\ p.returned # NoId => reply.id = p.returned
       /\ reply.failed /\ store'[reply.id].live => store'[reply.id].who = p.before
  /\ reply.kind = "clears" /\ reply.forgot =>
       \A j \in Id \cap {p.loaded, p.unloaded, p.sid} : j \in used' /\ ~store'[j].live

LEMMA SendKeeps ==
  ASSUME IInv, NEW r \in Request, req[r].pc = "handler", NEW i, Evolves(i), Own(r, i),
         NEW p \in Requests, NEW reply \in Replies, Send(r, p, reply), Truthful(r, p, reply)
  PROVE  IInv' /\ Fixed
<1>1. /\ TypeOK /\ Known /\ exposed \subseteq used /\ cookie \in exposed \cup {NoId}
      /\ used \subseteq used'
  BY InvFacts DEF Evolves
<1>2. PICK q : q = [p EXCEPT !.pc = "sent", !.reply = reply, !.ops = 0,
                             !.accessed = FALSE, !.subject = NoSubject,
                             !.rotated = FALSE, !.revoked = FALSE]
  OBVIOUS
<1>3. q \in Requests
  <2>1. 0 \in 0..MaxOps /\ NoSubject \in Who
    BY BoundAssumption, RecordTypes
  <2>2. PICK a : a = [p EXCEPT !.pc = "sent", !.reply = reply, !.ops = 0, !.accessed = FALSE]
    OBVIOUS
  <2>3. a \in Requests
    BY <2>1, <2>2 DEF Requests, Replies
  <2>4. q = [a EXCEPT !.subject = NoSubject, !.rotated = FALSE, !.revoked = FALSE]
    BY <1>2, <2>2 DEF Requests
  <2>. QED
    BY <2>1, <2>3, <2>4 DEF Requests
<1>4. /\ q.pc = "sent" /\ q.reply = reply /\ q.loaded = p.loaded /\ q.unloaded = p.unloaded
      /\ q.sid = p.sid /\ q.returned = p.returned /\ q.before = p.before
  BY <1>2 DEF Requests
<1>5. /\ req' = [req EXCEPT ![r] = q] /\ cookie' = cookie /\ SweepsOn
      /\ exposed' = exposed \cup (IF reply.kind = "names" THEN {reply.id} ELSE {})
  BY <1>1, <1>2, SweepsStay DEF Send
<1>6. Held(q)'
  BY <1>4 DEF Held
<1>7. SentOK(q)'
  BY <1>4, <1>5 DEF SentOK, Truthful, Live
<1>8. Proceeds(r, q)
  BY <1>1, <1>3, <1>4, <1>5 DEF Proceeds, Truthful, Live
<1>. QED
  BY <1>6, <1>7, <1>8, StepKeeps

LEMMA ReplyTypes ==
  ASSUME NEW failed \in BOOLEAN, NEW forgot \in BOOLEAN
  PROVE  /\ Bare(failed) \in Replies /\ Bare(failed).kind = "none"
         /\ Clears(failed, forgot) \in Replies /\ Clears(failed, forgot).kind = "clears"
         /\ Clears(failed, forgot).forgot = forgot
         /\ \A i \in Id : /\ Names(i, failed) \in Replies /\ Names(i, failed).kind = "names"
                          /\ Names(i, failed).id = i /\ Names(i, failed).failed = failed
BY DEF Bare, Clears, Names, Replies, MaybeId

\* A reply that clears the cookie.
LEMMA ClearingTruthful ==
  ASSUME NEW r, NEW p, NEW failed \in BOOLEAN,
         \A j \in Id : j \in {p.loaded, p.unloaded, p.sid} => j \in used' /\ ~store'[j].live
  PROVE  Truthful(r, p, Clears(failed, TRUE))
<1>1. PICK reply : reply = Clears(failed, TRUE)
  OBVIOUS
<1>2. reply.kind = "clears"
  BY <1>1, ReplyTypes
<1>3. Truthful(r, p, reply)
  BY <1>2 DEF Truthful
<1>. QED
  BY <1>1, <1>3

\* What each outcome says of the request.
LEMMA OutcomeFacts ==
  ASSUME NEW q \in Requests, NEW failed \in BOOLEAN, NEW out, out = decide_outcome(q, failed)
  PROVE  /\ out \in Outcomes
         /\ out = "CLEAR_COOKIE" => q.revoked
         /\ out = "SIGN_OUT" => q.modified /\ Empty(q) /\ q.loaded # NoId /\ ~IdChanged(q)
         /\ out = "COOKIE_ONLY" => IdChanged(q) /\ (failed => ~Changed(q))
         /\ out = "ROTATE" => ~failed /\ ~IdChanged(q)
         /\ out = "WRITE" => ~Changed(q) /\ ~IdChanged(q)
BY DEF decide_outcome, Outcomes, Requests

\* A response without a cookie, or that clears it without claiming anything.
LEMMA PlainKeeps ==
  ASSUME IInv, NEW r \in Request, req[r].pc = "handler", NEW i, Evolves(i), Own(r, i),
         NEW p \in Requests, NEW reply \in Replies, Send(r, p, reply),
         reply.kind = "none" \/ (reply.kind = "clears" /\ ~reply.forgot)
  PROVE  IInv' /\ Fixed
<1>1. Truthful(r, p, reply)
  BY DEF Truthful
<1>. QED
  BY <1>1, SendKeeps

\* A sign-out on a cookie whose record did not load.
LEMMA ForgetKeeps ==
  ASSUME IInv, NEW r \in Request, NEW failed \in BOOLEAN, req[r].pc = "handler",
         Forget(r, failed)
  PROVE  IInv' /\ Fixed
<1>1. /\ TypeOK /\ Known /\ req[r] \in Requests /\ Held(req[r]) /\ exposed \subseteq used
  BY InvFacts
<1>2. PICK p \in Requests : p = req[r]
  BY <1>1
<1>3. /\ p.unloaded \in Id /\ p.unloaded \in used /\ p.sid = NoId /\ p.loaded = NoId
  BY <1>1, <1>2 DEF Forget, Forgets, Held, TypeOK
<1>4. CASE Becomes(Deleted(Now, p.unloaded)) /\ Send(r, p, Clears(failed, TRUE))
  <2>1. PICK w : w = Deleted(Now, p.unloaded)
    OBVIOUS
  <2>2. After(Now, w, p.unloaded, {}) /\ w.store[p.unloaded] = Gone
    BY <1>1, <1>3, <2>1, NowClosed, DeletedWorld
  <2>3. Becomes(w)
    BY <1>4, <2>1
  <2>4. Evolves(NoId) /\ ~store'[p.unloaded].live /\ p.unloaded \in used'
    BY <1>1, <1>3, <2>2, <2>3, WorldEnds, RecordTypes DEF Becomes, Evolves
  <2>5. Truthful(r, p, Clears(failed, TRUE))
    <3>1. \A j \in Id : j \in {p.loaded, p.unloaded, p.sid} => j = p.unloaded
      BY <1>3, NamesAssumption
    <3>. QED
      BY <2>4, <3>1, ClearingTruthful
  <2>. QED
    BY <1>4, <2>4, <2>5, ReplyTypes, SendKeeps DEF Own
<1>5. CASE Becomes(Now) /\ Send(r, p, Clears(failed, FALSE))
  <2>1. Evolves(NoId)
    BY <1>1, <1>5, NowClosed, NothingEvolves DEF Becomes
  <2>. QED
    BY <1>5, <2>1, ReplyTypes, PlainKeeps DEF Own
<1>. QED
  BY <1>2, <1>4, <1>5 DEF Forget

\* The handler ended the session itself.
LEMMA ClearCookieKeeps ==
  ASSUME IInv, NEW r \in Request, NEW failed \in BOOLEAN, req[r].pc = "handler",
         ~Forgets(req[r]), req[r].revoked, Becomes(Now), Send(r, req[r], Clears(failed, TRUE))
  PROVE  IInv' /\ Fixed
<1>1. /\ TypeOK /\ Known /\ req[r] \in Requests /\ Held(req[r]) /\ exposed \subseteq used
  BY InvFacts
<1>2. PICK p \in Requests : p = req[r]
  BY <1>1
<1>3. Evolves(NoId) /\ store' = store /\ used' = used
  BY <1>1, NowClosed, NothingEvolves DEF Becomes
<1>4. /\ p.sid = NoId /\ p.unloaded = NoId
      /\ p.loaded # NoId => p.loaded \in used /\ ~store[p.loaded].live
  BY <1>1, <1>2 DEF Held, Forgets, Live
<1>5. Truthful(r, p, Clears(failed, TRUE))
  <2>1. \A j \in Id : j \in {p.loaded, p.unloaded, p.sid} => j = p.loaded /\ j # NoId
    BY <1>4, NamesAssumption
  <2>. QED
    BY <1>3, <1>4, <2>1, ClearingTruthful
<1>. QED
  BY <1>2, <1>3, <1>5, ReplyTypes, SendKeeps DEF Own

\* An emptied session is revoked.
LEMMA SignOutKeeps ==
  ASSUME IInv, NEW r \in Request, NEW failed \in BOOLEAN, req[r].pc = "handler",
         req[r].loaded # NoId,
         NEW o \in Revoked(req[r]), SendResult(r, o, Clears(failed, TRUE))
  PROVE  IInv' /\ Fixed
<1>1. /\ TypeOK /\ Known /\ req[r] \in Requests /\ Held(req[r]) /\ exposed \subseteq used
      /\ req[r].sid \in used \cup {NoId}
  BY InvFacts
<1>2. PICK p \in Requests : p = req[r]
  BY <1>1
<1>3. Revokes(o, p)
  BY <1>1, <1>2, RevokedOut
<1>4. Becomes(o.w) /\ Send(r, o.q, IF o.ok THEN Clears(failed, TRUE) ELSE Bare(TRUE))
  BY DEF SendResult
<1>5. Evolves(NoId) /\ o.q \in Requests
  BY <1>1, <1>2, <1>3, <1>4, WorldEnds DEF Revokes, Same
<1>6. CASE ~o.ok
  <2>1. Send(r, o.q, Bare(TRUE))
    BY <1>4, <1>6
  <2>. QED
    BY <1>5, <2>1, ReplyTypes, PlainKeeps DEF Own
<1>7. CASE o.ok
  <2>1. /\ o.q.loaded = p.loaded /\ o.q.unloaded = p.unloaded /\ o.q.sid = NoId
        /\ p.sid # NoId => ~store'[p.sid].live
    BY <1>3, <1>4, <1>7 DEF Revokes, Same, Becomes
  <2>2. p.loaded \in used' /\ ~store'[p.loaded].live
    BY <1>2, <1>5, <2>1, LeftBehind DEF Evolves
  <2>3. p.unloaded = NoId
    BY <1>1, <1>2 DEF Held
  <2>4. Send(r, o.q, Clears(failed, TRUE))
    BY <1>4, <1>7
  <2>5. Truthful(r, o.q, Clears(failed, TRUE))
    <3>1. \A j \in Id : j \in {o.q.loaded, o.q.unloaded, o.q.sid} => j = p.loaded
      BY <2>1, <2>3, NamesAssumption
    <3>. QED
      BY <2>2, <3>1, ClearingTruthful
  <2>. QED
    BY <1>5, <2>4, <2>5, ReplyTypes, SendKeeps DEF Own
<1>. QED
  BY <1>3, <1>6, <1>7 DEF Revokes

\* The response names what the handler's rotation returned.
LEMMA CookieOnlyKeeps ==
  ASSUME IInv, NEW r \in Request, NEW failed \in BOOLEAN, req[r].pc = "handler",
         IdChanged(req[r]), ~req[r].modified,
         Becomes(Now), Send(r, req[r], Names(req[r].sid, failed))
  PROVE  IInv' /\ Fixed
<1>1. /\ TypeOK /\ Known /\ req[r] \in Requests /\ Held(req[r]) /\ exposed \subseteq used
  BY InvFacts
<1>2. PICK p \in Requests : p = req[r]
  BY <1>1
<1>3. /\ Evolves(NoId) /\ store' = store /\ used' = used /\ index' = index
      /\ unindexed' = unindexed
  BY <1>1, NowClosed, NothingEvolves DEF Becomes
<1>4. PICK i \in Id : i = p.sid /\ i \in used /\ Drew(req[r])
  BY <1>1, <1>2 DEF Held, Drew, IdChanged, TypeOK
<1>5. /\ p.returned # NoId => i = p.returned
      /\ store[i].live =>
           /\ store[i].who = p.before
           /\ p.before = NoSubject \/ i \in unindexed \/ i \in index[p.before]
  BY <1>1, <1>2, <1>4 DEF Held, Live
<1>6. PICK reply \in Replies :
        reply = Names(i, failed) /\ reply.kind = "names" /\ reply.id = i /\ reply.failed = failed
  BY ReplyTypes
<1>7. Truthful(r, p, reply)
  BY <1>2, <1>3, <1>4, <1>5, <1>6 DEF Truthful
<1>. QED
  BY <1>2, <1>3, <1>4, <1>6, <1>7, SendKeeps DEF Own

\* A write, of the session the request came with, of a new one, or of the one
\* that the handler's rotation returned.
LEMMA WriteKeeps ==
  ASSUME IInv, NEW r \in Request, NEW failed \in BOOLEAN, req[r].pc = "handler",
         IdChanged(req[r]) \/ ~Changed(req[r]), failed => ~Changed(req[r]),
         NEW o \in Written(req[r]), SendResult(r, o, Names(o.q.sid, failed))
  PROVE  IInv' /\ Fixed
<1>1. /\ TypeOK /\ Known /\ req[r] \in Requests /\ Held(req[r]) /\ exposed \subseteq used
      /\ req[r].sid \in used \cup {NoId}
  BY InvFacts
<1>2. PICK p \in Requests : p = req[r]
  BY <1>1
<1>3. Writes(o, p)
  BY <1>1, <1>2, WrittenOut
<1>4. Becomes(o.w) /\ Send(r, o.q, IF o.ok THEN Names(o.q.sid, failed) ELSE Bare(TRUE))
  BY DEF SendResult
<1>5. p.data \in Data /\ Stored(p.data).who = p.data.who
  BY RecordTypes DEF Requests
<1>6. p.sid \in exposed /\ Live(p.sid) => p.data.who = store[p.sid].who
  <2>1. SUFFICES ASSUME p.sid \in exposed, Live(p.sid)
                 PROVE  p.data.who = store[p.sid].who
    OBVIOUS
  <2>2. p.sid # NoId
    BY <1>1, <2>1, NamesAssumption DEF TypeOK
  <2>3. p.sid = p.loaded
    BY <1>1, <1>2, <2>1, <2>2 DEF Held, Drew
  <2>4. store[p.sid].who = p.before /\ p.data.who = p.before
    BY <1>1, <1>2, <2>1, <2>2, <2>3 DEF Held, IdChanged, Changed
  <2>. QED
    BY <2>4
<1>7. Evolves(p.sid)
  BY <1>1, <1>3, <1>4, <1>5, <1>6, WorldEvolves DEF Writes
<1>8. o.q \in Requests /\ Own(r, p.sid)
  BY <1>2, <1>3 DEF Writes, Has, Same, Own
<1>9. CASE ~o.ok
  <2>1. Send(r, o.q, Bare(TRUE))
    BY <1>4, <1>9
  <2>. QED
    BY <1>7, <1>8, <2>1, ReplyTypes, PlainKeeps
<1>10. CASE o.ok
  <2>1. PICK i \in Id : i = o.q.sid
    BY <1>3, <1>10 DEF Writes
  <2>2. /\ i \in used' /\ (p.sid # NoId => i = p.sid) /\ (p.sid = NoId => i \notin used)
        /\ store'[i].live => store'[i].who = p.data.who
        /\ p.data.who = NoSubject \/ i \in unindexed' \/ i \in index'[p.data.who]
    BY <1>3, <1>4, <1>10, <2>1 DEF Writes, Becomes, Listed
  <2>3. o.q.returned = p.returned /\ o.q.before = p.before
    BY <1>3 DEF Writes, Has, Same
  <2>4. p.returned # NoId => i = p.returned
    BY <1>1, <1>2, <2>2 DEF Held, Drew
  <2>5. i \in exposed \/ i \notin used \/ (Drew(req[r]) /\ i = req[r].sid)
    BY <1>1, <1>2, <2>2 DEF Held, Drew
  <2>6. failed => p.data.who = p.before
    BY <1>2 DEF Changed
  <2>7. Send(r, o.q, Names(i, failed))
    BY <1>4, <1>10, <2>1
  <2>8. Truthful(r, o.q, Names(i, failed))
    BY <2>2, <2>3, <2>4, <2>5, <2>6, ReplyTypes DEF Truthful
  <2>. QED
    BY <1>7, <1>8, <2>7, <2>8, ReplyTypes, SendKeeps
<1>. QED
  BY <1>3, <1>9, <1>10 DEF Writes

\* The middleware rotates.
LEMMA RotateKeeps ==
  ASSUME IInv, NEW r \in Request, req[r].pc = "handler", ~IdChanged(req[r]),
         NEW o \in Rotated(req[r], req[r].data.who), SendResult(r, o, Names(o.q.sid, FALSE))
  PROVE  IInv' /\ Fixed
<1>1. /\ TypeOK /\ Known /\ req[r] \in Requests /\ Held(req[r]) /\ exposed \subseteq used
      /\ req[r].sid \in used \cup {NoId}
  BY InvFacts
<1>2. PICK p \in Requests : p = req[r]
  BY <1>1
<1>3. p.data \in Data /\ p.data.who \in Who /\ Stored(p.data).who = p.data.who
  BY RecordTypes DEF Requests, Data
<1>4. Rotates(o, p, p.data.who)
  BY <1>1, <1>2, <1>3, RotatedOut
<1>5. Becomes(o.w) /\ Send(r, o.q, IF o.ok THEN Names(o.q.sid, FALSE) ELSE Bare(TRUE))
  BY DEF SendResult
<1>6. Evolves(NoId) /\ o.q \in Requests
  BY <1>1, <1>2, <1>4, <1>5, WorldEnds DEF Rotates, Has, Same
<1>7. CASE ~o.ok
  <2>1. Send(r, o.q, Bare(TRUE))
    BY <1>5, <1>7
  <2>. QED
    BY <1>6, <2>1, ReplyTypes, PlainKeeps DEF Own
<1>8. CASE o.ok
  <2>1. PICK i \in Id : i = o.q.sid
    BY <1>4, <1>8 DEF Rotates
  <2>2. /\ i \in used' /\ i \notin used /\ store'[i] = Stored(p.data)
        /\ p.data.who = NoSubject \/ i \in unindexed' \/ i \in index'[p.data.who]
        /\ o.q.returned = p.returned
    BY <1>4, <1>5, <1>8, <2>1 DEF Rotates, Has, Same, Becomes, Listed
  <2>3. p.returned = NoId
    BY <1>1, <1>2 DEF Held, Drew, IdChanged
  <2>4. Send(r, o.q, Names(i, FALSE))
    BY <1>5, <1>8, <2>1
  <2>5. PICK reply \in Replies :
          reply = Names(i, FALSE) /\ reply.kind = "names" /\ reply.id = i /\ reply.failed = FALSE
    BY ReplyTypes
  <2>6. store'[i].who = p.data.who
    BY <1>3, <2>2
  <2>7. Truthful(r, o.q, reply)
    BY <2>2, <2>3, <2>5, <2>6 DEF Truthful
  <2>. QED
    BY <1>6, <2>4, <2>5, <2>7, SendKeeps DEF Own
<1>. QED
  BY <1>4, <1>7, <1>8 DEF Rotates

LEMMA RespondKeeps ==
  ASSUME IInv, NEW r \in Request, NEW failed \in BOOLEAN, Respond(r, failed)
  PROVE  IInv' /\ Fixed
<1>1. req[r] \in Requests /\ req[r].pc = "handler" /\ TypeOK /\ Known
  BY InvFacts DEF Respond
<1>2. PICK out : out = decide_outcome(req[r], failed)
  OBVIOUS
<1>3. /\ out \in Outcomes
      /\ out = "CLEAR_COOKIE" => req[r].revoked
      /\ out = "SIGN_OUT" => req[r].loaded # NoId
      /\ out = "COOKIE_ONLY" => IdChanged(req[r]) /\ (failed => ~Changed(req[r]))
      /\ out = "ROTATE" => ~failed /\ ~IdChanged(req[r])
      /\ out = "WRITE" => ~Changed(req[r]) /\ ~IdChanged(req[r])
  BY <1>1, <1>2, OutcomeFacts
<1>4. CASE Forget(r, failed)
  BY <1>1, <1>4, ForgetKeeps
<1>5. CASE Becomes(Now) /\ (Send(r, req[r], Bare(failed)) \/ Send(r, req[r], Bare(TRUE)))
  <2>1. Evolves(NoId)
    BY <1>1, <1>5, NowClosed, NothingEvolves DEF Becomes
  <2>. QED
    BY <1>1, <1>5, <2>1, ReplyTypes, PlainKeeps DEF Own
<1>6. CASE /\ ~Forgets(req[r]) /\ out = "CLEAR_COOKIE"
           /\ Becomes(Now) /\ Send(r, req[r], Clears(failed, TRUE))
  BY <1>1, <1>3, <1>6, ClearCookieKeeps
<1>7. CASE /\ out = "SIGN_OUT"
           /\ \E o \in Revoked(req[r]) : SendResult(r, o, Clears(failed, TRUE))
  BY <1>1, <1>3, <1>7, SignOutKeeps
<1>8. CASE /\ out = "COOKIE_ONLY" /\ req[r].modified
           /\ \E o \in Written(req[r]) : SendResult(r, o, Names(o.q.sid, failed))
  BY <1>1, <1>3, <1>8, WriteKeeps
<1>9. CASE /\ out = "COOKIE_ONLY" /\ ~req[r].modified
           /\ \E o \in {Done(Now, req[r])} : SendResult(r, o, Names(o.q.sid, failed))
  <2>1. PICK o : o = Done(Now, req[r])
    OBVIOUS
  <2>2. SendResult(r, o, Names(o.q.sid, failed)) /\ o.w = Now /\ o.q = req[r] /\ o.ok = TRUE
    BY <1>9, <2>1 DEF Done
  <2>3. Becomes(Now) /\ Send(r, req[r], Names(req[r].sid, failed))
    BY <2>2 DEF SendResult
  <2>. QED
    BY <1>1, <1>3, <1>9, <2>3, CookieOnlyKeeps
<1>10. CASE /\ out = "ROTATE"
            /\ \E o \in Rotated(req[r], req[r].data.who) :
                 SendResult(r, o, Names(o.q.sid, failed))
  <2>1. failed = FALSE
    BY <1>3, <1>10
  <2>. QED
    BY <1>1, <1>3, <1>10, <2>1, RotateKeeps
<1>11. CASE /\ out = "WRITE"
            /\ \E o \in Written(req[r]) : SendResult(r, o, Names(o.q.sid, failed))
  BY <1>1, <1>3, <1>11, WriteKeeps
<1>. QED
  BY <1>1, <1>2, <1>4, <1>5, <1>6, <1>7, <1>8, <1>9, <1>10, <1>11 DEF Respond

\* The request is over: its answer arrived, or nobody waits for it.
LEMMA OverKeeps ==
  ASSUME IInv, NEW r \in Request, req' = [req EXCEPT ![r] = Idle],
         UNCHANGED <<store, index, used, exposed, unindexed>>,
         cookie' \in exposed \cup {NoId}, SweepsOn
  PROVE  IInv' /\ Fixed
<1>1. TypeOK /\ Known /\ exposed \subseteq used
  BY InvFacts
<1>2. Idle \in Requests /\ Idle.pc = "idle"
  BY BoundAssumption, RecordTypes DEF Idle, NoReply, Requests, MaybeId
<1>3. Evolves(NoId)
  BY <1>1, NothingEvolves
<1>4. PICK q : q = Idle
  OBVIOUS
<1>5. Held(q)' /\ SentOK(q)'
  BY <1>2, <1>4 DEF Held, SentOK
<1>6. Proceeds(r, q)
  BY <1>1, <1>2, <1>4 DEF Proceeds
<1>. QED
  BY <1>3, <1>5, <1>6, StepKeeps DEF Own

LEMMA DeliverKeeps ==
  ASSUME IInv, NEW r \in Request, Deliver(r)
  PROVE  IInv' /\ Fixed
<1>1. cookie' \in exposed \cup {NoId}
  BY InvFacts DEF Deliver, SentOK
<1>2. SweepsOn
  BY InvFacts, SweepsStay DEF Deliver
<1>. QED
  BY <1>1, <1>2, OverKeeps DEF Deliver

LEMMA DisconnectKeeps ==
  ASSUME IInv, NEW r \in Request, Disconnect(r)
  PROVE  IInv' /\ Fixed
<1>1. SweepsOn
  BY InvFacts, SweepsStop DEF Disconnect
<1>. QED
  BY <1>1, InvFacts, OverKeeps DEF Disconnect

\* No request moves.
LEMMA StoreKeeps ==
  ASSUME IInv, Evolves(NoId), UNCHANGED <<cookie, req, exposed>>, SweepsOn
  PROVE  IInv' /\ Fixed
<1>1. /\ TypeOK /\ Known /\ Apart /\ ExposedAreIndexed /\ exposed \subseteq used
      /\ used \subseteq used'
  BY DEF IInv, Known, Evolves
<1>2. TypeOK'
  BY <1>1 DEF Evolves, TypeOK, Record, SweepsOn
<1>3. Known'
  BY <1>1 DEF Evolves, Known, Live
<1>4. Apart'
  BY <1>1 DEF Apart, Drew
<1>5. ASSUME NEW r \in Request
      PROVE  Held(req[r])' /\ SentOK(req[r])'
  <2>1. PICK p \in Requests : p = req[r] /\ p = req'[r] /\ Held(p) /\ SentOK(p)
    BY <1>5, InvFacts
  <2>2. SentOK(p)'
    BY <1>1, <2>1, SentKeeps
  <2>3. Held(p)'
    <3>1. CASE p.pc = "handler"
      <4>1. Further(p, p) /\ (Drew(p) => p.sid # NoId /\ p.sid \notin exposed')
        BY <2>1, <3>1 DEF Further, Drew, Held
      <4>. QED
        BY <1>1, <2>1, <4>1, HeldKeeps
    <3>2. CASE p.pc # "handler"
      BY <3>2 DEF Held
    <3>. QED
      BY <3>1, <3>2
  <2>. QED
    BY <2>1, <2>2, <2>3 DEF Held, SentOK, Drew
<1>6. ExposedAreIndexed'
  <2>1. ASSUME NEW j \in exposed \ unindexed', Live(j)', store'[j].who # NoSubject
        PROVE  j \in index'[store'[j].who]
    BY <1>1, <2>1, ExposedStays
  <2>. QED
    BY <2>1 DEF ExposedAreIndexed, Live
<1>7. Fixed
  BY <1>1, EvolvedFacts DEF Fixed, Evolves, Live
<1>8. \A u \in Request : SweepOK(sweep[u])'
  BY SweepKeeps
<1>. QED
  BY <1>2, <1>3, <1>4, <1>5, <1>6, <1>7, <1>8 DEF IInv

LEMMA ExpireKeeps ==
  ASSUME IInv, NEW i \in Id, Expire(i)
  PROVE  IInv' /\ Fixed
<1>1. TypeOK /\ Known
  BY DEF IInv
<1>2. Evolves(NoId)
  BY <1>1, RecordTypes DEF Expire, Evolves, TypeOK, Known, Record, Live
<1>3. SweepsOn
  BY <1>1, SweepsStay DEF Expire
<1>. QED
  BY <1>2, <1>3, StoreKeeps DEF Expire

\* revoke_all deletes records it has read, all of them or as many as it could.
LEMMA RevokeAllDeleteKeeps ==
  ASSUME IInv, NEW r \in Request, RevokeAllDelete(r)
  PROVE  IInv' /\ Fixed
<1>1. TypeOK /\ Known /\ sweep[r] \in Sweeps /\ SweepOK(sweep[r])
  BY DEF IInv, TypeOK
<1>2. PICK ended \in SUBSET sweep[r].members :
        /\ store' = [i \in Id |-> IF i \in ended THEN Gone ELSE store[i]]
        /\ \/ ended = sweep[r].members /\ sweep' = [sweep EXCEPT ![r].at = "deleted"]
           \/ sweep' = [sweep EXCEPT ![r] = NoSweep]
  BY DEF RevokeAllDelete
<1>3. Evolves(NoId)
  BY <1>1, <1>2, RecordTypes DEF RevokeAllDelete, Evolves, TypeOK, Known, Record, Live
<1>4. CASE ended = sweep[r].members /\ sweep' = [sweep EXCEPT ![r].at = "deleted"]
  <2>1. PICK x : x = [sweep[r] EXCEPT !.at = "deleted"]
    OBVIOUS
  <2>2. x \in Sweeps /\ x.of = sweep[r].of /\ x.members = sweep[r].members
    BY <1>1, <2>1 DEF Sweeps
  <2>3. \A i \in x.members : ~Live(i)'
    BY <1>1, <1>2, <1>4, <2>2, RecordTypes DEF Live, Sweeps
  <2>4. x.of \in Subject /\ x.members \subseteq used'
    BY <1>1, <2>2 DEF SweepOK, RevokeAllDelete
  <2>5. SweepOK(x)'
    BY <2>3, <2>4 DEF SweepOK
  <2>6. SweepsOn
    BY <1>1, <1>4, <2>1, <2>2, <2>5 DEF SweepsOn, TypeOK
  <2>. QED
    BY <1>3, <2>6, StoreKeeps DEF RevokeAllDelete
<1>5. CASE sweep' = [sweep EXCEPT ![r] = NoSweep]
  BY <1>1, <1>3, <1>5, SweepsStop, StoreKeeps DEF RevokeAllDelete
<1>. QED
  BY <1>2, <1>4, <1>5

\* revoke_all drops the index: what it had read is over, and what it had not is
\* known to be lost sight of.
LEMMA RevokeAllClearKeeps ==
  ASSUME IInv, NEW r \in Request, RevokeAllClear(r)
  PROVE  IInv' /\ Fixed
<1>1. TypeOK /\ Known /\ sweep[r] \in Sweeps /\ SweepOK(sweep[r])
  BY DEF IInv, TypeOK
<1>2. SweepsOn
  BY <1>1, SweepsStop DEF RevokeAllClear
<1>3. CASE UNCHANGED <<index, unindexed>>
  BY <1>1, <1>2, <1>3, NothingEvolves, StoreKeeps DEF RevokeAllClear
<1>4. CASE /\ index' = [index EXCEPT ![sweep[r].of] = {}]
           /\ unindexed' = unindexed \cup (index[sweep[r].of] \ sweep[r].members)
  <2>1. PICK s \in Subject : s = sweep[r].of
    BY <1>1 DEF SweepOK, RevokeAllClear
  <2>2. /\ index' \in [Subject -> SUBSET Id] /\ index'[s] = {}
        /\ \A x \in Subject : x # s => index'[x] = index[x]
    BY <1>1, <1>4, <2>1 DEF TypeOK
  <2>3. \A j \in index[s] : ~Live(j) \/ j \in unindexed'
    BY <1>1, <1>4, <2>1 DEF SweepOK, RevokeAllClear
  <2>4. unindexed' \in SUBSET Id /\ unindexed \subseteq unindexed' /\ unindexed' \subseteq used
    BY <1>1, <1>4, <2>1 DEF TypeOK, Known
  <2>5. store' = store /\ used' = used
    BY DEF RevokeAllClear
  <2>6. \A j \in used, x \in Subject :
          j \in index[x] => j \in index'[x] \/ ~store'[j].live \/ j \in unindexed'
    BY <2>2, <2>3, <2>5 DEF Live
  <2>7. \A x \in Subject : index'[x] \subseteq used
    BY <1>1, <2>2 DEF Known
  <2>8. /\ store' \in [Id -> Record] /\ used' \in SUBSET Id
        /\ \A j \in Id : store'[j].live => j \in used'
    BY <1>1, <2>5 DEF TypeOK, Record, Known, Live
  <2>9. Evolves(NoId)
    BY <2>2, <2>4, <2>5, <2>6, <2>7, <2>8 DEF Evolves
  <2>. QED
    BY <1>2, <2>9, StoreKeeps DEF RevokeAllClear
<1>. QED
  BY <1>3, <1>4 DEF RevokeAllClear

LEMMA StepInv ==
  ASSUME IInv, [Next]_vars
  PROVE  IInv' /\ Fixed
<1>1. CASE UNCHANGED vars
  BY <1>1, NothingEvolves, SweepsStay, StoreKeeps DEF vars, IInv
<1>2. ASSUME NEW r \in Request, Arrive(r)
      PROVE  IInv' /\ Fixed
  BY <1>2, ArriveKeeps
<1>3. ASSUME NEW r \in Request, Read(r) \/ Put(r) \/ Clear(r) \/ Reauthenticate(r)
      PROVE  IInv' /\ Fixed
  BY <1>3, ReadKeeps, PutKeeps, ClearKeeps, ReauthenticateKeeps
<1>4. ASSUME NEW r \in Request, NEW s \in Who, SetPrincipal(r, s)
      PROVE  IInv' /\ Fixed
  BY <1>4, SetPrincipalKeeps
<1>5. ASSUME NEW r \in Request, HandlerRotate(r) \/ HandlerRevoke(r)
      PROVE  IInv' /\ Fixed
  BY <1>5, HandlerRotateKeeps, HandlerRevokeKeeps
<1>6. ASSUME NEW r \in Request, NEW s \in Subject, RevokeAllRead(r, s)
      PROVE  IInv' /\ Fixed
  BY <1>6, RevokeAllReadKeeps
<1>10. ASSUME NEW r \in Request, RevokeAllDelete(r) \/ RevokeAllClear(r)
       PROVE  IInv' /\ Fixed
  BY <1>10, RevokeAllDeleteKeeps, RevokeAllClearKeeps
<1>7. ASSUME NEW r \in Request, NEW failed \in BOOLEAN, Respond(r, failed)
      PROVE  IInv' /\ Fixed
  BY <1>7, RespondKeeps
<1>8. ASSUME NEW r \in Request, Deliver(r) \/ Disconnect(r)
      PROVE  IInv' /\ Fixed
  BY <1>8, DeliverKeeps, DisconnectKeeps
<1>9. ASSUME NEW i \in Id, Expire(i)
      PROVE  IInv' /\ Fixed
  BY <1>9, ExpireKeeps
<1>. QED
  BY <1>1, <1>2, <1>3, <1>4, <1>5, <1>6, <1>7, <1>8, <1>9, <1>10 DEF Next

LEMMA InitInv == Init => IInv
<1>1. SUFFICES ASSUME Init
               PROVE  IInv
  OBVIOUS
<1>2. TypeOK
  <2>1. Idle \in Requests
    BY BoundAssumption, RecordTypes DEF Idle, NoReply, Requests, MaybeId
  <2>2. NoSweep \in Sweeps
    BY DEF NoSweep, Sweeps, Who
  <2>. QED
    BY <1>1, <2>1, <2>2, RecordTypes DEF Init, TypeOK, Record, MaybeId
<1>4. \A r \in Request : SweepOK(sweep[r])
  BY <1>1 DEF Init, SweepOK, NoSweep
<1>3. \A r \in Request : req[r].pc = "idle"
  BY <1>1 DEF Init, Idle
<1>. QED
  BY <1>1, <1>2, <1>3, <1>4
     DEF Init, IInv, Known, Apart, ExposedAreIndexed, Held, SentOK, Live, Gone

-----------------------------------------------------------------------------
(***************************************************************************)
(* Whose sessions the index lists                                          *)
(***************************************************************************)

\* Handlers that rotate the session themselves do not also name its principal.
Separate == "rotate" \notin Ops \/ ("principal" \notin Ops /\ "clear" \notin Ops)

\* A live session is listed under nobody but its own principal.
Placed == \A s \in Subject : \A i \in index[s] : Live(i) => store[i].who = s

\* What a handler has drawn, it drew for the principal its payload has.
Settled(q) ==
  q.pc = "handler" =>
    /\ "rotate" \in Ops => q.data.who = q.subject
    /\ Drew(q) => "rotate" \in Ops /\ (Live(q.sid) => store[q.sid].who = q.data.who)

Orderly == Placed /\ \A r \in Request : Settled(req[r])

\* A world in which what is newly listed is listed rightly.
ListsRight(w) ==
  \A s \in Subject : \A j \in w.index[s] :
    j \in index[s] \/ (w.store[j].live => w.store[j].who = s)

\* A step after which live records are still whose they were.
Steady == \A j \in used : Live(j)' => Live(j) /\ store'[j].who = store[j].who

\* A step that lists nothing wrongly.
Lists ==
  \A s \in Subject : \A j \in index'[s] :
    j \in index[s] \/ (Live(j)' => store'[j].who = s)

\* Ending a session lists nothing.
LEMMA EndingLists ==
  ASSUME TypeOK, Known, NEW q \in Requests, NEW o \in Ending(q)
  PROVE  \A s \in Subject : o.w.index[s] \subseteq index[s]
<1>0. Closed(Now) /\ Now.index = index /\ q.subject \in Who /\ q.sid \in MaybeId
  BY NowClosed DEF Requests
<1>1. CASE q.sid = NoId
  BY <1>0, <1>1 DEF Ending, Done
<1>2. CASE q.sid \in Id
  <2>1. PICK d : d = Deleted(Now, q.sid)
    OBVIOUS
  <2>2. d.index = index /\ d \in World
    BY <1>0, <1>2, <2>1, RecordTypes DEF Deleted, Closed, World
  <2>3. PICK e : e = Dropped(d, q.subject, q.sid)
    OBVIOUS
  <2>4. \A s \in Subject : e.index[s] \subseteq index[s]
    <3>1. CASE q.subject = NoSubject
      BY <2>2, <2>3, <3>1 DEF Dropped
    <3>2. CASE q.subject \in Subject
      <4>1. e = [d EXCEPT !.index[q.subject] = @ \ {q.sid}]
        BY <2>3, <3>2, NamesAssumption DEF Dropped
      <4>2. e.index = [index EXCEPT ![q.subject] = @ \ {q.sid}]
        BY <2>2, <4>1 DEF World
      <4>. QED
        BY <3>2, <4>2 DEF TypeOK
    <3>. QED
      BY <1>0, <3>1, <3>2 DEF Who
  <2>5. o.w \in {Now, d, e}
    BY <1>2, <2>1, <2>3, NamesAssumption DEF Ending, Raised, Done
  <2>. QED
    BY <1>0, <2>2, <2>4, <2>5
<1>. QED
  BY <1>0, <1>1, <1>2 DEF MaybeId

\* Nor does creating one.
LEMMA CreatingLists ==
  ASSUME NEW w, Closed(w), NEW q \in Requests, NEW i \in Id, NEW o \in Creating(w, q, i)
  PROVE  o.w.index = w.index
<1>1. PICK d : d = [w EXCEPT !.used = @ \cup {i}]
  OBVIOUS
<1>2. d.index = w.index /\ d \in World
  BY <1>1 DEF Closed, World
<1>3. PICK e : e = [d EXCEPT !.store[i] = Stored(q.data)]
  OBVIOUS
<1>4. e.index = d.index
  BY <1>2, <1>3 DEF World
<1>5. o.w \in {d, e}
  BY <1>1, <1>3 DEF Creating, Raised, Done
<1>. QED
  BY <1>2, <1>4, <1>5

\* An outcome that adds no entry to a world but that of i under s.
ListsOne(o, w, s, i) ==
  /\ o.w.store = w.store
  /\ \A x \in Subject : \A j \in o.w.index[x] : j \in w.index[x] \/ (x = s /\ j = i)

\* Indexing lists one identifier under one subject.
LEMMA IndexingLists ==
  ASSUME NEW w, Closed(w), NEW q, NEW s \in Who, NEW i \in Id, NEW o \in Indexing(w, q, s, i)
  PROVE  ListsOne(o, w, s, i)
<1> USE DEF ListsOne
<1>1. CASE s = NoSubject
  BY <1>1 DEF Indexing, Done
<1>2. CASE s \in Subject
  <2>1. PICK d : d = [w EXCEPT !.index[s] = @ \cup {i}, !.unindexed = @ \ {i}]
    OBVIOUS
  <2>2. d.store = w.store /\ d.index = [w.index EXCEPT ![s] = @ \cup {i}]
    BY <1>2, <2>1 DEF Closed, World
  <2>3. PICK e : e = [w EXCEPT !.unindexed = @ \cup {i}]
    OBVIOUS
  <2>4. e.store = w.store /\ e.index = w.index
    BY <2>3 DEF Closed, World
  <2>5. o.w = d \/ o.w = e
    BY <1>2, <2>1, <2>3, NamesAssumption DEF Indexing, Done, Raised
  <2>6. \A x \in Subject : \A j \in d.index[x] : j \in w.index[x] \/ (x = s /\ j = i)
    BY <1>2, <2>2 DEF Closed, World
  <2>. QED
    BY <2>2, <2>4, <2>5, <2>6
<1>. QED
  BY <1>1, <1>2 DEF Who

\* A rotation under the principal of the payload lists the new session rightly.
LEMMA RotatedLists ==
  ASSUME TypeOK, Known, NEW q \in Requests, q.sid \in used \cup {NoId},
         NEW s \in Who, s = q.data.who, NEW o \in Rotated(q, s)
  PROVE  ListsRight(o.w)
<1>0. Closed(Now) /\ Now.used = used /\ q.data \in Data /\ q.subject \in Who
  BY NowClosed DEF Requests
<1>1. CASE o \in Ending(q)
  BY <1>1, EndingLists DEF ListsRight
<1>2. ASSUME NEW e \in Ending(q), e.ok, NEW i \in Id \ used, NEW c \in Creating(e.w, q, i)
      PROVE  /\ Closed(c.w) /\ \A x \in Subject : c.w.index[x] \subseteq index[x]
             /\ c.ok => c.q.sid = i /\ c.w.store[i].who = s
  <2>1. Closed(e.w) /\ e.w.used = used
    BY <1>0, <1>2, EndingOut DEF After
  <2>2. PICK w : w = e.w
    OBVIOUS
  <2>3. Created(c, w, q, i)
    BY <1>2, <2>1, <2>2, CreatingOut
  <2>4. c.w.index = w.index
    BY <1>2, <2>1, <2>2, CreatingLists
  <2>5. \A x \in Subject : w.index[x] \subseteq index[x]
    BY <1>2, <2>2, EndingLists
  <2>6. c.ok => c.q.sid = i /\ c.w.store[i] = Stored(q.data)
    BY <2>3 DEF Created, Has
  <2>. QED
    BY <1>0, <2>3, <2>4, <2>5, <2>6, RecordTypes DEF Created, After
<1>3. ASSUME NEW e \in Ending(q), e.ok, NEW i \in Id \ used, o \in Creating(e.w, q, i)
      PROVE  ListsRight(o.w)
  BY <1>2, <1>3 DEF ListsRight
<1>4. ASSUME NEW e \in Ending(q), e.ok, NEW i \in Id \ used, NEW c \in Creating(e.w, q, i), c.ok,
             NEW a, o \in Indexing(c.w, a, s, c.q.sid)
      PROVE  ListsRight(o.w)
  <2>1. /\ Closed(c.w) /\ c.q.sid = i /\ c.w.store[i].who = s
        /\ \A x \in Subject : c.w.index[x] \subseteq index[x]
    BY <1>2, <1>4
  <2>2. /\ o.w.store = c.w.store
        /\ \A x \in Subject : \A j \in o.w.index[x] : j \in c.w.index[x] \/ (x = s /\ j = i)
    <3>1. PICK w : w = c.w
      OBVIOUS
    <3>2. o \in Indexing(w, a, s, i) /\ Closed(w)
      BY <1>4, <2>1, <3>1
    <3>3. ListsOne(o, w, s, i)
      BY <3>2, IndexingLists
    <3>. QED
      BY <3>1, <3>3 DEF ListsOne
  <2>3. ASSUME NEW x \in Subject, NEW j \in o.w.index[x], j \notin index[x]
        PROVE  o.w.store[j].who = x
    <3>1. x = s /\ j = i
      BY <2>1, <2>2, <2>3
    <3>. QED
      BY <2>1, <2>2, <3>1
  <2>. QED
    BY <2>3 DEF ListsRight
<1>. QED
  BY <1>1, <1>3, <1>4, RotatedCases

\* A write lists the session rightly.
LEMMA WrittenLists ==
  ASSUME TypeOK, Known, NEW q \in Requests, q.sid \in used \cup {NoId}, NEW o \in Written(q)
  PROVE  ListsRight(o.w)
<1>0. /\ Closed(Now) /\ Now.index = index /\ Now.used = used /\ q.data \in Data
      /\ q.data.who \in Who
  BY NowClosed DEF Requests, Data
<1>1. PICK saved : saved = [Now EXCEPT !.store[q.sid] = IF @.live THEN Stored(q.data) ELSE @]
  OBVIOUS
<1>2. PICK S : S = IF q.sid = NoId THEN UNION {Creating(Now, q, i) : i \in Id \ used}
                   ELSE {Raised(Now, q), Raised(saved, q), Done(saved, q)}
  OBVIOUS
<1>3. ASSUME NEW e \in S
      PROVE  /\ Closed(e.w) /\ e.w.index = index
             /\ e.ok => /\ e.q.sid \in Id
                        /\ e.w.store[e.q.sid].live => e.w.store[e.q.sid].who = q.data.who
  <2>1. CASE q.sid = NoId
    <3>1. PICK i \in Id : i \notin used /\ e \in Creating(Now, q, i)
      BY <1>2, <1>3, <2>1
    <3>2. Created(e, Now, q, i) /\ e.w.index = index
      BY <1>0, <3>1, CreatingOut, CreatingLists
    <3>3. e.ok => e.q.sid = i /\ e.w.store[i] = Stored(q.data)
      BY <3>2 DEF Created, Has
    <3>. QED
      BY <1>0, <3>2, <3>3, RecordTypes DEF Created, After
  <2>2. CASE q.sid \in Id
    <3>1. /\ After(Now, saved, q.sid, {Stored(q.data)})
          /\ saved.store[q.sid].live => saved.store[q.sid].who = q.data.who
      BY <1>1, <2>2, SavedWorld
    <3>5. Closed(saved)
      BY <3>1 DEF After
    <3>2. saved.index = index
      BY <1>0, <1>1 DEF Closed, World
    <3>3. e \in {Raised(Now, q), Raised(saved, q), Done(saved, q)}
      BY <1>2, <1>3, <2>2, NamesAssumption
    <3>4. \/ e.w = Now /\ e.q = q /\ e.ok = FALSE
          \/ e.w = saved /\ e.q = q /\ e.ok = FALSE
          \/ e.w = saved /\ e.q = q /\ e.ok = TRUE
      BY <3>3 DEF Raised, Done
    <3>. QED
      BY <1>0, <2>2, <3>1, <3>2, <3>4, <3>5
  <2>. QED
    BY <2>1, <2>2 DEF TypeOK
<1>4. \/ o \in S
      \/ \E e \in S : e.ok /\ o \in Indexing(e.w, [e.q EXCEPT !.subject = q.data.who], q.data.who, e.q.sid)
  BY <1>1, <1>2, Zenon DEF Written
<1>5. CASE o \in S
  BY <1>3, <1>5 DEF ListsRight
<1>6. ASSUME NEW e \in S, e.ok, NEW a, o \in Indexing(e.w, a, q.data.who, e.q.sid)
      PROVE  ListsRight(o.w)
  <2>1. PICK w, i : w = e.w /\ i = e.q.sid
    OBVIOUS
  <2>2. /\ Closed(w) /\ w.index = index /\ i \in Id
        /\ w.store[i].live => w.store[i].who = q.data.who
    BY <1>3, <1>6, <2>1
  <2>3. /\ o.w.store = w.store
        /\ \A x \in Subject : \A j \in o.w.index[x] :
             j \in w.index[x] \/ (x = q.data.who /\ j = i)
    <3>1. PICK s \in Who : s = q.data.who
      BY <1>0
    <3>2. o \in Indexing(w, a, s, i)
      BY <1>6, <2>1, <3>1
    <3>3. ListsOne(o, w, s, i)
      BY <2>2, <3>2, IndexingLists
    <3>. QED
      BY <3>1, <3>3 DEF ListsOne
  <2>4. ASSUME NEW x \in Subject, NEW j \in o.w.index[x], j \notin index[x], o.w.store[j].live
        PROVE  o.w.store[j].who = x
    <3>1. x = q.data.who /\ j = i
      BY <2>2, <2>3, <2>4
    <3>. QED
      BY <2>2, <2>3, <2>4, <3>1
  <2>. QED
    BY <2>4 DEF ListsRight
<1>. QED
  BY <1>4, <1>5, <1>6

\* Nor does a revocation list anything.
LEMMA RevokedLists ==
  ASSUME TypeOK, Known, NEW q \in Requests, NEW o \in Revoked(q)
  PROVE  ListsRight(o.w)
<1>1. PICK e \in Ending(q) : \E p : o = IF e.ok THEN Done(e.w, p) ELSE e
  BY DEF Revoked
<1>2. o.w = e.w
  BY <1>1 DEF Done
<1>. QED
  BY <1>2, EndingLists DEF ListsRight

\* What an operation leaves, as a step.
LEMMA WorldSteady ==
  ASSUME TypeOK, Known, NEW w, NEW i, NEW written, Becomes(w), After(Now, w, i, written),
         \A x \in written : Live(i) => x.who = store[i].who
  PROVE  Steady
<1>1. Now.store = store /\ Now.used = used /\ used \subseteq Id
  BY NowClosed DEF TypeOK
<1>2. \A j \in used : \/ store'[j] = store[j]
                      \/ ~store'[j].live
                      \/ j = i /\ store[j].live /\ store'[j] \in written
  BY <1>1, RecordTypes DEF Becomes, After
<1>. QED
  BY <1>2 DEF Steady, Live

LEMMA WorldLists ==
  ASSUME NEW w, Becomes(w), ListsRight(w)
  PROVE  Lists
BY DEF Becomes, ListsRight, Lists, Live

\* A step that touches neither records nor entries.
LEMMA NothingListed ==
  ASSUME UNCHANGED <<store, index>>
  PROVE  Steady /\ Lists
BY DEF Steady, Lists, Live

\* The index stays right.
LEMMA PlacedKeeps ==
  ASSUME IInv, Placed, Steady, Lists
  PROVE  Placed'
<1>1. \A s \in Subject : index[s] \subseteq used
  BY DEF IInv, Known
<1>. QED
  BY <1>1 DEF Placed, Steady, Lists, Live

\* A request that does not move.
LEMMA SettledKeeps ==
  ASSUME IInv, Steady, NEW q, Held(q), Settled(q)
  PROVE  Settled(q)'
<1>1. q.pc = "handler" /\ Drew(q) => q.sid \in used
  BY DEF Held, Drew
<1>. QED
  BY <1>1 DEF Settled, Steady, Live, Drew

\* One request moves.
LEMMA OrderlyKeeps ==
  ASSUME IInv, Orderly, Steady, Lists, NEW r \in Request, NEW q,
         req' = [req EXCEPT ![r] = q], Settled(q)'
  PROVE  Orderly'
<1>1. Placed'
  BY PlacedKeeps DEF Orderly
<1>2. ASSUME NEW u \in Request, NEW p, p = req'[u], Settled(p)'
      PROVE  Settled(req[u])'
  BY <1>2 DEF Settled, Drew
<1>3. ASSUME NEW u \in Request, u # r
      PROVE  Settled(req[u])'
  <2>1. PICK p : p = req[u] /\ p = req'[u]
    BY <1>3 DEF IInv, TypeOK
  <2>2. Held(p) /\ Settled(p)
    BY <2>1 DEF IInv, Orderly
  <2>3. Settled(p)'
    BY <2>2, SettledKeeps
  <2>. QED
    BY <1>2, <2>1, <2>3
<1>4. req'[r] = q
  BY DEF IInv, TypeOK
<1>. QED
  BY <1>1, <1>2, <1>3, <1>4 DEF Orderly

\* The request is not in its handler any more.
LEMMA OrderlyOver ==
  ASSUME IInv, Orderly, Steady, Lists, NEW r \in Request, NEW q,
         req' = [req EXCEPT ![r] = q], q.pc # "handler"
  PROVE  Orderly'
<1>1. Settled(q)'
  BY DEF Settled
<1>. QED
  BY <1>1, OrderlyKeeps

\* The handler keeps its identifier, its payload's principal and its subject.
LEMMA OrderlyOn ==
  ASSUME IInv, Orderly, Steady, Lists, NEW r \in Request, NEW q,
         req' = [req EXCEPT ![r] = q], req[r].pc = "handler",
         q.sid = req[r].sid, q.loaded = req[r].loaded,
         Drew(req[r]) \/ "rotate" \in Ops =>
           q.data.who = req[r].data.who /\ q.subject = req[r].subject
  PROVE  Orderly'
<1>1. PICK p : p = req[r] /\ Held(p) /\ Settled(p)
  BY DEF IInv, Orderly
<1>2. Settled(p)'
  BY <1>1, SettledKeeps
<1>3. Settled(q)'
  BY <1>1, <1>2 DEF Settled, Drew
<1>. QED
  BY <1>3, OrderlyKeeps

LEMMA OrderlyArrive ==
  ASSUME IInv, Orderly, NEW r \in Request, Arrive(r)
  PROVE  Orderly'
<1>1. req'[r].data.who = req'[r].subject /\ req'[r].sid = req'[r].loaded
  BY ArriveKeeps
<1>2. PICK q : req' = [req EXCEPT ![r] = q]
  BY DEF Arrive
<1>3. q.data.who = q.subject /\ q.sid = q.loaded
  BY <1>1, <1>2 DEF IInv, TypeOK
<1>4. Settled(q)'
  BY <1>3 DEF Settled, Drew
<1>. QED
  BY <1>2, <1>4, NothingListed, OrderlyKeeps DEF Arrive

\* What the handler does to its payload.
LEMMA OrderlyEdit ==
  ASSUME IInv, Orderly, Separate, NEW r \in Request,
         \/ Read(r) \/ Put(r) \/ Clear(r) \/ Reauthenticate(r)
         \/ \E s \in Who : SetPrincipal(r, s)
  PROVE  Orderly'
<1>0. req[r] \in Requests /\ req \in [Request -> Requests] /\ req[r].pc = "handler"
  BY InvFacts DEF TypeOK, Read, Put, Clear, Reauthenticate, SetPrincipal, May
<1>1. Steady /\ Lists
  BY NothingListed DEF Read, Put, Clear, Reauthenticate, SetPrincipal, Edit
<1>2. CASE Read(r)
  <2>1. PICK q : q = [req[r] EXCEPT !.accessed = TRUE, !.ops = @ + 1]
    OBVIOUS
  <2>2. req' = [req EXCEPT ![r] = q]
    BY <1>0, <1>2, <2>1 DEF Read
  <2>3. /\ q.sid = req[r].sid /\ q.loaded = req[r].loaded
        /\ q.data = req[r].data /\ q.subject = req[r].subject
    BY <1>0, <2>1 DEF Requests
  <2>. QED
    BY <1>0, <1>1, <2>2, <2>3, OrderlyOn
<1>3. CASE Reauthenticate(r)
  <2>1. PICK q : q = [req[r] EXCEPT !.rotated = TRUE, !.ops = @ + 1]
    OBVIOUS
  <2>2. req' = [req EXCEPT ![r] = q]
    BY <1>0, <1>3, <2>1 DEF Reauthenticate
  <2>3. /\ q.sid = req[r].sid /\ q.loaded = req[r].loaded
        /\ q.data = req[r].data /\ q.subject = req[r].subject
    BY <1>0, <2>1 DEF Requests
  <2>. QED
    BY <1>0, <1>1, <2>2, <2>3, OrderlyOn
<1>4. ASSUME NEW d, Edit(r, d), "rotate" \in Ops => d.who = req[r].data.who
      PROVE  Orderly'
  <2>1. PICK q : q = [req[r] EXCEPT !.data = d, !.accessed = TRUE, !.modified = TRUE,
                                    !.ops = @ + 1]
    OBVIOUS
  <2>2. req' = [req EXCEPT ![r] = q]
    BY <1>0, <1>4, <2>1 DEF Edit
  <2>3. /\ q.sid = req[r].sid /\ q.loaded = req[r].loaded
        /\ q.data = d /\ q.subject = req[r].subject
    BY <1>0, <2>1 DEF Requests
  <2>4. Drew(req[r]) => "rotate" \in Ops
    BY <1>0 DEF Orderly, Settled
  <2>. QED
    BY <1>0, <1>1, <1>4, <2>2, <2>3, <2>4, OrderlyOn
<1>5. CASE Put(r)
  <2>1. req[r].data \in Data
    BY <1>0 DEF Requests
  <2>2. PICK d : d = [req[r].data EXCEPT !.items = TRUE]
    OBVIOUS
  <2>3. d.who = req[r].data.who
    BY <2>1, <2>2 DEF Data
  <2>. QED
    BY <1>4, <1>5, <2>2, <2>3 DEF Put
<1>6. CASE Clear(r) \/ \E s \in Who : SetPrincipal(r, s)
  <2>1. "rotate" \notin Ops
    BY <1>6 DEF Clear, SetPrincipal, May, Separate
  <2>. QED
    BY <1>4, <1>6, <2>1 DEF Clear, SetPrincipal
<1>. QED
  BY <1>2, <1>3, <1>5, <1>6

LEMMA OrderlyRotate ==
  ASSUME IInv, Orderly, NEW r \in Request, HandlerRotate(r)
  PROVE  Orderly'
<1>1. /\ TypeOK /\ Known /\ req[r] \in Requests /\ Settled(req[r]) /\ req[r].pc = "handler"
      /\ req[r].sid \in used \cup {NoId} /\ req[r].subject \in Who
      /\ req[r].data.who = req[r].subject /\ "rotate" \in Ops
      /\ \A d \in Data : Stored(d).who = d.who
  BY InvFacts, RecordTypes DEF HandlerRotate, May, Requests, Orderly, Settled
<1>2. PICK p : p = [req[r] EXCEPT !.returned = NoId]
  OBVIOUS
<1>3. /\ p \in Requests /\ p.sid = req[r].sid /\ p.loaded = req[r].loaded
      /\ p.subject = req[r].subject /\ p.data = req[r].data /\ p.data \in Data
  BY <1>1, <1>2, RecordTypes DEF Requests
<1>4. PICK s \in Who : s = p.data.who /\ s = req[r].subject
  BY <1>1, <1>3
<1>5. PICK o \in Rotated(p, s) :
        /\ Becomes(o.w)
        /\ req' = [req EXCEPT ![r] = [o.q EXCEPT !.ops = @ + 1,
                                        !.returned = IF o.ok THEN o.q.sid ELSE NoId]]
  BY <1>2, <1>4 DEF HandlerRotate
<1>6. Rotates(o, p, s) /\ ListsRight(o.w)
  BY <1>1, <1>3, <1>4, <1>5, RotatedOut, RotatedLists
<1>7. Steady /\ Lists
  BY <1>1, <1>5, <1>6, WorldSteady, WorldLists DEF Rotates
<1>8. PICK q : q = [o.q EXCEPT !.ops = @ + 1, !.returned = IF o.ok THEN o.q.sid ELSE NoId]
  OBVIOUS
<1>9. req' = [req EXCEPT ![r] = q] /\ o.q \in Requests
  BY <1>3, <1>5, <1>6, <1>8 DEF Rotates, Has, Same
<1>10. /\ q.sid = o.q.sid /\ q.loaded = o.q.loaded
       /\ q.data = o.q.data /\ q.subject = o.q.subject
  BY <1>8, <1>9 DEF Requests
<1>11. CASE o.q = p
  BY <1>1, <1>3, <1>7, <1>9, <1>10, <1>11, OrderlyOn
<1>12. CASE /\ Has(o.q, p, o.q.sid) /\ o.q.subject = s
            /\ o.w.store[o.q.sid] = Stored(p.data)
  <2>1. q.data.who = q.subject /\ store'[q.sid].who = q.data.who
    BY <1>1, <1>3, <1>4, <1>5, <1>10, <1>12 DEF Has, Becomes
  <2>2. Settled(q)'
    BY <1>1, <2>1 DEF Settled
  <2>. QED
    BY <1>7, <1>9, <2>2, OrderlyKeeps
<1>. QED
  BY <1>6, <1>11, <1>12 DEF Rotates

LEMMA OrderlyRevoke ==
  ASSUME IInv, Orderly, NEW r \in Request, HandlerRevoke(r)
  PROVE  Orderly'
<1>1. /\ TypeOK /\ Known /\ req[r] \in Requests /\ req[r].pc = "handler"
      /\ req[r].sid \in used \cup {NoId}
  BY InvFacts DEF HandlerRevoke, May
<1>2. PICK p \in Requests : p = req[r]
  BY <1>1
<1>3. PICK o \in Revoked(p) :
        /\ Becomes(o.w)
        /\ req' = [req EXCEPT ![r] = [o.q EXCEPT !.ops = @ + 1, !.returned = NoId]]
  BY <1>2 DEF HandlerRevoke
<1>4. Revokes(o, p) /\ ListsRight(o.w)
  BY <1>1, <1>2, <1>3, RevokedOut, RevokedLists
<1>5. Steady /\ Lists
  BY <1>1, <1>3, <1>4, WorldSteady, WorldLists DEF Revokes
<1>6. PICK q : q = [o.q EXCEPT !.ops = @ + 1, !.returned = NoId]
  OBVIOUS
<1>7. req' = [req EXCEPT ![r] = q] /\ o.q \in Requests
  BY <1>3, <1>4, <1>6 DEF Revokes, Same
<1>8. /\ q.sid = o.q.sid /\ q.loaded = o.q.loaded
      /\ q.data = o.q.data /\ q.subject = o.q.subject
  BY <1>6, <1>7 DEF Requests
<1>9. CASE o.q = p
  BY <1>1, <1>2, <1>5, <1>7, <1>8, <1>9, OrderlyOn
<1>10. CASE o.q.sid = NoId /\ o.q.data = NoData /\ o.q.subject = NoSubject
  <2>1. Settled(q)'
    BY <1>8, <1>10, RecordTypes DEF Settled, Drew
  <2>. QED
    BY <1>5, <1>7, <2>1, OrderlyKeeps
<1>. QED
  BY <1>4, <1>9, <1>10 DEF Revokes

\* The read of revoke_all.
LEMMA OrderlyRevokeAll ==
  ASSUME IInv, Orderly, NEW r \in Request, NEW s \in Subject, RevokeAllRead(r, s)
  PROVE  Orderly'
<1>1. TypeOK /\ Known /\ req[r] \in Requests /\ req[r].pc = "handler"
  BY InvFacts DEF RevokeAllRead, May
<1>2. PICK q : q = [req[r] EXCEPT !.ops = @ + 1]
  OBVIOUS
<1>3. req' = [req EXCEPT ![r] = q]
  BY <1>1, <1>2 DEF RevokeAllRead, TypeOK
<1>4. /\ q.sid = req[r].sid /\ q.loaded = req[r].loaded
      /\ q.data = req[r].data /\ q.subject = req[r].subject
  BY <1>1, <1>2 DEF Requests
<1>5. Steady /\ Lists
  BY NothingListed DEF RevokeAllRead
<1>. QED
  BY <1>1, <1>3, <1>4, <1>5, OrderlyOn

\* No request moves, and nothing is listed.
LEMMA OrderlyStill ==
  ASSUME IInv, Orderly, Steady, Lists, UNCHANGED req
  PROVE  Orderly'
<1>1. Placed'
  BY PlacedKeeps DEF Orderly
<1>2. ASSUME NEW r \in Request
      PROVE  Settled(req[r])'
  <2>1. PICK p : p = req[r] /\ p = req'[r] /\ Held(p) /\ Settled(p)
    BY DEF IInv, Orderly
  <2>2. Settled(p)'
    BY <2>1, SettledKeeps
  <2>. QED
    BY <2>1, <2>2 DEF Settled, Drew
<1>. QED
  BY <1>1, <1>2 DEF Orderly

\* The other trips of revoke_all, and a record that expires.
LEMMA OrderlyStore ==
  ASSUME IInv, Orderly, \/ \E r \in Request : RevokeAllDelete(r) \/ RevokeAllClear(r)
                        \/ \E i \in Id : Expire(i)
  PROVE  Orderly'
<1>1. TypeOK /\ used \subseteq Id
  BY DEF IInv, TypeOK
<1>2. CASE \E i \in Id : Expire(i)
  <2>1. Steady /\ Lists /\ req' = req
    BY <1>1, <1>2, RecordTypes DEF TypeOK, Expire, Steady, Lists, Live
  <2>. QED
    BY <2>1, OrderlyStill
<1>3. CASE \E r \in Request : RevokeAllDelete(r)
  <2>1. PICK ended : store' = [i \in Id |-> IF i \in ended THEN Gone ELSE store[i]]
    BY <1>3 DEF RevokeAllDelete
  <2>2. index' = index /\ req' = req
    BY <1>3 DEF RevokeAllDelete
  <2>3. Steady /\ Lists
    BY <1>1, <2>1, <2>2, RecordTypes DEF Steady, Lists, Live
  <2>. QED
    BY <2>2, <2>3, OrderlyStill
<1>4. CASE \E r \in Request : RevokeAllClear(r)
  <2>1. store' = store /\ req' = req /\ \A x \in Subject : index'[x] \subseteq index[x]
    BY <1>1, <1>4 DEF RevokeAllClear, TypeOK
  <2>2. Steady /\ Lists
    BY <2>1 DEF Steady, Lists, Live
  <2>. QED
    BY <2>1, <2>2, OrderlyStill
<1>. QED
  BY <1>2, <1>3, <1>4

\* A write changes the principal of no live record.
LEMMA WriteSteady ==
  ASSUME IInv, Orderly, NEW r \in Request, req[r].pc = "handler",
         IdChanged(req[r]) \/ ~Changed(req[r]),
         NEW o \in Written(req[r]), Becomes(o.w)
  PROVE  Steady /\ Lists
<1>1. /\ TypeOK /\ Known /\ req[r] \in Requests /\ Held(req[r]) /\ Settled(req[r])
      /\ req[r].sid \in used \cup {NoId}
  BY InvFacts DEF Orderly
<1>2. PICK q \in Requests : q = req[r]
  BY <1>1
<1>3. Writes(o, q) /\ ListsRight(o.w) /\ Stored(q.data).who = q.data.who
  BY <1>1, <1>2, WrittenOut, WrittenLists, RecordTypes DEF Requests
<1>4. CASE q.sid = NoId
  <2>1. ASSUME NEW j \in used
        PROVE  j # NoId
    BY <1>1, NamesAssumption DEF TypeOK
  <2>2. /\ Now.store = store /\ Now.used = used
    BY <1>1, NowClosed
  <2>3. \A j \in used : \/ store'[j] = store[j]
                        \/ ~store'[j].live
    BY <1>1, <1>3, <1>4, <2>1, <2>2, RecordTypes DEF Writes, After, Becomes, TypeOK
  <2>. QED
    BY <1>3, <2>3, WorldLists DEF Steady, Live
<1>5. CASE q.sid # NoId
  <2>1. Live(q.sid) => q.data.who = store[q.sid].who
    <3>1. CASE Drew(q)
      BY <1>1, <1>2, <3>1 DEF Settled
    <3>2. CASE ~Drew(q)
      BY <1>1, <1>2, <1>5, <3>2 DEF Held, Drew, IdChanged, Changed
    <3>. QED
      BY <3>1, <3>2
  <2>2. \A x \in {Stored(q.data)} : Live(q.sid) => x.who = store[q.sid].who
    BY <1>3, <2>1
  <2>. QED
    BY <1>1, <1>3, <2>2, WorldSteady, WorldLists DEF Writes
<1>. QED
  BY <1>4, <1>5

LEMMA OrderlyRespond ==
  ASSUME IInv, Orderly, NEW r \in Request, NEW failed \in BOOLEAN, Respond(r, failed)
  PROVE  Orderly'
<1>1. /\ req[r] \in Requests /\ req[r].pc = "handler" /\ TypeOK /\ Known /\ Held(req[r])
      /\ req[r].sid \in used \cup {NoId} /\ exposed \subseteq used
  BY InvFacts DEF Respond
<1>2. PICK out : out = decide_outcome(req[r], failed)
  OBVIOUS
<1>3. /\ out = "COOKIE_ONLY" => IdChanged(req[r])
      /\ out = "WRITE" => ~Changed(req[r])
  BY <1>1, <1>2, OutcomeFacts
<1>4. ASSUME Steady, Lists, NEW p \in Requests, NEW reply, Send(r, p, reply)
      PROVE  Orderly'
  <2>1. PICK q : q = [p EXCEPT !.pc = "sent", !.reply = reply, !.ops = 0,
                             !.accessed = FALSE, !.subject = NoSubject,
                             !.rotated = FALSE, !.revoked = FALSE]
    OBVIOUS
  <2>2. req' = [req EXCEPT ![r] = q]
    BY <1>4, <2>1 DEF Send
  <2>3. q.pc = "sent"
    BY <2>1 DEF Requests
  <2>. QED
    BY <1>4, <2>2, <2>3, OrderlyOver
<1>5. ASSUME Becomes(Now)
      PROVE  Steady /\ Lists
  BY <1>1, <1>5, NowClosed, NothingListed DEF Becomes
<1>6. ASSUME NEW o, NEW reply, SendResult(r, o, reply), Steady, Lists, o.q \in Requests
      PROVE  Orderly'
  BY <1>4, <1>6 DEF SendResult
<1>7. CASE Forget(r, failed)
  <2>1. CASE Becomes(Deleted(Now, req[r].unloaded))
    <3>1. PICK i \in Id : i = req[r].unloaded
      BY <1>1, <1>7 DEF Forget, Forgets, Requests, MaybeId
    <3>2. PICK w : w = Deleted(Now, i)
      OBVIOUS
    <3>3. After(Now, w, i, {}) /\ w.index = index
      BY <1>1, <3>2, NowClosed, DeletedWorld, RecordTypes DEF Deleted, Closed, World
    <3>4. Steady /\ Lists
      BY <1>1, <2>1, <3>1, <3>2, <3>3, WorldSteady, WorldLists DEF ListsRight
    <3>. QED
      BY <1>1, <1>4, <1>7, <3>4 DEF Forget
  <2>2. CASE Becomes(Now)
    BY <1>1, <1>4, <1>5, <1>7, <2>2 DEF Forget
  <2>. QED
    BY <1>7, <2>1, <2>2 DEF Forget
<1>8. CASE Becomes(Now) /\ \E reply : Send(r, req[r], reply)
  BY <1>1, <1>4, <1>5, <1>8
<1>9. CASE \E o \in Revoked(req[r]) : \E reply : SendResult(r, o, reply)
  <2>1. PICK o \in Revoked(req[r]) : \E reply : SendResult(r, o, reply)
    BY <1>9
  <2>2. Revokes(o, req[r]) /\ ListsRight(o.w) /\ Becomes(o.w)
    BY <1>1, <2>1, RevokedOut, RevokedLists DEF SendResult
  <2>3. Steady /\ Lists /\ o.q \in Requests
    BY <1>1, <2>2, WorldSteady, WorldLists DEF Revokes, Same
  <2>. QED
    BY <1>6, <2>1, <2>3
<1>10. CASE /\ out \in {"COOKIE_ONLY", "WRITE"}
            /\ \E o \in Written(req[r]) : \E reply : SendResult(r, o, reply)
  <2>1. PICK o \in Written(req[r]) : \E reply : SendResult(r, o, reply)
    BY <1>10
  <2>2. Writes(o, req[r]) /\ Becomes(o.w)
    BY <1>1, <2>1, WrittenOut DEF SendResult
  <2>3. Steady /\ Lists /\ o.q \in Requests
    BY <1>1, <1>3, <1>10, <2>2, WriteSteady DEF Writes, Has, Same
  <2>. QED
    BY <1>6, <2>1, <2>3
<1>11. CASE \E o \in Rotated(req[r], req[r].data.who) : \E reply : SendResult(r, o, reply)
  <2>1. PICK s \in Who : s = req[r].data.who
    BY <1>1 DEF Requests, Data
  <2>2. PICK o \in Rotated(req[r], s) : \E reply : SendResult(r, o, reply)
    BY <1>11, <2>1
  <2>3. Rotates(o, req[r], s) /\ ListsRight(o.w) /\ Becomes(o.w)
    BY <1>1, <2>1, <2>2, RotatedOut, RotatedLists DEF SendResult
  <2>4. Steady /\ Lists /\ o.q \in Requests
    BY <1>1, <2>3, WorldSteady, WorldLists DEF Rotates, Has, Same
  <2>. QED
    BY <1>6, <2>2, <2>4
<1>12. CASE \E o \in {Done(Now, req[r])} : \E reply : SendResult(r, o, reply)
  <2>1. PICK o : o = Done(Now, req[r])
    OBVIOUS
  <2>2. o.w = Now /\ o.q = req[r]
    BY <2>1 DEF Done
  <2>. QED
    BY <1>1, <1>5, <1>6, <1>12, <2>1, <2>2 DEF SendResult
<1>. QED
  BY <1>2, <1>7, <1>8, <1>9, <1>10, <1>11, <1>12 DEF Respond

\* Every step.
LEMMA OrderlyStep ==
  ASSUME IInv, Orderly, Separate, [Next]_vars
  PROVE  Orderly'
<1>1. CASE UNCHANGED vars
  BY <1>1 DEF vars, Orderly, Placed, Settled, Drew, Live
<1>2. ASSUME NEW r \in Request, Arrive(r)
      PROVE  Orderly'
  BY <1>2, OrderlyArrive
<1>3. ASSUME NEW r \in Request,
             \/ Read(r) \/ Put(r) \/ Clear(r) \/ Reauthenticate(r)
             \/ \E s \in Who : SetPrincipal(r, s)
      PROVE  Orderly'
  BY <1>3, OrderlyEdit
<1>4. ASSUME NEW r \in Request, HandlerRotate(r) \/ HandlerRevoke(r)
      PROVE  Orderly'
  BY <1>4, OrderlyRotate, OrderlyRevoke
<1>5. ASSUME NEW r \in Request, NEW s \in Subject, RevokeAllRead(r, s)
      PROVE  Orderly'
  BY <1>5, OrderlyRevokeAll
<1>6. ASSUME NEW r \in Request, NEW failed \in BOOLEAN, Respond(r, failed)
      PROVE  Orderly'
  BY <1>6, OrderlyRespond
<1>7. ASSUME NEW r \in Request, Deliver(r) \/ Disconnect(r)
      PROVE  Orderly'
  <2>1. PICK q : q = Idle
    OBVIOUS
  <2>2. q.pc # "handler" /\ req' = [req EXCEPT ![r] = q] /\ Steady /\ Lists
    BY <1>7, <2>1, NothingListed DEF Deliver, Disconnect, Idle
  <2>. QED
    BY <2>2, OrderlyOver
<1>8. CASE \/ \E r \in Request : RevokeAllDelete(r) \/ RevokeAllClear(r)
           \/ \E i \in Id : Expire(i)
  BY <1>8, OrderlyStore
<1>. QED
  BY <1>1, <1>2, <1>3, <1>4, <1>5, <1>6, <1>7, <1>8 DEF Next

-----------------------------------------------------------------------------
(***************************************************************************)
(* The theorems                                                            *)
(***************************************************************************)

\* The inductive invariant holds in every reachable state.
THEOREM InvariantHolds == Spec => []IInv
<1>1. IInv /\ [Next]_vars => IInv'
  BY StepInv
<1>. QED
  BY <1>1, InitInv, PTL DEF Spec

\* Every variable has its type.
THEOREM TypeCorrect == Spec => []TypeOK
<1>1. IInv => TypeOK
  BY DEF IInv
<1>. QED
  BY <1>1, InvariantHolds, PTL

\* No session fixation: an identifier that a response has named never comes to
\* carry another principal, whatever handlers do, wherever the store fails and
\* in whatever order requests overlap.
THEOREM NoFixation == Spec => PrincipalFixed
<1>1. IInv /\ [Next]_vars =>
        [\A i \in exposed : Live(i) /\ Live(i)' => store'[i].who = store[i].who]_vars
  BY StepInv DEF Fixed
<1>. QED
  BY <1>1, InvariantHolds, PTL DEF Spec, PrincipalFixed

\* A response that clears the cookie tells the truth: what the request came
\* with is over, and stays so while the answer travels.
THEOREM SigningOutEnds == Spec => []SignOutEnds
<1>1. IInv => SignOutEnds
  BY DEF IInv, SentOK, SignOutEnds
<1>. QED
  BY <1>1, InvariantHolds, PTL

\* The middleware does not rotate again what a handler has rotated.
THEOREM RotatesOnce == Spec => []RotatedOnce
<1>1. IInv => RotatedOnce
  BY DEF IInv, SentOK, RotatedOnce
<1>. QED
  BY <1>1, InvariantHolds, PTL

\* A failed response grants no identity but the one its request came with.
THEOREM FailuresGrantNothing == Spec => []FailedRepliesGrantNothing
<1>1. IInv => FailedRepliesGrantNothing
  BY DEF IInv, SentOK, FailedRepliesGrantNothing
<1>. QED
  BY <1>1, InvariantHolds, PTL

\* revoke_all can find every session a browser holds, unless its last index
\* command failed or another revoke_all dropped its entry unread.
THEOREM BrowsersAreIndexed == Spec => []ExposedAreIndexed
<1>1. IInv => ExposedAreIndexed
  BY DEF IInv
<1>. QED
  BY <1>1, InvariantHolds, PTL

\* The store as the middleware uses it keeps the promise of SessionLifecycle: an
\* identifier becomes live in the step that draws it, and once it is over no
\* request, retry or late write brings it back.
IssuedOnce ==
  [][\A i \in Id : ~Live(i) /\ Live(i)' => i \notin used /\ i \in used']_vars

THEOREM NothingComesBack == Spec => IssuedOnce
<1>1. IInv /\ [Next]_vars =>
        [\A i \in Id : ~Live(i) /\ Live(i)' => i \notin used /\ i \in used']_vars
  BY StepInv DEF Fixed
<1>. QED
  BY <1>1, InvariantHolds, PTL DEF Spec, IssuedOnce

\* The promise of revoke_id that a handler can break does hold where handlers
\* which rotate the session themselves leave its principal alone: whatever the
\* middleware writes, rotates and indexes, in whatever order requests overlap
\* and wherever the store fails, nobody but its principal finds a session.
THEOREM ListedWhereHandlersDoNotSwitch ==
  ASSUME Separate
  PROVE  Spec => []ListedUnderOwner
<1>1. Init => Orderly
  BY DEF Init, Orderly, Placed, Settled, Idle, Live, Gone
<1>2. IInv /\ Orderly /\ [Next]_vars => Orderly'
  BY OrderlyStep
<1>3. Orderly => ListedUnderOwner
  BY DEF Orderly, Placed, ListedUnderOwner
<1>. QED
  BY <1>1, <1>2, <1>3, InvariantHolds, PTL DEF Spec
=============================================================================

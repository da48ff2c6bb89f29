----------------------- MODULE ResponseCaptureProofs -----------------------
(***************************************************************************)
(* The capture middleware, for bodies and buffers of any size and any      *)
(* responses.                                                              *)
(*                                                                         *)
(* A response is in one of seven phases, and the inductive invariant says  *)
(* of each one what the client, the buffer and the entry hold.  While the  *)
(* start is withheld the buffer is the body so far; once it has passed,    *)
(* the client has the body so far.                                         *)
(***************************************************************************)
EXTENDS ResponseCapture, SequenceTheorems, TLAPS

\* Nothing has been sent.
Fresh ==
  /\ client.starts = 0 /\ client.mark = "none" /\ client.body = <<>>
  /\ ~client.ended /\ ~client.extended /\ ~client.error

\* The response has been sent up to where the application is.
UpToDate(mark) ==
  /\ client.starts = 1 /\ client.mark \in mark /\ client.body = app.body
  /\ ~client.extended /\ ~client.error

\* An entry, if there is one, is of the whole body, and there may be one.
EntryOK ==
  entry.made =>
    /\ entry.body = app.body
    /\ Len(entry.body) <= MaxBody
    /\ Verdict(reply) = "miss"
    /\ reply.pending # "none"

Unsent ==
  /\ app.at = "before" /\ app.body = <<>>
  /\ capture.pc = "ready" /\ ~capture.passthrough /\ capture.buffer = <<>>
  /\ Fresh /\ ~entry.made

Buffering ==
  /\ app.at = "open" /\ reply.pending # "none"
  /\ capture.pc = "ready" /\ ~capture.passthrough /\ capture.buffer = app.body
  /\ Fresh /\ ~entry.made

Deciding ==
  /\ app.at = "complete" /\ reply.pending # "none"
  /\ capture.pc \in {"storing", "sending"} /\ ~capture.passthrough
  /\ capture.buffer = app.body /\ capture.mark = Verdict(reply)
  /\ capture.pc = "storing" => Verdict(reply) = "miss"
  /\ Fresh /\ EntryOK

Answered ==
  /\ app.at = "complete"
  /\ capture.pc = "ready" /\ ~capture.passthrough
  /\ UpToDate({Verdict(reply)}) /\ client.ended /\ EntryOK

Passing ==
  /\ app.at \in {"open", "complete"}
  /\ capture.pc = "ready" /\ capture.passthrough
  /\ UpToDate({"none", "bypass"}) /\ (client.ended <=> app.at = "complete") /\ ~entry.made

\* Extension messages: what was buffered is lost, unless it had been sent, and
\* then the start is sent once more.
Closed ==
  /\ app.at = "closed"
  /\ capture.pc = "ready" /\ capture.passthrough
  /\ client.extended /\ ~client.error
  /\ client.ended => client.body = app.body
  /\ \/ /\ client.starts = 1 /\ client.mark \in {"none", "bypass"} /\ ~entry.made
        /\ client.body \in {<<>>, app.body}
     \/ /\ client.starts = 2 /\ client.mark = "none" /\ EntryOK
        /\ client.ended

Failed ==
  /\ app.at \in {"failed", "cancelled"}
  /\ capture.pc = "ready"
  /\ \/ Fresh /\ EntryOK
     \/ /\ UpToDate({"none", "bypass"}) /\ ~client.ended /\ ~entry.made
     \/ /\ client.starts = 1 /\ client.mark = "none" /\ client.body = <<>>
        /\ ~client.extended /\ client.error /\ EntryOK

Phase ==
  Unsent \/ Buffering \/ Deciding \/ Answered \/ Passing \/ Closed \/ Failed

IInv == TypeOK /\ Phase
-----------------------------------------------------------------------------

\* The units of a chunk are a sequence of its length.
LEMMA ChunkSeq ==
  ASSUME app.body \in Seq(Nat), NEW n \in Nat
  PROVE  Chunk(n) \in Seq(Nat) /\ Len(Chunk(n)) = n
<1> DEFINE f == [i \in 1..n |-> Len(app.body) + i]
<1>1. Len(app.body) \in Nat
  BY LenProperties
<1>2. f \in [1..n -> Nat]
  BY <1>1
<1>3. f \in Seq(Nat)
  BY <1>2, SeqDef
<1>4. Len(f) = n
  BY <1>2, <1>3, LenProperties
<1> QED
  BY <1>3, <1>4 DEF Chunk

\* The fields of what the client has, after a start and after a chunk.
LEMMA StartedFields ==
  ASSUME NEW c \in Clients, NEW mark \in Marks
  PROVE  /\ Started(c, mark) \in Clients
         /\ Started(c, mark).starts = c.starts + 1
         /\ Started(c, mark).mark = mark
         /\ Started(c, mark).body = c.body
         /\ Started(c, mark).ended = c.ended
         /\ Started(c, mark).extended = c.extended
         /\ Started(c, mark).error = c.error
<1>1. c.starts + 1 \in Nat
  BY DEF Clients
<1>2. Started(c, mark) \in Clients
  BY <1>1, Zenon DEF Started, Clients
<1> QED
  BY <1>2 DEF Started, Clients

LEMMA SentFields ==
  ASSUME NEW c \in Clients, NEW units \in Seq(Nat), NEW last \in BOOLEAN
  PROVE  /\ Sent(c, units, last) \in Clients
         /\ Sent(c, units, last).starts = c.starts
         /\ Sent(c, units, last).mark = c.mark
         /\ Sent(c, units, last).body = c.body \o units
         /\ Sent(c, units, last).ended = last
         /\ Sent(c, units, last).extended = c.extended
         /\ Sent(c, units, last).error = c.error
<1>1. c.body \o units \in Seq(Nat)
  BY ConcatProperties DEF Clients
<1>3. Sent(c, units, last) \in Clients
  BY <1>1, Zenon DEF Sent, Clients
<1> QED
  BY <1>3 DEF Sent, Clients

\* An entry made of the buffer.
LEMMA EntryFields ==
  ASSUME TypeOK
  PROVE  Entry \in [body : Seq(Nat), made : BOOLEAN] /\ Entry.body = capture.buffer
<1>1. capture.buffer \in Seq(Nat)
  BY DEF TypeOK, Captures
<1> QED
  BY <1>1 DEF Entry

\* What is stored has a verdict that says so.
LEMMA VerdictMark ==
  ASSUME NEW q
  PROVE  /\ Verdict(q) \in {"miss", "bypass", "private"}
         /\ Verdict(q) = "miss" => ~q.leaks /\ ~_storage_refusal(q)
BY DEF Verdict

LEMMA InitPhase ==
  ASSUME Init
  PROVE  IInv
<1> USE DEF Init
<1>1. <<>> \in Seq(Nat) /\ Len(<<>>) = 0
  BY EmptySeq
<1>2. TypeOK
  BY <1>1, SizesAssumption DEF TypeOK, Apps, Captures, Clients, NoEntry, Marks
<1>3. Unsent
  BY DEF Unsent, Fresh, NoEntry
<1> QED
  BY <1>2, <1>3 DEF IInv, Phase

-----------------------------------------------------------------------------
(***************************************************************************)
(* One lemma per action                                                    *)
(***************************************************************************)

LEMMA StartPhase ==
  ASSUME IInv, ResponseStart
  PROVE  IInv'
<1> USE DEF IInv, ResponseStart
<1>1. app' \in Apps
  BY DEF TypeOK, Apps, Captures, Clients
<1>2. app'.at = "open" /\ app'.body = app.body
  BY DEF TypeOK, Apps, Captures, Clients
<1>3. Unsent
  BY DEF Phase, Unsent, Buffering, Deciding, Answered, Passing, Closed, Failed
<1>4. CASE reply.pending = "none"
  <2>1. capture' \in Captures
    BY <1>4 DEF TypeOK, Apps, Captures, Clients
  <2>2. capture'.pc = "ready" /\ capture'.passthrough /\ capture'.buffer = capture.buffer
    BY <1>4, <1>3 DEF TypeOK, Apps, Captures, Clients, Unsent
  <2>3. client' \in Clients
    BY <1>4, StartedFields DEF TypeOK, Marks
  <2>4. /\ client'.starts = 1 /\ client'.mark = "none" /\ client'.body = <<>>
        /\ ~client'.ended /\ ~client'.extended /\ ~client'.error
    BY <1>4, <1>3, StartedFields DEF TypeOK, Marks, Unsent, Fresh
  <2>5. Passing'
    BY <1>2, <1>3, <2>2, <2>4 DEF Passing, Unsent, UpToDate
  <2> QED
    BY <1>1, <2>1, <2>2, <2>3, <2>5 DEF TypeOK, Apps, Captures, Clients, Phase
<1>5. CASE reply.pending # "none"
  <2>1. Buffering'
    BY <1>2, <1>3, <1>5 DEF Unsent, Buffering, Fresh
  <2> QED
    BY <1>1, <1>5, <2>1 DEF TypeOK, Apps, Captures, Clients, Phase
<1> QED
  BY <1>4, <1>5

LEMMA ExtensionPhase ==
  ASSUME IInv, Extension
  PROVE  IInv'
<1> USE DEF IInv, Extension
<1>1. app' \in Apps
  BY DEF TypeOK, Apps, Captures, Clients
<1>2. app'.at = "closed" /\ app'.body = app.body
  BY DEF TypeOK, Apps, Captures, Clients
<1>3. Buffering \/ Answered \/ Passing \/ Closed
  BY DEF Phase, Unsent, Deciding, Failed
<1>4. CASE capture.passthrough
  <2>1. client' \in Clients
    BY <1>4 DEF TypeOK, Apps, Captures, Clients
  <2>2. /\ client'.starts = client.starts /\ client'.mark = client.mark
        /\ client'.body = client.body /\ client'.ended = client.ended
        /\ client'.extended /\ client'.error = client.error
    BY <1>4 DEF TypeOK, Apps, Captures, Clients
  <2>3. Passing \/ Closed
    BY <1>3, <1>4 DEF Buffering, Answered
  <2>4. Closed'
    BY <1>2, <1>4, <2>2, <2>3 DEF Passing, Closed, UpToDate, EntryOK
  <2> QED
    BY <1>1, <1>4, <2>1, <2>4 DEF TypeOK, Apps, Captures, Clients, Phase
<1>5. CASE ~capture.passthrough
  <2> DEFINE c == Started(client, "none")
  <2>0. /\ c \in Clients
        /\ c.starts = client.starts + 1 /\ c.mark = "none" /\ c.body = client.body
        /\ c.ended = client.ended /\ c.error = client.error
    BY StartedFields DEF TypeOK, Marks
  <2> HIDE DEF c
  <2>a. client' = [c EXCEPT !.extended = TRUE]
    BY <1>5 DEF c
  <2>1. client' \in Clients
    BY <2>0, <2>a DEF Clients
  <2>2. /\ client'.starts = client.starts + 1 /\ client'.mark = "none"
        /\ client'.body = client.body /\ client'.ended = client.ended
        /\ client'.extended /\ client'.error = client.error
    BY <2>0, <2>a DEF Clients
  <2>3. capture' \in Captures
    BY <1>5 DEF TypeOK, Apps, Captures, Clients, Releases
  <2>4. /\ capture'.pc = "ready" /\ capture'.passthrough
        /\ capture'.buffer = capture.buffer
    BY <1>5 DEF TypeOK, Apps, Captures, Clients, Releases
  <2>5. Buffering \/ Answered
    BY <1>3, <1>5 DEF Passing, Closed
  <2>6. Closed'
    BY <1>2, <2>2, <2>4, <2>5 DEF Buffering, Answered, Closed, Fresh, UpToDate, EntryOK
  <2> QED
    BY <1>1, <2>1, <2>3, <2>4, <2>6 DEF TypeOK, Apps, Captures, Clients, Phase
<1> QED
  BY <1>4, <1>5

\* What a chunk does to the application, the same for every way it is handled.
LEMMA HandsOver ==
  ASSUME TypeOK, NEW n \in Nat, NEW last \in BOOLEAN, Hands(n, last)
  PROVE  /\ app' \in Apps
         /\ app'.at = IF last THEN "complete" ELSE "open"
         /\ app'.body = app.body \o Chunk(n)
<1>1. app.body \in Seq(Nat)
  BY DEF TypeOK, Apps, Captures, Clients
<1>2. Chunk(n) \in Seq(Nat)
  BY <1>1, ChunkSeq
<1>3. app.body \o Chunk(n) \in Seq(Nat)
  BY <1>1, <1>2, ConcatProperties
<1> QED
  BY <1>3 DEF Hands, Apps

LEMMA ForwardPhase ==
  ASSUME IInv, app.at = "open", NEW n \in Nat, NEW last \in BOOLEAN, Forward(n, last)
  PROVE  IInv'
<1> USE DEF IInv, Forward
<1>1. app.body \in Seq(Nat) /\ client.body \in Seq(Nat)
  BY DEF TypeOK, Apps, Captures, Clients
<1>2. Chunk(n) \in Seq(Nat)
  BY <1>1, ChunkSeq
<1>3. Passing
  BY DEF Phase, Unsent, Buffering, Deciding, Answered, Closed, Failed
<1>4. client.body \o Chunk(n) \in Seq(Nat)
  BY <1>1, <1>2, ConcatProperties
<1>5. client' \in Clients
  BY <1>4 DEF TypeOK, Apps, Captures, Clients, Sent
<1>6. /\ client'.starts = client.starts /\ client'.mark = client.mark
      /\ client'.body = client.body \o Chunk(n) /\ client'.ended = last
      /\ client'.extended = client.extended /\ client'.error = client.error
  BY DEF TypeOK, Apps, Captures, Clients, Sent
<1>7. /\ app'.at = IF last THEN "complete" ELSE "open"
      /\ app'.body = app.body \o Chunk(n)
      /\ app' \in Apps
  BY HandsOver
<1>8. Passing'
  BY <1>3, <1>6, <1>7 DEF Passing, UpToDate
<1> QED
  BY <1>5, <1>7, <1>8 DEF TypeOK, Apps, Captures, Clients, Phase

LEMMA OversizePhase ==
  ASSUME IInv, app.at = "open", NEW n \in Nat, NEW last \in BOOLEAN, Oversize(n, last)
  PROVE  IInv'
<1> USE DEF IInv, Oversize
<1>1. app.body \in Seq(Nat) /\ client.body \in Seq(Nat) /\ capture.buffer \in Seq(Nat)
  BY DEF TypeOK, Apps, Captures, Clients
<1>2. Chunk(n) \in Seq(Nat)
  BY <1>1, ChunkSeq
<1>3. Buffering
  BY DEF Phase, Unsent, Passing, Deciding, Answered, Closed, Failed
<1>4. (client.body \o capture.buffer) \o Chunk(n) = app.body \o Chunk(n)
  BY <1>1, <1>3, ConcatEmptySeq DEF Buffering, Fresh
<1>5. client.body \o capture.buffer \in Seq(Nat)
  BY <1>1, ConcatProperties
<1>6. (client.body \o capture.buffer) \o Chunk(n) \in Seq(Nat)
  BY <1>2, <1>5, ConcatProperties
<1> DEFINE c1 == Started(client, "bypass")
           c2 == Sent(c1, capture.buffer, FALSE)
<1>7. /\ c1 \in Clients
      /\ c1.starts = client.starts + 1 /\ c1.mark = "bypass" /\ c1.body = client.body
      /\ c1.ended = client.ended /\ c1.extended = client.extended /\ c1.error = client.error
  BY StartedFields DEF TypeOK, Marks
<1> HIDE DEF c1
<1>8. /\ c2 \in Clients
      /\ c2.starts = c1.starts /\ c2.mark = c1.mark /\ c2.body = c1.body \o capture.buffer
      /\ c2.extended = c1.extended /\ c2.error = c1.error
  BY <1>1, <1>7, SentFields
<1> HIDE DEF c2
<1> DEFINE c3 == Sent(c2, Chunk(n), last)
<1>9. /\ c3 \in Clients
      /\ c3.starts = c2.starts /\ c3.mark = c2.mark /\ c3.body = c2.body \o Chunk(n)
      /\ c3.ended = last /\ c3.extended = c2.extended /\ c3.error = c2.error
  BY <1>2, <1>8, SentFields
<1>10. client' = c3
  BY DEF c1, c2, Flushed
<1> HIDE DEF c3
<1>11. /\ client' \in Clients
       /\ client'.starts = 1 /\ client'.mark = "bypass"
       /\ client'.body = app.body \o Chunk(n) /\ client'.ended = last
       /\ client'.extended = client.extended /\ client'.error = client.error
  BY <1>3, <1>4, <1>7, <1>8, <1>9, <1>10 DEF Buffering, Fresh
<1>12. <<>> \in Seq(Nat) /\ Len(<<>>) = 0
  BY EmptySeq
<1>13. capture' \in Captures
  BY <1>12 DEF TypeOK, Apps, Captures, Clients, Overflows
<1>14. capture'.pc = "ready" /\ capture'.passthrough /\ capture'.buffer = <<>>
  BY <1>3 DEF TypeOK, Apps, Captures, Clients, Overflows, Buffering
<1>15. /\ app'.at = IF last THEN "complete" ELSE "open"
       /\ app'.body = app.body \o Chunk(n)
       /\ app' \in Apps
  BY HandsOver
<1>16. Passing'
  BY <1>3, <1>11, <1>14, <1>15 DEF Passing, UpToDate, Buffering, Fresh
<1>17. Len(capture'.buffer) <= MaxBody
  BY <1>12, <1>14, SizesAssumption
<1> QED
  BY <1>11, <1>13, <1>15, <1>16, <1>17 DEF TypeOK, Apps, Captures, Clients, Phase

\* The buffer after a chunk that fits.
LEMMA FitsIn ==
  ASSUME TypeOK, NEW n \in Nat, ~Exceeds(n)
  PROVE  /\ capture.buffer \o Chunk(n) \in Seq(Nat)
         /\ Len(capture.buffer \o Chunk(n)) <= MaxBody
<1>1. app.body \in Seq(Nat) /\ capture.buffer \in Seq(Nat)
  BY DEF TypeOK, Apps, Captures, Clients
<1>2. Chunk(n) \in Seq(Nat) /\ Len(Chunk(n)) = n
  BY <1>1, ChunkSeq
<1>3. Len(capture.buffer) \in Nat
  BY <1>1, LenProperties
<1> QED
  BY <1>1, <1>2, <1>3, ConcatProperties, SizesAssumption DEF Exceeds

LEMMA AccumulatePhase ==
  ASSUME IInv, app.at = "open", NEW n \in Nat, Accumulate(n)
  PROVE  IInv'
<1> USE DEF IInv, Accumulate
<1>1. Buffering
  BY DEF Phase, Unsent, Passing, Deciding, Answered, Closed, Failed
<1>2. /\ capture.buffer \o Chunk(n) \in Seq(Nat)
      /\ Len(capture.buffer \o Chunk(n)) <= MaxBody
  BY FitsIn
<1>3. capture' \in Captures
  BY <1>2 DEF TypeOK, Apps, Captures, Clients
<1>4. /\ capture'.pc = "ready" /\ ~capture'.passthrough
      /\ capture'.buffer = capture.buffer \o Chunk(n)
  BY <1>1 DEF TypeOK, Apps, Captures, Clients, Buffering
<1>5. /\ app'.at = "open"
      /\ app'.body = app.body \o Chunk(n)
      /\ app' \in Apps
  BY HandsOver
<1>6. Buffering'
  BY <1>1, <1>4, <1>5 DEF Buffering, Fresh
<1> QED
  BY <1>2, <1>3, <1>4, <1>5, <1>6 DEF TypeOK, Apps, Captures, Clients, Phase

LEMMA LastChunkPhase ==
  ASSUME IInv, app.at = "open", NEW n \in Nat, LastChunk(n)
  PROVE  IInv'
<1> USE DEF IInv, LastChunk
<1>1. Buffering
  BY DEF Phase, Unsent, Passing, Deciding, Answered, Closed, Failed
<1>2. /\ capture.buffer \o Chunk(n) \in Seq(Nat)
      /\ Len(capture.buffer \o Chunk(n)) <= MaxBody
  BY FitsIn
<1>3. Verdict(reply) \in {"miss", "bypass", "private"}
  BY VerdictMark
<1>4. capture' \in Captures
  BY <1>2, <1>3 DEF TypeOK, Apps, Captures, Clients, Marks, Answer
<1>5. /\ capture'.pc \in {"storing", "sending"} /\ ~capture'.passthrough
      /\ capture'.pc = "storing" => Verdict(reply) = "miss"
      /\ capture'.mark = Verdict(reply)
      /\ capture'.buffer = capture.buffer \o Chunk(n)
  BY <1>1, <1>3 DEF TypeOK, Apps, Captures, Clients, Buffering, Answer
<1>6. /\ app'.at = "complete"
      /\ app'.body = app.body \o Chunk(n)
      /\ app' \in Apps
  BY HandsOver
<1>7. Deciding'
  <2>1. Fresh' /\ EntryOK'
    BY <1>1 DEF Buffering, Fresh, EntryOK
  <2>2. reply' = reply /\ reply.pending # "none" /\ capture.buffer = app.body
    BY <1>1 DEF Buffering
  <2>3. Verdict(reply)' = Verdict(reply)
    BY <2>2 DEF Verdict, _storage_refusal
  <2>4. QED BY <1>5, <1>6, <2>1, <2>2, <2>3 DEF Deciding
<1> QED
  BY <1>2, <1>4, <1>5, <1>6, <1>7 DEF TypeOK, Apps, Captures, Clients, Phase

LEMMA StorePhase ==
  ASSUME IInv, _store_cache_entry
  PROVE  IInv'
<1> USE DEF IInv, _store_cache_entry
<1>1. Deciding
  BY DEF Phase, Unsent, Passing, Buffering, Answered, Closed, Failed
<1>2. capture' \in Captures
  BY DEF TypeOK, Apps, Captures, Clients
<1>3. /\ capture'.pc = "sending" /\ capture'.passthrough = capture.passthrough
      /\ capture'.mark = capture.mark /\ capture'.buffer = capture.buffer
  BY DEF TypeOK, Apps, Captures, Clients
<1>4. entry' \in [body : Seq(Nat), made : BOOLEAN]
  BY EntryFields DEF TypeOK
<1>5. entry' = entry \/ (entry'.body = app.body /\ Len(app.body) <= MaxBody)
  BY <1>1, EntryFields DEF TypeOK, Deciding
<1>6. Deciding'
  BY <1>1, <1>3, <1>5 DEF Deciding, Fresh, EntryOK, Verdict, _storage_refusal
<1> QED
  BY <1>2, <1>3, <1>4, <1>6 DEF TypeOK, Apps, Captures, Clients, Phase

LEMMA SendPhase ==
  ASSUME IInv, SendWhole
  PROVE  IInv'
<1>1. Deciding
  BY DEF IInv, SendWhole, Phase, Unsent, Passing, Buffering, Answered, Closed, Failed
<1>b. TypeOK
  BY DEF IInv
<1>2. client.body \o capture.buffer = app.body
  BY <1>1, <1>b, ConcatEmptySeq DEF TypeOK, Apps, Captures, Clients, Deciding, Fresh
<1>3. capture' \in Captures
  BY <1>b DEF SendWhole, TypeOK, Captures
<1>4. /\ capture'.pc = "ready" /\ ~capture'.passthrough /\ capture'.buffer = capture.buffer
  BY <1>1, <1>b DEF SendWhole, TypeOK, Captures, Deciding
<1> DEFINE c == Started(client, capture.mark)
<1>5. /\ c \in Clients
      /\ c.starts = client.starts + 1 /\ c.mark = capture.mark /\ c.body = client.body
      /\ c.extended = client.extended /\ c.error = client.error
  BY <1>b, StartedFields DEF TypeOK, Captures
<1> HIDE DEF c
<1>6. app.body \in Seq(Nat) /\ capture.buffer \in Seq(Nat)
  BY <1>b DEF TypeOK, Apps, Captures
<1> DEFINE d == Sent(c, capture.buffer, TRUE)
<1>7. /\ d \in Clients
      /\ d.starts = c.starts /\ d.mark = c.mark /\ d.body = c.body \o capture.buffer
      /\ d.ended = TRUE /\ d.extended = c.extended /\ d.error = c.error
  BY <1>5, <1>6, SentFields
<1>8. client' = d
  BY DEF c, SendWhole
<1> HIDE DEF d
<1>9. /\ client' \in Clients
      /\ client'.starts = 1 /\ client'.mark = Verdict(reply) /\ client'.body = app.body
      /\ client'.ended /\ client'.extended = client.extended /\ client'.error = client.error
  BY <1>1, <1>2, <1>5, <1>7, <1>8 DEF Deciding, Fresh
<1>10. Answered'
  BY ZenonT(40), <1>1, <1>4, <1>9
  DEF SendWhole, Answered, Deciding, Fresh, UpToDate, EntryOK, Verdict, _storage_refusal
<1> QED
  BY <1>3, <1>4, <1>9, <1>10, <1>b DEF IInv, SendWhole, TypeOK, Phase

LEMMA StopsPhase ==
  ASSUME IInv, NEW how \in {"failed", "cancelled"}, Stops(how)
  PROVE  IInv'
<1> USE DEF IInv, Stops
<1>1. Unsent \/ Buffering \/ Deciding \/ (Passing /\ app.at = "open")
  BY DEF Phase, Unsent, Passing, Answered, Closed, Failed
<1>2. app' \in Apps
  BY DEF TypeOK, Apps, Captures, Clients
<1>3. app'.at = how /\ app'.body = app.body
  BY DEF TypeOK, Apps, Captures, Clients
<1>4. capture' \in Captures
  BY DEF TypeOK, Apps, Captures, Clients
<1>5. capture'.pc = "ready" /\ capture'.buffer = capture.buffer
  BY DEF TypeOK, Apps, Captures, Clients
<1>6. entry' \in [body : Seq(Nat), made : BOOLEAN]
  BY EntryFields DEF TypeOK
<1>7. entry' = entry
      \/ (entry'.body = app.body /\ Len(app.body) <= MaxBody /\ Deciding
          /\ capture.pc = "storing")
  BY <1>1, EntryFields DEF TypeOK, Deciding, Unsent, Buffering, Passing
<1>8. Failed'
  BY <1>1, <1>3, <1>5, <1>7
  DEF Failed, Deciding, Unsent, Buffering, Passing, UpToDate, Fresh, EntryOK, Verdict,
      _storage_refusal
<1> QED
  BY <1>2, <1>4, <1>5, <1>6, <1>8 DEF TypeOK, Apps, Captures, Clients, Phase

LEMMA ErrorPhase ==
  ASSUME IInv, ServerError
  PROVE  IInv'
<1> USE DEF IInv, ServerError
<1>1. Failed /\ Fresh /\ EntryOK
  BY DEF Phase, Unsent, Buffering, Deciding, Passing, Answered, Closed, Failed, UpToDate
<1> DEFINE c == Started(client, "none")
<1>2. /\ c \in Clients
      /\ c.starts = client.starts + 1 /\ c.mark = "none" /\ c.body = client.body
      /\ c.extended = client.extended
  BY StartedFields DEF TypeOK, Marks
<1> HIDE DEF c
<1>a. client' = [c EXCEPT !.ended = TRUE, !.error = TRUE]
  BY DEF c
<1>b. client' \in Clients
  BY <1>2, <1>a DEF Clients
<1>3. /\ client'.starts = c.starts /\ client'.mark = c.mark /\ client'.body = c.body
      /\ client'.extended = c.extended /\ client'.error
  BY <1>2, <1>a DEF Clients
<1>4. Failed'
  BY <1>1, <1>2, <1>3 DEF Failed, Fresh, EntryOK, Verdict, _storage_refusal
<1> QED
  BY <1>4, <1>b DEF TypeOK, Apps, Captures, Clients, Phase

-----------------------------------------------------------------------------

LEMMA NextPhase ==
  ASSUME IInv, [Next]_vars
  PROVE  IInv'
<1>1. CASE UNCHANGED vars
  <2>1. TypeOK'
    BY <1>1 DEF vars, IInv, TypeOK
  <2>2. Fresh' <=> Fresh
    BY <1>1 DEF vars, Fresh
  <2>3. Verdict(reply)' = Verdict(reply) /\ Verdict(reply) \in Marks
    BY <1>1 DEF vars, Verdict, Marks
  <2>4. EntryOK' <=> EntryOK
    BY <1>1, <2>3 DEF vars, EntryOK
  <2>5. (Unsent' <=> Unsent) /\ (Buffering' <=> Buffering)
    BY <1>1, <2>2 DEF vars, Unsent, Buffering
  <2>6. Deciding' <=> Deciding
    BY <1>1, <2>2, <2>3, <2>4 DEF vars, Deciding
  <2>7. Answered' <=> Answered
    BY <1>1, <2>3, <2>4 DEF vars, Answered, UpToDate
  <2>8. Passing' <=> Passing
    BY <1>1 DEF vars, Passing, UpToDate
  <2>9. Closed' <=> Closed
    BY <1>1, <2>4 DEF vars, Closed
  <2>10. Failed' <=> Failed
    BY <1>1, <2>2, <2>4 DEF vars, Failed, UpToDate
  <2>11. QED BY <2>1, <2>5, <2>6, <2>7, <2>8, <2>9, <2>10 DEF IInv, Phase
<1>2. CASE Body
  <2>1. app.at = "open" /\ Len(app.body) \in Nat
    BY <1>2, LenProperties DEF Body, IInv, TypeOK, Apps, Captures, Clients
  <2>2. PICK n \in Nat :
          \/ \E last \in BOOLEAN : Forward(n, last) \/ Oversize(n, last)
          \/ Accumulate(n) \/ LastChunk(n)
    BY <1>2 DEF Body
  <2> QED
    BY <2>1, <2>2, ForwardPhase, OversizePhase, AccumulatePhase, LastChunkPhase
<1> QED
  BY <1>1, <1>2, StartPhase, ExtensionPhase, StorePhase, SendPhase, StopsPhase, ErrorPhase
  DEF Next, Raise, Cancel

LEMMA InvariantHolds == Spec => []IInv
BY InitPhase, NextPhase, PTL DEF Spec

\* The types are right, and the buffer stays within MaxBody whatever the
\* application sends.
THEOREM TypeCorrect == Spec => []TypeOK
<1>1. IInv => TypeOK
  BY DEF IInv
<1> QED
  BY <1>1, InvariantHolds, PTL

\* No entry is made of part of a body, nor of a response that must not be
\* stored.
THEOREM EntriesAreWhole == Spec => []EntryWhole
<1>1. IInv => EntryWhole
  <2> SUFFICES ASSUME IInv, entry.made PROVE EntryWhole
    BY DEF EntryWhole
  <2>1. EntryOK
    BY DEF IInv, Phase, Unsent, Buffering, Deciding, Answered, Passing, Closed, Failed
  <2>2. app.at \notin {"before", "open"}
    BY DEF IInv, Phase, Unsent, Buffering, Deciding, Answered, Passing, Closed, Failed
  <2> QED
    BY <2>1, <2>2, VerdictMark DEF EntryWhole, EntryOK
<1> QED
  BY <1>1, InvariantHolds, PTL

\* The client gets the body in order, and never takes a part for the whole.
THEOREM ClientInOrder == Spec => []InOrder
<1>1. IInv => InOrder
  BY DEF IInv, InOrder, TypeOK, Apps, Captures, Clients, Phase, Unsent, Buffering, Deciding, Answered, Passing, Closed,
         Failed, Fresh, UpToDate
<1> QED
  BY <1>1, InvariantHolds, PTL

\* A second start is only ever due to trailers that follow the whole body.
THEOREM StartedOnce == Spec => []OneStart
<1>1. IInv => OneStart
  BY DEF IInv, OneStart, TypeOK, Apps, Captures, Clients, Phase, Unsent, Buffering, Deciding, Answered, Passing, Closed,
         Failed, Fresh, UpToDate
<1> QED
  BY <1>1, InvariantHolds, PTL

\* The cache status the client sees is true.
THEOREM StatusTrue == Spec => []MarkTruthful
<1>1. IInv => MarkTruthful
  <2>1. IInv => EntryOK
    BY DEF IInv, Phase, Unsent, Buffering, Deciding, Answered, Passing, Closed, Failed, EntryOK
  <2> QED
    BY <2>1, VerdictMark
    DEF IInv, MarkTruthful, Phase, Unsent, Buffering, Deciding, Answered, Passing, Closed,
        Failed, Fresh, UpToDate, EntryOK
<1> QED
  BY <1>1, InvariantHolds, PTL

\* The response of an application that has completed it, once the middleware is
\* done with it, and unless trailers follow.
CompletedIsDelivered ==
  app.at = "complete" /\ capture.pc = "ready" =>
    client.starts = 1 /\ client.body = app.body /\ client.ended

\* What Delivered waits for: as soon as the middleware holds nothing back, the
\* client has the whole of a completed response, after one start.
THEOREM DeliveredWhenDone == Spec => []CompletedIsDelivered
<1>1. IInv => CompletedIsDelivered
  BY DEF IInv, CompletedIsDelivered, Phase, Unsent, Buffering, Deciding, Answered, Passing,
         Closed, Failed, UpToDate
<1> QED
  BY <1>1, InvariantHolds, PTL

-----------------------------------------------------------------------------
(***************************************************************************)
(* Responses nothing is pending for                                        *)
(***************************************************************************)

\* The client has what the application has sent and nothing is stored, at every
\* moment; whatever messages the application chooses to send it in.
Transparent ==
  reply.pending = "none" =>
    /\ client.body = app.body /\ client.mark = "none" /\ ~entry.made
    /\ app.at \in {"open", "complete", "closed"} => client.starts = 1
    /\ app.at = "complete" => client.ended

\* The middleware has nothing to decide about them.
Untouched ==
  reply.pending = "none" =>
    /\ client.body = app.body /\ client.mark = "none" /\ ~entry.made
    /\ capture.pc = "ready"
    /\ app.at = "before" => client.starts = 0
    /\ app.at \in {"open", "complete", "closed"} => client.starts = 1 /\ capture.passthrough
    /\ app.at = "complete" => client.ended

\* Every step of such a response is one the application took.
LEMMA UntouchedStep ==
  ASSUME IInv, Untouched, [Next]_vars, reply.pending = "none"
  PROVE  Untouched'
<1>0. /\ client \in Clients /\ app \in Apps /\ capture \in Captures
      /\ app.body \in Seq(Nat) /\ client.starts \in Nat
  BY DEF IInv, TypeOK, Clients, Apps
<1>1. CASE ResponseStart
  <2>1. /\ client' = Started(client, "none") /\ capture' = [capture EXCEPT !.passthrough = TRUE]
        /\ app' = [app EXCEPT !.at = "open"] /\ app.at = "before"
        /\ UNCHANGED <<reply, entry>>
    BY <1>1 DEF ResponseStart
  <2>2. client'.starts = 1 /\ client'.mark = "none" /\ client'.body = client.body
    BY <1>0, <2>1, StartedFields DEF Untouched, Marks
  <2>3. app'.at = "open" /\ app'.body = app.body /\ capture'.pc = capture.pc /\ capture'.passthrough
    BY <1>0, <2>1 DEF Apps, Captures
  <2>4. QED BY <2>1, <2>2, <2>3 DEF Untouched
<1>2. CASE Extension
  <2>1. /\ client' = [client EXCEPT !.extended = TRUE] /\ app' = [app EXCEPT !.at = "closed"]
        /\ UNCHANGED <<reply, entry, capture>>
        /\ client.starts = 1 /\ capture.passthrough
    BY <1>2 DEF Extension, Untouched
  <2>2. /\ client'.body = client.body /\ client'.mark = client.mark
        /\ client'.starts = client.starts /\ app'.at = "closed" /\ app'.body = app.body
    BY <1>0, <2>1 DEF Clients, Apps
  <2>3. QED BY <2>1, <2>2 DEF Untouched
<1>3. CASE Body
  <2>1. app.at = "open" /\ capture.passthrough /\ client.starts = 1
    BY <1>3 DEF Body, Untouched
  <2>2. PICK n \in Nat, last \in BOOLEAN : Forward(n, last)
    <3>1. PICK n \in 0..(MaxUnits - Len(app.body)) : \E last \in BOOLEAN : Forward(n, last)
      BY <1>3, <2>1 DEF Body, Oversize, Accumulate, LastChunk
    <3>2. QED BY <3>1
  <2>3. Chunk(n) \in Seq(Nat)
    BY <1>0, ChunkSeq
  <2>4. /\ client'.body = client.body \o Chunk(n) /\ client'.mark = client.mark
        /\ client'.starts = client.starts /\ client'.ended = last
    <3>1. PICK units \in Seq(Nat) : units = Chunk(n)
      BY <2>3
    <3>2. client' = Sent(client, units, last)
      BY <2>2, <3>1 DEF Forward
    <3>3. QED BY <1>0, <3>1, <3>2, SentFields
  <2>5. /\ app'.body = app.body \o Chunk(n) /\ app'.at = IF last THEN "complete" ELSE "open"
        /\ UNCHANGED <<reply, capture, entry>>
    BY <2>2 DEF Forward, Hands
  <2>6. QED BY <2>1, <2>4, <2>5 DEF Untouched
<1>4. CASE _store_cache_entry \/ SendWhole
  BY <1>4 DEF _store_cache_entry, SendWhole, Untouched
<1>5. ASSUME NEW how \in {"failed", "cancelled"}, Stops(how)
      PROVE  Untouched'
  <2>1. /\ app' = [app EXCEPT !.at = how] /\ capture' = [capture EXCEPT !.pc = "ready"]
        /\ UNCHANGED <<reply, client>>
    BY <1>5 DEF Stops
  <2>2. entry' = entry
    BY <1>5 DEF Stops, Untouched
  <2>3. app'.at = how /\ app'.body = app.body /\ capture'.pc = "ready"
    BY <1>0, <2>1 DEF Apps, Captures
  <2>4. QED BY <2>1, <2>2, <2>3 DEF Untouched
<1>6. CASE ServerError
  <2>1. /\ client' = [Started(client, "none") EXCEPT !.ended = TRUE, !.error = TRUE]
        /\ app.at = "failed" /\ UNCHANGED <<reply, app, capture, entry>>
    BY <1>6 DEF ServerError
  <2>2. PICK c \in Clients : c = Started(client, "none") /\ c.mark = "none" /\ c.body = client.body
    BY <1>0, StartedFields DEF Marks
  <2>3. client'.mark = "none" /\ client'.body = client.body
    BY <2>1, <2>2 DEF Clients
  <2>4. QED BY <2>1, <2>3 DEF Untouched
<1>7. CASE UNCHANGED vars
  BY <1>7 DEF vars, Untouched
<1> QED
  BY <1>1, <1>2, <1>3, <1>4, <1>5, <1>6, <1>7 DEF Next, Raise, Cancel

\* The middleware is not there for the responses it has nothing to do with: a
\* route without cache() loses nothing of what it streams, files and trailers
\* included.
THEOREM OthersPassUntouched == Spec => []Transparent
<1>1. Init => Untouched
  BY DEF Init, Untouched, NoEntry
<1>2. IInv /\ Untouched /\ [Next]_vars => Untouched'
  <2> SUFFICES ASSUME IInv, Untouched, [Next]_vars PROVE Untouched'
    OBVIOUS
  <2>1. reply' = reply
    BY DEF Next, vars, ResponseStart, Extension, Body, Forward, Oversize, Accumulate, LastChunk,
           _store_cache_entry, SendWhole, Raise, Cancel, Stops, ServerError
  <2>2. CASE reply.pending = "none"
    BY <2>2, UntouchedStep
  <2>3. CASE reply.pending # "none"
    BY <2>1, <2>3 DEF Untouched
  <2> QED
    BY <2>2, <2>3
<1>3. Untouched => Transparent
  BY DEF Untouched, Transparent
<1> QED
  BY <1>1, <1>2, <1>3, InvariantHolds, PTL DEF Spec
=============================================================================

-------------------------- MODULE ResponseCapture --------------------------
(***************************************************************************)
(* CacheResponseCaptureMiddleware of cache.py: one response on its way     *)
(* from the application to the client, message by message, and the entry   *)
(* that may be made of it.                                                 *)
(*                                                                         *)
(* The body is a sequence of numbered units, cut into chunks by the        *)
(* application.  The response start is withheld until the middleware knows *)
(* what to say in it; whatever cannot be buffered to its end must still    *)
(* reach the client as if nobody had been in between.                      *)
(***************************************************************************)
EXTENDS Integers, Sequences

CONSTANTS Replies,    \* [pending, leaks, status, defects]: responses of the endpoint
          MaxBody,    \* MAX_CACHEABLE_BODY_SIZE, in units
          MaxUnits    \* bound: the longest body the application sends

\* What a response may have that forbids storing it, beside its status.
Defect == {"content-range", "range", "no-store", "private", "media type", "charset",
           "vary", "encoding", "header block", "not utf-8"}

ASSUME RepliesAssumption ==
  Replies \subseteq [pending : {"none", "fill", "put"}, leaks : BOOLEAN,
                     status : Nat, defects : SUBSET Defect]
ASSUME SizesAssumption == MaxBody \in Nat /\ MaxUnits \in Nat

VARIABLES reply,    \* what the endpoint answers, and the operation pending for it
          app,      \* [at, body]: how far the application is, and what it has sent
          capture,  \* the locals of the middleware
          client,   \* what has been sent on to the client
          entry     \* the entry made of this response

vars == <<reply, app, capture, client, entry>>

NoEntry == [body |-> <<>>, made |-> FALSE]

Init ==
  /\ reply \in Replies
  /\ app = [at |-> "before", body |-> <<>>]
  /\ capture = [pc |-> "ready", passthrough |-> FALSE, buffer |-> <<>>, mark |-> "none"]
  /\ client = [starts |-> 0, mark |-> "none", body |-> <<>>, ended |-> FALSE,
               extended |-> FALSE, error |-> FALSE]
  /\ entry = NoEntry

-----------------------------------------------------------------------------
(***************************************************************************)
(* What goes out                                                           *)
(***************************************************************************)

\* http.response.start, with the value of X-Redis-Cache.
Started(c, mark) == [c EXCEPT !.starts = @ + 1, !.mark = mark]

\* http.response.body.
Sent(c, units, last) == [c EXCEPT !.body = @ \o units, !.ended = last]

\* The units of the next chunk, if it has n of them.
Chunk(n) == [i \in 1..n |-> Len(app.body) + i]

\* The application hands the chunk over; the last one completes its response.
Hands(n, last) ==
  app' = [at |-> IF last THEN "complete" ELSE "open", body |-> app.body \o Chunk(n)]

-----------------------------------------------------------------------------
(***************************************************************************)
(* capture_send                                                            *)
(***************************************************************************)

\* A start that nothing is pending for goes out at once, and all that follows.
ResponseStart ==
  /\ app.at = "before"
  /\ app' = [app EXCEPT !.at = "open"]
  /\ IF reply.pending = "none"
     THEN /\ capture' = [capture EXCEPT !.passthrough = TRUE]
          /\ client' = Started(client, "none")
     ELSE UNCHANGED <<capture, client>>
  /\ UNCHANGED <<reply, entry>>

\* Mutant of Releases: the start is sent, but not remembered as sent.
ReleasesOnly == capture' = capture

\* The start that was withheld has gone out; what follows passes through.
Releases == capture' = [capture EXCEPT !.passthrough = TRUE]

\* pathsend or zerocopysend in place of a body; trailers, in any number, after
\* chunks of it or after all of it.  The start goes out unmarked, unless it already has.
Extension ==
  /\ app.at \in {"open", "complete", "closed"}
  /\ capture.pc = "ready"
  /\ app' = [app EXCEPT !.at = "closed"]
  /\ IF capture.passthrough
     THEN /\ client' = [client EXCEPT !.extended = TRUE]
          /\ UNCHANGED capture
     ELSE /\ client' = [Started(client, "none") EXCEPT !.extended = TRUE]
          /\ Releases
  /\ UNCHANGED <<reply, entry>>

\* The chunk is passed on.
Forward(n, last) ==
  /\ capture.passthrough
  /\ Hands(n, last)
  /\ client' = Sent(client, Chunk(n), last)
  /\ UNCHANGED <<reply, capture, entry>>

\* Mutant of Exceeds: the chunk at hand is not counted.
ExceedsAlready(n) == Len(capture.buffer) > MaxBody

Exceeds(n) == Len(capture.buffer) + n > MaxBody

\* Mutant of Flushed: the chunk overtakes the body that was buffered.
FlushedLate(n, last) == Sent(Sent(Started(client, "bypass"), Chunk(n), FALSE), capture.buffer, last)

\* _flush_oversized_response: start, buffered body, the chunk at hand.
Flushed(n, last) == Sent(Sent(Started(client, "bypass"), capture.buffer, FALSE), Chunk(n), last)

\* Mutant of Overflows: the chunks that follow are buffered again.
OverflowsOnce == [capture EXCEPT !.buffer = <<>>]

Overflows == [capture EXCEPT !.passthrough = TRUE, !.buffer = <<>>]

\* The body outgrows the buffer.
Oversize(n, last) ==
  /\ ~capture.passthrough
  /\ Exceeds(n)
  /\ Hands(n, last)
  /\ client' = Flushed(n, last)
  /\ capture' = Overflows
  /\ UNCHANGED <<reply, entry>>

\* A chunk that is not the last one is kept back.
Accumulate(n) ==
  /\ ~capture.passthrough
  /\ ~Exceeds(n)
  /\ Hands(n, FALSE)
  /\ capture' = [capture EXCEPT !.buffer = @ \o Chunk(n)]
  /\ UNCHANGED <<reply, client, entry>>

\* A fill is replayed with status 200 and must have had it; a write-through
\* may have any 2xx.
_storage_refusal(q) ==
  \/ IF q.pending = "put" THEN q.status \notin 200..299 ELSE q.status # 200
  \/ q.defects # {}

\* Mutant of Verdict: a leak is looked for when the storage rules refuse.
LeakIfRefused(q) ==
  IF ~_storage_refusal(q) THEN "miss" ELSE IF q.leaks THEN "private" ELSE "bypass"

\* The last chunk: what the response is marked with, and whether it is stored.
Verdict(q) ==
  IF q.leaks THEN "private" ELSE IF _storage_refusal(q) THEN "bypass" ELSE "miss"

\* Mutant of Answer: what is refused is not sent.
AnswerIfStored(mark) == IF mark = "miss" THEN "storing" ELSE "ready"

\* A response that is not stored is sent all the same.
Answer(mark) == IF mark = "miss" THEN "storing" ELSE "sending"

LastChunk(n) ==
  /\ ~capture.passthrough
  /\ ~Exceeds(n)
  /\ Hands(n, TRUE)
  /\ capture' = [capture EXCEPT !.buffer = @ \o Chunk(n), !.mark = Verdict(reply),
                                !.pc = Answer(Verdict(reply))]
  /\ UNCHANGED <<reply, client, entry>>

Entry == [body |-> capture.buffer, made |-> TRUE]

\* The SET, which may fail, or succeed and not be known to have.  The response
\* is called a miss either way.
_store_cache_entry ==
  /\ capture.pc = "storing"
  /\ entry' \in {Entry, entry}
  /\ capture' = [capture EXCEPT !.pc = "sending"]
  /\ UNCHANGED <<reply, app, client>>

\* Start and body, in that order.
SendWhole ==
  /\ capture.pc = "sending"
  /\ client' = Sent(Started(client, capture.mark), capture.buffer, TRUE)
  /\ capture' = [capture EXCEPT !.pc = "ready"]
  /\ UNCHANGED <<reply, app, entry>>

-----------------------------------------------------------------------------
(***************************************************************************)
(* The application and the server around the middleware                    *)
(***************************************************************************)

\* The next chunk of the body.
Body ==
  /\ app.at = "open"
  /\ \E n \in 0..(MaxUnits - Len(app.body)) :
        \/ \E last \in BOOLEAN : Forward(n, last) \/ Oversize(n, last)
        \/ Accumulate(n) \/ LastChunk(n)

\* The application stops between two messages or while the entry is being
\* stored.
Stops(how) ==
  /\ app.at \in {"before", "open"} \/ capture.pc \in {"storing", "sending"}
  /\ app' = [app EXCEPT !.at = how]
  /\ entry' \in IF capture.pc = "storing" THEN {Entry, entry} ELSE {entry}
  /\ capture' = [capture EXCEPT !.pc = "ready"]
  /\ UNCHANGED <<reply, client>>

\* An Exception: of the application, or of the send below the middleware.
Raise == Stops("failed")

\* The task is cancelled; a CancelledError is no Exception.
Cancel == Stops("cancelled")

\* ServerErrorMiddleware, outermost, answers an Exception if nothing has been
\* sent yet.
ServerError ==
  /\ app.at = "failed"
  /\ client.starts = 0
  /\ client' = [Started(client, "none") EXCEPT !.ended = TRUE, !.error = TRUE]
  /\ UNCHANGED <<reply, app, capture, entry>>

Next ==
  \/ ResponseStart \/ Extension \/ Body \/ _store_cache_entry \/ SendWhole
  \/ Raise \/ Cancel \/ ServerError

\* Redis answers or fails, and the server reads what it is sent.
Fairness == WF_vars(_store_cache_entry) /\ WF_vars(SendWhole) /\ WF_vars(ServerError)

Spec == Init /\ [][Next]_vars

LiveSpec == Spec /\ Fairness

-----------------------------------------------------------------------------
(***************************************************************************)
(* Properties                                                              *)
(***************************************************************************)

Marks == {"none", "miss", "bypass", "private"}
Apps == [at : {"before", "open", "complete", "closed", "failed", "cancelled"}, body : Seq(Nat)]
Captures == [pc : {"ready", "storing", "sending"}, passthrough : BOOLEAN,
             buffer : Seq(Nat), mark : Marks]
Clients == [starts : Nat, mark : Marks, body : Seq(Nat), ended : BOOLEAN,
            extended : BOOLEAN, error : BOOLEAN]

\* Everything has its type, and the buffer never outgrows MaxBody.
TypeOK ==
  /\ reply \in Replies
  /\ app \in Apps /\ capture \in Captures /\ client \in Clients
  /\ entry \in [body : Seq(Nat), made : BOOLEAN]
  /\ Len(capture.buffer) <= MaxBody

\* An entry holds the whole body of a response that the application completed
\* and that may be stored; a response that fails half-way, outgrows the buffer
\* or is sent as a file leaves none.
EntryWhole ==
  entry.made =>
    /\ app.at \notin {"before", "open"}
    /\ entry.body = app.body
    /\ Len(entry.body) <= MaxBody
    /\ ~reply.leaks /\ ~_storage_refusal(reply) /\ reply.pending # "none"

\* What the client has of the body is all the application has sent so far, in
\* order, after one start; and it is told the body is over only when it is.
InOrder ==
  /\ client.body \in {<<>>, app.body}
  /\ client.body # <<>> \/ client.ended => client.starts >= 1
  /\ client.ended /\ ~client.error =>
       /\ client.body = app.body
       /\ app.at \in {"complete", "closed", "failed", "cancelled"}

\* The client is sent one start.  Only trailers that follow a body the
\* middleware has already answered for bring a second one.
OneStart ==
  client.starts > 1 => client.starts = 2 /\ client.ended /\ client.extended /\ ~client.error

\* X-Redis-Cache tells the truth: BYPASS is never said of a response that was
\* stored, MISS only of one that could be.
MarkTruthful ==
  /\ client.mark \in {"bypass", "private"} => ~entry.made
  /\ client.mark = "miss" => ~reply.leaks /\ ~_storage_refusal(reply)
  /\ client.error => client.mark = "none" /\ client.body = <<>>

\* A response the application completes reaches the client whole, unless the
\* application raises or is cancelled meanwhile; and one that raises before its
\* start went out is answered with an error.  A cancelled one gets no answer.
Delivered ==
  /\ app.at = "complete" ~>
       \/ client.ended /\ client.body = app.body
       \/ app.at \in {"failed", "cancelled"}
  /\ app.at = "failed" /\ client.starts = 0 ~> client.error

\* "A response the middleware cannot buffer [...] is forwarded whole and never
\* stored"
ForwardedWhole ==
  client.extended => client.body = app.body /\ ~entry.made /\ client.starts = 1
=============================================================================

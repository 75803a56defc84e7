--------------------------- MODULE ReadableStream ---------------------------
(***************************************************************************)
(* A body as include/qjsbind/web/stream.hpp reads it: the ReadableStream   *)
(* of a response over a network source and, after clone(), the streams of  *)
(* the two objects over the branches of a TeeSource. Everything runs on    *)
(* the thread of the io_context, but a read() is a coroutine that its      *)
(* scheduler resumes through that context's queue, so that other calls     *)
(* come between the answer to a read and what the read makes of it.        *)
(***************************************************************************)
EXTENDS Naturals, Sequences, FiniteSets, SequencesExt

CONSTANTS Body,      \* the stream before clone()
          Branches,  \* the streams after it
          Reads,     \* calls of read()
          StreamOf,  \* the stream each one reads
          Locking,   \* the streams whose scripts call getReader()
          Blocks     \* what the source holds: blocks 1, ..., Blocks

Streams == Branches \cup {Body}

ASSUME StreamAssumption ==
  /\ Body \notin Branches /\ IsFiniteSet(Branches) /\ Branches # {}
  /\ StreamOf \in [Reads -> Streams] /\ Locking \subseteq Streams /\ Blocks \in Nat

VARIABLES
  given,           \* blocks the source has answered
  failed,          \* ... and whether it has thrown
  cancelled,       \* BodySource::cancel() was called
  pulls,           \* reads suspended in the source's read()
  hops,            \* answers on their way to the coroutines, in the queue of io_
  live,            \* the streams that bodies hold
  buf, closed,     \* Shared::bufA, bufB, closedA, closedB
  done, errored,   \* Shared::done, errored
  state, queue, disturbed, stop_requested,   \* ReadableStreamImpl
  reader_lock,     \* reader_lock # nullptr
  reader,          \* reader_binding and its `closed` promise
  result,          \* of each read
  got,             \* blocks the reads of a stream returned, in that order
  aborted,         \* the stop token of the fetch
  posted           \* streams whose on_stop() is in the queue of io_

source  == <<given, failed, cancelled, pulls>>
tee     == <<live, buf, closed, done, errored>>
stream  == <<state, queue, disturbed, stop_requested>>
readers == <<reader_lock, reader>>
reads   == <<result, got>>
token   == <<aborted, posted>>
vars    == <<source, hops, tee, stream, readers, reads, token>>

States  == {"Readable", "Closed", "Errored"}
Readers == {"none", "active", "pending", "settled"}
Results == {"idle", "pulling", "value", "done", "error", "stopped"}

Block(n) == [kind |-> "block", n |-> n]
End(k)   == [kind |-> k, n |-> 0]
Answers  == {Block(n) : n \in 1..Blocks} \cup {End(k) : k \in {"eof", "error", "stopped"}}

Init ==
  /\ given = 0 /\ failed = FALSE /\ cancelled = FALSE /\ pulls = {} /\ hops = <<>>
  /\ live = {Body} /\ done = FALSE /\ errored = FALSE
  /\ buf = [s \in Branches |-> <<>>] /\ closed = [s \in Branches |-> FALSE]
  /\ state = [s \in Streams |-> "Readable"] /\ queue = [s \in Streams |-> <<>>]
  /\ disturbed = [s \in Streams |-> FALSE] /\ stop_requested = [s \in Streams |-> FALSE]
  /\ reader_lock = [s \in Streams |-> FALSE] /\ reader = [s \in Streams |-> "none"]
  /\ result = [r \in Reads |-> "idle"] /\ got = [s \in Streams |-> <<>>]
  /\ aborted = FALSE /\ posted = {}

-----------------------------------------------------------------------------
(* The source: BeastBodySource or any other behind BodySource.             *)

Hop(r, f, a) == [read |-> r, from |-> f, answer |-> a]

\* A read of the source ends with the next block, with the end, with an error, or, once
\* the source was cancelled, stopped. The coroutine is resumed through the queue of io_.
Answer(r) ==
  /\ r \in pulls /\ pulls' = pulls \ {r}
  /\ \/ /\ ~failed /\ given < Blocks
        /\ given' = given + 1 /\ UNCHANGED failed
        /\ hops' = Append(hops, Hop(r, "source", Block(given + 1)))
     \/ /\ ~failed /\ given = Blocks /\ UNCHANGED <<given, failed>>
        /\ hops' = Append(hops, Hop(r, "source", End("eof")))
     \/ /\ ~cancelled /\ failed' = TRUE /\ UNCHANGED given
        /\ hops' = Append(hops, Hop(r, "source", End("error")))
     \/ /\ cancelled /\ UNCHANGED <<given, failed>>
        /\ hops' = Append(hops, Hop(r, "source", End("stopped")))
  /\ UNCHANGED <<cancelled, tee, stream, readers, reads, token>>

\* The source's own stop callback closes the socket.
SourceStop ==
  /\ aborted /\ ~cancelled /\ cancelled' = TRUE
  /\ UNCHANGED <<given, failed, pulls, hops, tee, stream, readers, reads, token>>

\* Fault: the first branch to be cancelled cancels the source.
MutantCancelSource(s) ==
  IF s = Body THEN cancelled' = TRUE /\ UNCHANGED closed
  ELSE closed' = [closed EXCEPT ![s] = TRUE] /\ cancelled' = TRUE

\* source->cancel(): the network source itself, or a branch, which cancels the network
\* source when it is the last one open.
CancelSource(s) ==
  IF s = Body THEN cancelled' = TRUE /\ UNCHANGED closed
  ELSE /\ closed' = [closed EXCEPT ![s] = TRUE]
       /\ cancelled' = (cancelled \/ \A t \in Branches : closed'[t])

-----------------------------------------------------------------------------
(* The tee: TeeSource::read() of branch s, at the top of its loop.         *)

BranchHas(s, b, d, e) ==
  IF e THEN End("error")
  ELSE IF b # <<>> THEN Head(b)
  ELSE IF d \/ closed[s] THEN End("eof") ELSE End("pull")

\* The branch answers its stream at once, or suspends in the source's read().
Branch(r, rest, b, d, e) ==
  LET s == StreamOf[r]
      a == BranchHas(s, b[s], d, e)
  IN /\ buf' = IF a.kind = "block" THEN [b EXCEPT ![s] = Tail(@)] ELSE b
     /\ done' = d /\ errored' = e
     /\ IF a.kind = "pull" THEN pulls' = pulls \cup {r} /\ hops' = rest
        ELSE pulls' = pulls /\ hops' = Append(rest, Hop(r, "branch", a))

\* Faults: a branch keeps one block only, or waits for the other's read when it
\* is stopped.
MutantResumeTee ==
  /\ hops # <<>> /\ Head(hops).from = "source" /\ StreamOf[Head(hops).read] \in Branches
  /\ LET r == Head(hops).read
         a == Head(hops).answer
     IN IF a.kind = "stopped"
        THEN /\ hops' = Append(Tail(hops), Hop(r, "branch", a))
             /\ UNCHANGED <<pulls, buf, done, errored>>
        ELSE Branch(r, Tail(hops),
                    [t \in Branches |-> IF a.kind = "block" /\ ~closed[t] /\ buf[t] = <<>>
                                        THEN <<a>> ELSE buf[t]],
                    done \/ a.kind = "eof", errored \/ a.kind = "error")
  /\ UNCHANGED <<given, failed, cancelled, live, closed, stream, readers, reads, token>>

\* The tee's read resumes with an answer of the source: a block goes to every branch that is
\* not closed.
ResumeTee ==
  /\ hops # <<>> /\ Head(hops).from = "source" /\ StreamOf[Head(hops).read] \in Branches
  /\ LET r == Head(hops).read
         a == Head(hops).answer
     IN IF a.kind = "stopped"
        THEN /\ hops' = Append(Tail(hops), Hop(r, "branch", a))
             /\ UNCHANGED <<pulls, buf, done, errored>>
        ELSE Branch(r, Tail(hops),
                    [t \in Branches |-> IF a.kind = "block" /\ ~closed[t]
                                        THEN Append(buf[t], a) ELSE buf[t]],
                    done \/ a.kind = "eof", errored \/ a.kind = "error")
  /\ UNCHANGED <<given, failed, cancelled, live, closed, stream, readers, reads, token>>

-----------------------------------------------------------------------------
(* ReadableStreamImpl.                                                     *)

\* Fault: a block at hand is returned in spite of the stop request.
MutantOutcome(s, st, q) ==
  IF st = "Errored" THEN "error"
  ELSE IF q # <<>> THEN "value"
  ELSE IF stop_requested[s] THEN "stopped"
  ELSE IF st = "Closed" THEN "done" ELSE "pulling"

\* read() at the top of its loop, with the state st and the queue q.
Outcome(s, st, q) ==
  IF stop_requested[s] THEN "stopped"
  ELSE IF st = "Errored" THEN "error"
  ELSE IF q # <<>> THEN "value"
  ELSE IF st = "Closed" THEN "done" ELSE "pulling"

Loop(r, st, q) ==
  LET s == StreamOf[r]
      o == Outcome(s, st, q)
  IN /\ result' = [result EXCEPT ![r] = o]
     /\ queue' = [queue EXCEPT ![s] = IF o = "value" THEN Tail(q) ELSE q]
     /\ got' = [got EXCEPT ![s] = IF o = "value" THEN Append(@, Head(q)) ELSE @]
     /\ state' = [state EXCEPT ![s] = st]

\* notify_reader_later(), notify_reader(): the state is settled, and with it `closed`.
Notify(s) == reader' = [reader EXCEPT ![s] = IF @ = "pending" THEN "settled" ELSE @]

\* A call of read(): it looks at the state, then asks the source.
Read(r) ==
  LET s == StreamOf[r] IN
  /\ result[r] = "idle" /\ s \in live
  /\ disturbed' = [disturbed EXCEPT ![s] = TRUE]
  /\ Loop(r, state[s], queue[s])
  /\ IF result'[r] # "pulling" THEN UNCHANGED <<pulls, hops, buf, done, errored>>
     ELSE IF s = Body THEN /\ pulls' = pulls \cup {r}
                           /\ UNCHANGED <<hops, buf, done, errored>>
     ELSE Branch(r, hops, buf, done, errored)
  /\ UNCHANGED <<given, failed, cancelled, live, closed, stop_requested, readers, token>>

\* read() resumes with the answer of its source.
ResumeRead ==
  /\ hops # <<>> /\ hops' = Tail(hops)
  /\ LET r == Head(hops).read
         a == Head(hops).answer
         s == StreamOf[r]
     IN /\ Head(hops).from = "branch" \/ s = Body
        /\ CASE a.kind = "stopped" ->
                  /\ result' = [result EXCEPT ![r] = "stopped"]
                  /\ UNCHANGED <<got, state, queue, reader>>
             [] a.kind = "error"   -> Loop(r, "Errored", queue[s]) /\ Notify(s)
             [] a.kind = "eof"     -> Loop(r, "Closed", queue[s]) /\ Notify(s)
             [] a.kind = "block"   -> /\ Loop(r, state[s], Append(queue[s], a))
                                      /\ UNCHANGED reader
  /\ UNCHANGED <<source, tee, disturbed, stop_requested, reader_lock, token>>

\* What cancel() and on_stop() do to a stream that is still readable.
CloseAndCancel(s) ==
  IF state[s] = "Readable"
  THEN state' = [state EXCEPT ![s] = "Closed"] /\ CancelSource(s)
  ELSE UNCHANGED <<state, closed, cancelled>>

\* ReadableStream.cancel(); a stream that has ended is not disturbed by it.
Cancel(s) ==
  /\ s \in live /\ CloseAndCancel(s)
  /\ disturbed' = [disturbed EXCEPT ![s] = @ \/ state[s] = "Readable"]
  /\ Notify(s)
  /\ UNCHANGED <<given, failed, pulls, hops, live, buf, done, errored, queue, stop_requested,
                 reader_lock, reads, token>>

\* reader.cancel() also releases the lock.
ReaderCancel(s) ==
  /\ s \in live /\ reader[s] # "none" /\ CloseAndCancel(s)
  /\ disturbed' = [disturbed EXCEPT ![s] = @ \/ state[s] = "Readable"]
  /\ reader' = [reader EXCEPT ![s] = "none"]
  /\ reader_lock' = [reader_lock EXCEPT ![s] = FALSE]
  /\ UNCHANGED <<given, failed, pulls, hops, live, buf, done, errored, queue, stop_requested,
                 reads, token>>

\* getReader()
GetReader(s) ==
  /\ s \in live \cap Locking /\ ~reader_lock[s] /\ ~disturbed[s]
  /\ reader_lock' = [reader_lock EXCEPT ![s] = TRUE]
  /\ reader' = [reader EXCEPT ![s] = "active"]
  /\ UNCHANGED <<source, hops, tee, stream, reads, token>>

\* The getter `closed`: the promise is made once, and settled if the stream is.
Closed(s) ==
  /\ reader[s] = "active"
  /\ reader' = [reader EXCEPT ![s] = IF state[s] = "Readable" THEN "pending" ELSE "settled"]
  /\ UNCHANGED <<source, hops, tee, stream, reader_lock, reads, token>>

\* releaseLock(): no read is ever linked to `head`, so nothing refuses it.
ReleaseLock(s) ==
  /\ reader[s] # "none"
  /\ reader_lock' = [reader_lock EXCEPT ![s] = FALSE]
  /\ reader' = [reader EXCEPT ![s] = "none"]
  /\ UNCHANGED <<source, hops, tee, stream, reads, token>>

\* A collected reader leaves the stream locked.
DropReader(s) ==
  /\ reader[s] # "none"
  /\ reader' = [reader EXCEPT ![s] = "none"]
  /\ UNCHANGED <<source, hops, tee, stream, reader_lock, reads, token>>

-----------------------------------------------------------------------------
\* The signal of the fetch is aborted, on any thread: every stream's callback posts.
Abort ==
  /\ ~aborted /\ aborted' = TRUE
  /\ posted' = live
  /\ UNCHANGED <<source, hops, tee, stream, readers, reads>>

\* Fault: on_stop() does not tell the reader.
MutantOnStop(s) ==
  /\ s \in posted /\ posted' = posted \ {s}
  /\ stop_requested' = [stop_requested EXCEPT ![s] = TRUE]
  /\ CloseAndCancel(s)
  /\ UNCHANGED <<given, failed, pulls, hops, live, buf, done, errored, queue, disturbed,
                 readers, reads, aborted>>

\* on_stop(), in the queue of io_.
OnStop(s) ==
  /\ s \in posted /\ posted' = posted \ {s}
  /\ stop_requested' = [stop_requested EXCEPT ![s] = TRUE]
  /\ CloseAndCancel(s) /\ Notify(s)
  /\ UNCHANGED <<given, failed, pulls, hops, live, buf, done, errored, queue, disturbed,
                 reader_lock, reads, aborted>>

\* clone() of a body that is neither locked nor disturbed: two new streams with the old
\* one's token, whose callbacks post at once if it is stopped.
Clone ==
  /\ live = {Body} /\ ~reader_lock[Body] /\ ~disturbed[Body]
  /\ live' = Branches
  /\ posted' = IF aborted THEN posted \cup Branches ELSE posted
  /\ UNCHANGED <<source, hops, buf, closed, done, errored, stream, readers, reads, aborted>>

\* The body of a branch is collected when no read holds its stream: ~TeeSource().
Drop(s) ==
  /\ s \in live \ {Body} /\ s \notin posted
  /\ \A r \in Reads : StreamOf[r] = s => result[r] # "pulling"
  /\ live' = live \ {s} /\ CancelSource(s)
  /\ buf' = [buf EXCEPT ![s] = <<>>]
  /\ reader' = [reader EXCEPT ![s] = "none"]
  /\ UNCHANGED <<given, failed, pulls, hops, done, errored, stream, reader_lock, reads, token>>

-----------------------------------------------------------------------------
Next ==
  \/ \E r \in Reads : Read(r) \/ Answer(r)
  \/ SourceStop \/ ResumeTee \/ ResumeRead \/ Abort \/ Clone
  \/ \E s \in Streams : \/ Cancel(s) \/ ReaderCancel(s) \/ GetReader(s) \/ Closed(s)
                        \/ ReleaseLock(s) \/ DropReader(s) \/ OnStop(s)
  \/ \E s \in Branches : Drop(s)

Spec == Init /\ [][Next]_vars

\* The io_context runs what is queued, a stopped token calls back, and a cancelled source
\* ends its reads. Otherwise the peer need not answer, and nobody has to call anything.
Fairness ==
  /\ WF_vars(ResumeTee) /\ WF_vars(ResumeRead) /\ WF_vars(SourceStop)
  /\ \A s \in Streams : WF_vars(OnStop(s))
  /\ \A r \in Reads : WF_vars(cancelled /\ Answer(r))

FairSpec == Spec /\ Fairness

-----------------------------------------------------------------------------
\* Types; the queue of a stream holds at most what its reads in flight brought.
TypeOK ==
  /\ given \in 0..Blocks /\ failed \in BOOLEAN /\ cancelled \in BOOLEAN
  /\ pulls \subseteq Reads
  /\ hops \in Seq([read : Reads, from : {"source", "branch"}, answer : Answers])
  /\ live \subseteq Streams /\ done \in BOOLEAN /\ errored \in BOOLEAN
  /\ buf \in [Branches -> Seq(Answers)] /\ closed \in [Branches -> BOOLEAN]
  /\ state \in [Streams -> States] /\ queue \in [Streams -> Seq(Answers)]
  /\ disturbed \in [Streams -> BOOLEAN] /\ stop_requested \in [Streams -> BOOLEAN]
  /\ reader_lock \in [Streams -> BOOLEAN] /\ reader \in [Streams -> Readers]
  /\ result \in [Reads -> Results] /\ got \in [Streams -> Seq(Answers)]
  /\ aborted \in BOOLEAN /\ posted \subseteq Streams

\* The hop h brings a block from f to a read of the streams S.
Brings(h, f, S) == h.from = f /\ h.answer.kind = "block" /\ StreamOf[h.read] \in S

\* The hops q bring the blocks lo + 1, ..., hi, each once and in order.
Carry(q, f, S, lo, hi) ==
  LET way == {i \in DOMAIN q : Brings(q[i], f, S)}
  IN /\ lo <= hi /\ {q[i].answer : i \in way} = {Block(n) : n \in (lo + 1)..hi}
     /\ \A i, j \in way : i < j => q[i].answer.n < q[j].answer.n

\* The sequence q is the blocks from lo + 1 on.
Holds(q, lo) == \A i \in DOMAIN q : q[i] = Block(lo + i)

Has(s) == Len(got[s]) + Len(queue[s])

\* A stream returns the source's blocks in order and loses none: what its reads have
\* returned, what it and its branch hold and what is on its way are the blocks given so
\* far, and a branch that was cancelled has a prefix of them (read(), TeeSource::read()).
NothingLost ==
  /\ \A s \in Streams : Holds(got[s], 0) /\ Holds(queue[s], Len(got[s]))
  /\ Body \in live => Carry(hops, "source", {Body}, Has(Body), given)
  /\ live # {Body} => \A s \in Branches : \E m \in 0..given :
       /\ Carry(hops, "branch", {s}, Has(s), m) /\ Holds(buf[s], m)
       /\ IF closed[s] THEN m + Len(buf[s]) <= given
          ELSE Carry(hops, "source", Branches, m + Len(buf[s]), given)

\* A read reports the end only after every block, unless its stream was cancelled: an
\* interrupted body is never taken for a short one.
NoTruncation ==
  \A r \in Reads : result[r] = "done" =>
    \/ Len(got[StreamOf[r]]) = Blocks
    \/ IF StreamOf[r] = Body THEN cancelled ELSE closed[StreamOf[r]]

\* A body's reader sees all of it: every block once and in order, and the end only after
\* the last.
EveryBlockOnce == NothingLost /\ NoTruncation

\* One branch does not take the source away from the other, and when both are closed no
\* read of the network is left running (TeeSource::cancel(), ~TeeSource()).
SourceFollowsBranches ==
  /\ cancelled => aborted \/ state[Body] # "Readable" \/ \A s \in Branches : closed[s]
  /\ (\A s \in Branches : closed[s]) => cancelled

\* The promise `closed` of the stream's reader is settled exactly when the stream is, however
\* it ended (settle_closed() and its five callers).
ClosedPromise ==
  \A s \in Streams : /\ reader[s] = "settled" => state[s] # "Readable"
                     /\ reader[s] = "pending" => state[s] = "Readable"

\* A stream's state and its reader's promise move together, through overlapping reads,
\* cancels, aborts and locks.
StreamSound == TypeOK /\ ClosedPromise

\* After on_stop() no read returns a block or an end, only AbortError.
AbortRejects ==
  [][\A r \in Reads : stop_requested[StreamOf[r]] /\ result'[r] # result[r]
       => result'[r] \in {"pulling", "stopped"}]_vars

\* A read that waits for a source that was cancelled ends.
CancelEndsReads == cancelled ~> \A r \in Reads : result[r] # "pulling"

\* A read ends as its stream's end has it: with AbortError after an abort, and in the end
\* when the source it waits for was cancelled.
ReadsEnd == AbortRejects /\ CancelEndsReads

=============================================================================

----------------------- MODULE ReadableStreamProofs -----------------------
(***************************************************************************)
(* Safety of the streams of a body, for any reads, branches and number of  *)
(* blocks. First the types, then a stream's state and its reader's         *)
(* promise, and last that every block arrives once and in order: the       *)
(* blocks on their way form segments of what the source gave, and each     *)
(* step moves a boundary between two of them.                              *)
(***************************************************************************)
EXTENDS ReadableStream, TLAPS

\* What the queue of io_ holds for a coroutine.
Hops == [read : Reads, from : {"source", "branch"}, answer : Answers]

\* An answer that is handed to a coroutine is queued as one of them.
LEMMA HopTypes ==
  ASSUME NEW r \in Reads, NEW a \in Answers, NEW f \in {"source", "branch"}
  PROVE  Hop(r, f, a) \in Hops
BY DEF Hop, Hops

\* Every kind of answer the source gives, and nothing else, is an answer.
LEMMA AnswerTypes ==
  /\ \A k \in {"eof", "error", "stopped"} : End(k) \in Answers
  /\ \A n \in 1..Blocks : Block(n) \in Answers
  /\ \A a \in Answers : a.kind \in {"block", "eof", "error", "stopped"}
BY DEF Answers, Block, End

\* Looking at the branch: what it has, and what it keeps, are answers.
LEMMA BranchTypes ==
  ASSUME TypeOK, NEW r \in Reads, StreamOf[r] \in Branches, NEW rest \in Seq(Hops),
         NEW b \in [Branches -> Seq(Answers)], NEW d \in BOOLEAN, NEW e \in BOOLEAN,
         Branch(r, rest, b, d, e)
  PROVE  /\ pulls' \subseteq Reads /\ hops' \in Seq(Hops)
         /\ buf' \in [Branches -> Seq(Answers)] /\ done' \in BOOLEAN /\ errored' \in BOOLEAN
<1> DEFINE s == StreamOf[r]
           a == BranchHas(s, b[s], d, e)
<1>1. b[s] \in Seq(Answers) /\ pulls \subseteq Reads
  BY DEF TypeOK
<1>2. a.kind = "pull" \/ a \in Answers
  <2>1. CASE e
    BY <2>1, AnswerTypes DEF BranchHas
  <2>2. CASE ~e /\ b[s] # <<>>
    <3>1. Head(b[s]) \in Answers
      BY <1>1, <2>2
    <3>2. a = Head(b[s])
      BY <2>2 DEF BranchHas
    <3> QED BY <3>1, <3>2
  <2>3. CASE ~e /\ b[s] = <<>> /\ (d \/ closed[s])
    BY <2>3, AnswerTypes DEF BranchHas
  <2>4. CASE ~e /\ b[s] = <<>> /\ ~(d \/ closed[s])
    BY <2>4 DEF BranchHas, End
  <2> QED BY <2>1, <2>2, <2>3, <2>4
<1>3. a.kind = "block" => b[s] # <<>>
  BY DEF BranchHas, End
<1>4. buf' \in [Branches -> Seq(Answers)]
  <2>1. b[s] # <<>> => Tail(b[s]) \in Seq(Answers)
    BY <1>1
  <2> QED BY <1>3, <2>1 DEF Branch
<1>5. hops' \in Seq(Hops)
  <2>1. CASE a.kind = "pull"
    BY <2>1 DEF Branch
  <2>2. CASE a.kind # "pull"
    <3>1. Hop(r, "branch", a) \in Hops
      BY <1>2, <2>2, HopTypes
    <3> QED BY <2>2, <3>1 DEF Branch
  <2> QED BY <2>1, <2>2
<1>6. pulls' \subseteq Reads
  BY <1>1 DEF Branch
<1> QED BY <1>4, <1>5, <1>6 DEF Branch

\* The loop of read() keeps the types, whatever state and queue it starts from.
LEMMA LoopTypes ==
  ASSUME TypeOK, NEW r \in Reads, NEW st \in States, NEW q \in Seq(Answers), Loop(r, st, q)
  PROVE  /\ result' \in [Reads -> Results] /\ queue' \in [Streams -> Seq(Answers)]
         /\ got' \in [Streams -> Seq(Answers)] /\ state' \in [Streams -> States]
<1> DEFINE s == StreamOf[r]
           o == Outcome(s, st, q)
<1>1. s \in Streams /\ got[s] \in Seq(Answers)
  BY StreamAssumption DEF TypeOK
<1>2. o \in Results /\ (o = "value" => q # <<>>)
  BY DEF Outcome, Results
<1>3. q # <<>> => Tail(q) \in Seq(Answers) /\ Append(got[s], Head(q)) \in Seq(Answers)
  BY <1>1
<1>4. result' \in [Reads -> Results] /\ state' \in [Streams -> States]
  BY <1>2 DEF Loop, TypeOK
<1>5. queue' \in [Streams -> Seq(Answers)]
  BY <1>2, <1>3 DEF Loop, TypeOK
<1>6. got' \in [Streams -> Seq(Answers)]
  BY <1>2, <1>3 DEF Loop, TypeOK
<1> QED BY <1>4, <1>5, <1>6

\* Telling the reader leaves it a reader.
LEMMA NotifyTypes ==
  ASSUME TypeOK, NEW s \in Streams, Notify(s)
  PROVE  reader' \in [Streams -> Readers]
BY DEF TypeOK, Notify, Readers

\* Cancelling the source closes a branch or the source, and nothing else.
LEMMA CancelTypes ==
  ASSUME TypeOK, NEW s \in Streams, CancelSource(s)
  PROVE  cancelled' \in BOOLEAN /\ closed' \in [Branches -> BOOLEAN]
BY DEF TypeOK, CancelSource, Streams

\* cancel() and on_stop() leave the stream in one of its states.
LEMMA CloseTypes ==
  ASSUME TypeOK, NEW s \in Streams, CloseAndCancel(s)
  PROVE  /\ cancelled' \in BOOLEAN /\ closed' \in [Branches -> BOOLEAN]
         /\ state' \in [Streams -> States]
BY CancelTypes DEF TypeOK, CloseAndCancel, States

\* The constructors set up values of the types.
LEMMA TypesInit == Init => TypeOK
<1> SUFFICES ASSUME Init PROVE TypeOK
  OBVIOUS
<1>1. /\ hops \in Seq(Hops) /\ buf \in [Branches -> Seq(Answers)]
      /\ queue \in [Streams -> Seq(Answers)] /\ got \in [Streams -> Seq(Answers)]
  BY DEF Init
<1>2. given \in 0..Blocks /\ live \subseteq Streams
  BY StreamAssumption DEF Init, Streams
<1> QED BY <1>1, <1>2 DEF Init, TypeOK, States, Readers, Results, Hops

\* ... and no step of any action breaks them.
LEMMA TypesStep == TypeOK /\ [Next]_vars => TypeOK'
<1> SUFFICES ASSUME TypeOK, [Next]_vars PROVE TypeOK'
  OBVIOUS
<1>0. /\ hops \in Seq(Hops) /\ \A r \in Reads : StreamOf[r] \in Streams
      /\ \A s \in Streams : queue[s] \in Seq(Answers) /\ state[s] \in States
  BY StreamAssumption DEF TypeOK, Hops
<1>h. hops # <<>> => /\ Head(hops) \in Hops /\ Head(hops).read \in Reads
                     /\ Head(hops).answer \in Answers
                     /\ Tail(hops) \in Seq(Hops)
  <2>1. hops # <<>> => Head(hops) \in Hops /\ Tail(hops) \in Seq(Hops)
    BY <1>0
  <2>2. \A h \in Hops : h.read \in Reads /\ h.answer \in Answers
    BY DEF Hops
  <2> QED BY <2>1, <2>2
<1>1. ASSUME NEW r \in Reads, Read(r) PROVE TypeOK'
  <2> DEFINE s == StreamOf[r]
  <2>1. /\ result' \in [Reads -> Results] /\ queue' \in [Streams -> Seq(Answers)]
        /\ got' \in [Streams -> Seq(Answers)] /\ state' \in [Streams -> States]
    BY <1>0, <1>1, LoopTypes DEF Read
  <2>2. /\ pulls' \subseteq Reads /\ hops' \in Seq(Hops)
        /\ buf' \in [Branches -> Seq(Answers)] /\ done' \in BOOLEAN /\ errored' \in BOOLEAN
    <3>1. CASE result'[r] # "pulling" \/ s = Body
      BY <1>0, <1>1, <3>1 DEF Read, TypeOK
    <3>2. CASE result'[r] = "pulling" /\ s # Body
      <4>1. s \in Branches /\ Branch(r, hops, buf, done, errored)
        BY <1>0, <1>1, <3>2 DEF Read, Streams
      <4>2. buf \in [Branches -> Seq(Answers)] /\ done \in BOOLEAN /\ errored \in BOOLEAN
        BY DEF TypeOK
      <4> QED BY <1>0, <4>1, <4>2, BranchTypes
    <3> QED BY <3>1, <3>2
  <2>3. disturbed' \in [Streams -> BOOLEAN]
    BY <1>1 DEF Read, TypeOK
  <2> QED BY <1>1, <2>1, <2>2, <2>3 DEF Read, TypeOK, Hops, readers, token
<1>2. ASSUME NEW r \in Reads, Answer(r) PROVE TypeOK'
  <2>1. \A a \in Answers : Append(hops, Hop(r, "source", a)) \in Seq(Hops)
    BY <1>0, HopTypes
  <2>2. given' \in 0..Blocks /\ failed' \in BOOLEAN
    <3>1. given \in 0..Blocks /\ failed \in BOOLEAN /\ Blocks \in Nat
      BY StreamAssumption DEF TypeOK
    <3>2. \/ given < Blocks /\ given' = given + 1 /\ UNCHANGED failed
          \/ UNCHANGED given /\ (failed' = TRUE \/ UNCHANGED failed)
      BY <1>2, Zenon DEF Answer
    <3>3. given' \in 0..Blocks
      BY <3>1, <3>2
    <3>4. failed' \in BOOLEAN
      BY <3>1, <3>2, Zenon
    <3> QED BY <3>3, <3>4
  <2>3. hops' \in Seq(Hops)
    <3>1. given < Blocks => Block(given + 1) \in Answers
      BY StreamAssumption, AnswerTypes DEF TypeOK
    <3>2. CASE given < Blocks /\ given' = given + 1
               /\ hops' = Append(hops, Hop(r, "source", Block(given + 1)))
      BY <2>1, <3>1, <3>2
    <3>3. CASE \E k \in {"eof", "error", "stopped"} :
                 hops' = Append(hops, Hop(r, "source", End(k)))
      BY <2>1, <3>3, AnswerTypes
    <3>4. \/ /\ given < Blocks /\ given' = given + 1
             /\ hops' = Append(hops, Hop(r, "source", Block(given + 1)))
          \/ hops' = Append(hops, Hop(r, "source", End("eof")))
          \/ hops' = Append(hops, Hop(r, "source", End("error")))
          \/ hops' = Append(hops, Hop(r, "source", End("stopped")))
      BY <1>2, Zenon DEF Answer
    <3> QED BY <3>2, <3>3, <3>4
  <2> QED BY <1>2, <2>2, <2>3 DEF Answer, TypeOK, Hops, tee, stream, readers, reads, token
<1>3. ASSUME ResumeTee PROVE TypeOK'
  <2> DEFINE r == Head(hops).read
             a == Head(hops).answer
             b == [t \in Branches |-> IF a.kind = "block" /\ ~closed[t]
                                      THEN Append(buf[t], a) ELSE buf[t]]
  <2>1. hops # <<>> /\ StreamOf[r] \in Branches
    BY <1>3 DEF ResumeTee
  <2>2. b \in [Branches -> Seq(Answers)]
    BY <1>h, <2>1 DEF TypeOK
  <2>3. /\ pulls' \subseteq Reads /\ hops' \in Seq(Hops)
        /\ buf' \in [Branches -> Seq(Answers)] /\ done' \in BOOLEAN /\ errored' \in BOOLEAN
    <3>1. CASE a.kind = "stopped"
      <4>1. Hop(r, "branch", a) \in Hops
        BY <1>h, <2>1, HopTypes
      <4>2. hops' = Append(Tail(hops), Hop(r, "branch", a)) /\ UNCHANGED <<pulls, buf, done, errored>>
        BY <1>3, <3>1 DEF ResumeTee
      <4> QED BY <1>h, <2>1, <4>1, <4>2 DEF TypeOK
    <3>2. CASE a.kind # "stopped"
      <4>1. Branch(r, Tail(hops), b, done \/ a.kind = "eof", errored \/ a.kind = "error")
        BY <1>3, <3>2 DEF ResumeTee
      <4>2. (done \/ a.kind = "eof") \in BOOLEAN /\ (errored \/ a.kind = "error") \in BOOLEAN
        OBVIOUS
      <4> HIDE DEF b
      <4> QED BY <1>h, <2>1, <2>2, <4>1, <4>2, BranchTypes
    <3> QED BY <3>1, <3>2
  <2> QED BY <1>3, <2>3 DEF ResumeTee, TypeOK, Hops, stream, readers, reads, token
<1>4. ASSUME ResumeRead PROVE TypeOK'
  <2> DEFINE r == Head(hops).read
             a == Head(hops).answer
             s == StreamOf[r]
  <2>1. hops # <<>> /\ hops' = Tail(hops) /\ r \in Reads /\ a \in Answers /\ s \in Streams
    BY <1>0, <1>h, <1>4 DEF ResumeRead
  <2>2. Append(queue[s], a) \in Seq(Answers)
    BY <1>0, <2>1
  <2>3. /\ result' \in [Reads -> Results] /\ queue' \in [Streams -> Seq(Answers)]
        /\ got' \in [Streams -> Seq(Answers)] /\ state' \in [Streams -> States]
        /\ reader' \in [Streams -> Readers]
    <3>1. CASE a.kind = "stopped"
      BY <1>4, <2>1, <3>1 DEF ResumeRead, TypeOK, Results
    <3>2. CASE a.kind = "error"
      <4>1. Loop(r, "Errored", queue[s]) /\ Notify(s)
        BY <1>4, <3>2 DEF ResumeRead
      <4> QED BY <1>0, <2>1, <4>1, LoopTypes, NotifyTypes DEF States
    <3>3. CASE a.kind = "eof"
      <4>1. Loop(r, "Closed", queue[s]) /\ Notify(s)
        BY <1>4, <3>3 DEF ResumeRead
      <4> QED BY <1>0, <2>1, <4>1, LoopTypes, NotifyTypes DEF States
    <3>4. CASE a.kind = "block"
      <4>1. Loop(r, state[s], Append(queue[s], a)) /\ UNCHANGED reader
        BY <1>4, <3>4 DEF ResumeRead
      <4> QED BY <1>0, <2>1, <2>2, <4>1, LoopTypes DEF TypeOK
    <3> QED BY <2>1, <3>1, <3>2, <3>3, <3>4, AnswerTypes
  <2> QED BY <1>4, <1>h, <2>1, <2>3 DEF ResumeRead, TypeOK, Hops, source, tee, token
<1>5. ASSUME NEW s \in Streams, Cancel(s) PROVE TypeOK'
  <2>1. /\ cancelled' \in BOOLEAN /\ closed' \in [Branches -> BOOLEAN]
        /\ state' \in [Streams -> States] /\ reader' \in [Streams -> Readers]
    BY <1>5, CloseTypes, NotifyTypes DEF Cancel
  <2> QED BY <1>5, <2>1 DEF Cancel, TypeOK, reads, token
<1>6. ASSUME NEW s \in Streams, ReaderCancel(s) PROVE TypeOK'
  <2>1. /\ cancelled' \in BOOLEAN /\ closed' \in [Branches -> BOOLEAN]
        /\ state' \in [Streams -> States]
    BY <1>6, CloseTypes DEF ReaderCancel
  <2> QED BY <1>6, <2>1 DEF ReaderCancel, TypeOK, Readers, reads, token
<1>7. ASSUME NEW s \in Streams, OnStop(s) PROVE TypeOK'
  <2>1. /\ cancelled' \in BOOLEAN /\ closed' \in [Branches -> BOOLEAN]
        /\ state' \in [Streams -> States] /\ reader' \in [Streams -> Readers]
    BY <1>7, CloseTypes, NotifyTypes DEF OnStop
  <2> QED BY <1>7, <2>1 DEF OnStop, TypeOK, reads
<1>8. ASSUME NEW s \in Streams, GetReader(s) \/ Closed(s) \/ ReleaseLock(s) \/ DropReader(s)
      PROVE TypeOK'
  BY <1>8 DEF GetReader, Closed, ReleaseLock, DropReader, TypeOK, Readers,
              source, tee, stream, reads, token
<1>9. ASSUME NEW s \in Branches, Drop(s) PROVE TypeOK'
  <2>1. cancelled' \in BOOLEAN /\ closed' \in [Branches -> BOOLEAN]
    BY <1>9, CancelTypes DEF Drop, Streams
  <2>2. buf' \in [Branches -> Seq(Answers)]
    BY <1>9 DEF Drop, TypeOK
  <2>3. live' \subseteq Streams /\ reader' \in [Streams -> Readers]
    BY <1>9 DEF Drop, TypeOK, Readers
  <2> QED BY <1>9, <2>1, <2>2, <2>3 DEF Drop, TypeOK, stream, reads, token
<1>10. CASE SourceStop \/ Abort \/ Clone
  BY <1>10 DEF SourceStop, Abort, Clone, TypeOK, Streams, source, tee, stream, readers, reads, token
<1>11. CASE UNCHANGED vars
  BY <1>11 DEF vars, TypeOK, source, tee, stream, readers, reads, token
<1> QED
  BY <1>1, <1>2, <1>3, <1>4, <1>5, <1>6, <1>7, <1>8, <1>9, <1>10, <1>11 DEF Next

\* The types hold in every reachable state.
THEOREM StreamTypes == Spec => []TypeOK
BY TypesInit, TypesStep, PTL DEF Spec

-----------------------------------------------------------------------------
\* Only CancelSource cancels the source of a stream, and only for the reasons it may.
LEMMA FollowsStep == TypeOK /\ SourceFollowsBranches /\ [Next]_vars => SourceFollowsBranches'
<1> SUFFICES ASSUME TypeOK, SourceFollowsBranches, [Next]_vars PROVE SourceFollowsBranches'
  OBVIOUS
<1> USE DEF SourceFollowsBranches
<1>0. /\ \A r \in Reads : StreamOf[r] \in Streams
      /\ Body \in Streams /\ Body \notin Branches /\ Branches # {}
      /\ closed \in [Branches -> BOOLEAN] /\ state \in [Streams -> States]
  BY StreamAssumption DEF TypeOK, Streams
<1>c. ASSUME NEW s \in Streams, CancelSource(s), state'[Body] = state[Body], aborted' = aborted,
             s # Body
      PROVE  SourceFollowsBranches'
  BY <1>0, <1>c DEF CancelSource, Streams
<1>d. ASSUME NEW s \in Streams, CloseAndCancel(s), aborted' = aborted
      PROVE  SourceFollowsBranches'
  <2>1. CASE state[s] # "Readable"
    BY <1>d, <2>1 DEF CloseAndCancel
  <2>2. CASE state[s] = "Readable" /\ s # Body
    BY <1>0, <1>c, <1>d, <2>2 DEF CloseAndCancel
  <2>3. CASE state[s] = "Readable" /\ s = Body
    BY <1>0, <1>d, <2>3 DEF CloseAndCancel, CancelSource
  <2> QED BY <2>1, <2>2, <2>3
<1>l. ASSUME NEW r \in Reads, NEW st \in States, NEW q, Loop(r, st, q), cancelled' = cancelled,
             closed' = closed, aborted' = aborted,
             st = state[StreamOf[r]] \/ st # "Readable"
      PROVE  SourceFollowsBranches'
  BY <1>0, <1>l DEF Loop
<1>1. ASSUME NEW r \in Reads, Read(r) PROVE SourceFollowsBranches'
  BY <1>0, <1>1, <1>l DEF Read, token
<1>2. ASSUME NEW r \in Reads, Answer(r) PROVE SourceFollowsBranches'
  BY <1>2 DEF Answer, tee, stream, token
<1>3. CASE ResumeTee
  BY <1>3 DEF ResumeTee, stream, token
<1>4. CASE ResumeRead
  <2> DEFINE r == Head(hops).read
             a == Head(hops).answer
             s == StreamOf[r]
  <2>1. UNCHANGED <<cancelled, closed, aborted>> /\ hops # <<>>
    BY <1>4 DEF ResumeRead, source, tee, token
  <2>2. r \in Reads /\ a.kind \in {"block", "eof", "error", "stopped"}
    <3>1. hops \in Seq(Hops)
      BY DEF TypeOK, Hops
    <3>2. Head(hops) \in Hops
      BY <2>1, <3>1
    <3> QED BY <3>2, AnswerTypes DEF Hops
  <2>3. \/ UNCHANGED state
        \/ \E st \in States, q \in {queue[s], Append(queue[s], a)} :
             Loop(r, st, q) /\ (st = state[s] \/ st # "Readable")
    BY <1>0, <1>4, <2>2 DEF ResumeRead, States
  <2> QED BY <1>l, <2>1, <2>2, <2>3
<1>5. ASSUME NEW s \in Streams, Cancel(s) \/ ReaderCancel(s) \/ OnStop(s)
      PROVE  SourceFollowsBranches'
  BY <1>5, <1>d DEF Cancel, ReaderCancel, OnStop, token
<1>6. ASSUME NEW s \in Streams, GetReader(s) \/ Closed(s) \/ ReleaseLock(s) \/ DropReader(s)
      PROVE  SourceFollowsBranches'
  BY <1>6 DEF GetReader, Closed, ReleaseLock, DropReader, source, tee, stream, token
<1>7. ASSUME NEW s \in Branches, Drop(s) PROVE SourceFollowsBranches'
  BY <1>0, <1>7, <1>c DEF Drop, Streams, stream, token
<1>8. CASE SourceStop
  BY <1>8 DEF SourceStop, tee, stream, token
<1>9. CASE Abort \/ Clone
  BY <1>9 DEF Abort, Clone, source, tee, stream
<1>10. CASE UNCHANGED vars
  BY <1>10 DEF vars, source, tee, stream, token
<1> QED BY <1>1, <1>2, <1>3, <1>4, <1>5, <1>6, <1>7, <1>8, <1>9, <1>10 DEF Next

\* No branch takes the source from the other, and the last one to close cancels it.
THEOREM SourceIsShared == Spec => []SourceFollowsBranches
<1>1. Init => SourceFollowsBranches
  BY StreamAssumption DEF Init, SourceFollowsBranches
<1> QED BY <1>1, StreamTypes, FollowsStep, PTL DEF Spec

-----------------------------------------------------------------------------
\* A stream that has ended stays ended, and every end settles the reader's promise.
LEMMA ClosedStep == TypeOK /\ ClosedPromise /\ [Next]_vars => ClosedPromise'
<1> SUFFICES ASSUME TypeOK, ClosedPromise, [Next]_vars PROVE ClosedPromise'
  OBVIOUS
<1> USE DEF ClosedPromise
<1>0. /\ \A r \in Reads : StreamOf[r] \in Streams
      /\ reader \in [Streams -> Readers] /\ state \in [Streams -> States]
  BY StreamAssumption DEF TypeOK
<1>n. ASSUME NEW s \in Streams, NEW st \in States, st # "Readable",
             state' = [state EXCEPT ![s] = st], Notify(s)
      PROVE  ClosedPromise'
  BY <1>0, <1>n DEF Notify
<1>s. ASSUME UNCHANGED <<state, reader>> PROVE ClosedPromise'
  BY <1>s
<1>d. ASSUME NEW s \in Streams, CloseAndCancel(s), Notify(s) PROVE ClosedPromise'
  <2>1. CASE state[s] = "Readable"
    BY <1>n, <1>d, <2>1 DEF CloseAndCancel, States
  <2>2. CASE state[s] # "Readable"
    BY <1>0, <1>d, <2>2 DEF CloseAndCancel, Notify
  <2> QED BY <2>1, <2>2
<1>1. ASSUME NEW r \in Reads, Read(r) PROVE ClosedPromise'
  BY <1>0, <1>1, <1>s DEF Read, Loop, readers
<1>2. ASSUME NEW r \in Reads, Answer(r) PROVE ClosedPromise'
  BY <1>2, <1>s DEF Answer, stream, readers
<1>3. CASE ResumeTee \/ SourceStop \/ Abort \/ Clone
  BY <1>3, <1>s DEF ResumeTee, SourceStop, Abort, Clone, stream, readers
<1>4. CASE ResumeRead
  <2> DEFINE r == Head(hops).read
             a == Head(hops).answer
             s == StreamOf[r]
  <2>1. s \in Streams /\ a.kind \in {"block", "eof", "error", "stopped"}
    <3>1. hops # <<>> /\ hops \in Seq(Hops)
      BY <1>4 DEF ResumeRead, TypeOK, Hops
    <3>2. Head(hops) \in Hops
      BY <3>1
    <3> QED BY <1>0, <3>2, AnswerTypes DEF Hops
  <2>2. \/ UNCHANGED <<state, reader>>
        \/ \E st \in States : /\ st # "Readable" /\ state' = [state EXCEPT ![s] = st]
                              /\ Notify(s)
    BY <1>0, <1>4, <2>1 DEF ResumeRead, Loop, States
  <2> QED BY <1>n, <1>s, <2>1, <2>2
<1>5. ASSUME NEW s \in Streams, Cancel(s) \/ OnStop(s) PROVE ClosedPromise'
  BY <1>5, <1>d DEF Cancel, OnStop
<1>6. ASSUME NEW s \in Streams, ReaderCancel(s) PROVE ClosedPromise'
  BY <1>0, <1>6 DEF ReaderCancel, CloseAndCancel
<1>7. ASSUME NEW s \in Streams, GetReader(s) \/ Closed(s) \/ ReleaseLock(s) \/ DropReader(s)
      PROVE  ClosedPromise'
  BY <1>0, <1>7 DEF GetReader, Closed, ReleaseLock, DropReader, stream
<1>8. ASSUME NEW s \in Branches, Drop(s) PROVE ClosedPromise'
  BY <1>0, <1>8 DEF Drop, Streams, stream
<1>9. CASE UNCHANGED vars
  BY <1>9, <1>s DEF vars, stream, readers
<1> QED BY <1>1, <1>2, <1>3, <1>4, <1>5, <1>6, <1>7, <1>8, <1>9 DEF Next

\* The promise `closed` of a stream's reader is pending exactly while it is readable.
THEOREM ClosedIsSettled == Spec => []ClosedPromise
<1>1. Init => ClosedPromise
  BY DEF Init, ClosedPromise
<1> QED BY <1>1, StreamTypes, ClosedStep, PTL DEF Spec

\* A stream's state and its reader's promise move together.
THEOREM StreamsAreSound == Spec => []StreamSound
BY StreamTypes, ClosedIsSettled, PTL DEF StreamSound

-----------------------------------------------------------------------------
(* Every block once. What is on its way is a segment of the source's       *)
(* blocks; each step moves a boundary between two segments.                *)

\* The bringing hops of q bring only blocks of the segment, every one of them, and in order.
Only(q, f, S, lo, hi) ==
  \A i \in DOMAIN q : Brings(q[i], f, S) => \E n \in (lo + 1)..hi : q[i].answer = Block(n)
Every(q, f, S, lo, hi) ==
  \A n \in (lo + 1)..hi : \E i \in DOMAIN q : Brings(q[i], f, S) /\ q[i].answer = Block(n)
Rising(q, f, S) ==
  \A i, j \in DOMAIN q : Brings(q[i], f, S) /\ Brings(q[j], f, S) /\ i < j
    => q[i].answer.n < q[j].answer.n

\* Such a segment, read hop by hop.
LEMMA CarryMeans ==
  ASSUME NEW q, NEW f, NEW S, NEW lo \in Nat, NEW hi \in Nat
  PROVE  Carry(q, f, S, lo, hi) <=>
           lo <= hi /\ Only(q, f, S, lo, hi) /\ Every(q, f, S, lo, hi) /\ Rising(q, f, S)
<1> DEFINE way == {i \in DOMAIN q : Brings(q[i], f, S)}
           seg == (lo + 1)..hi
<1>1. \A i : i \in way <=> i \in DOMAIN q /\ Brings(q[i], f, S)
  OBVIOUS
<1>2. {q[i].answer : i \in way} = {Block(n) : n \in seg} <=>
        /\ \A i \in way : \E n \in seg : q[i].answer = Block(n)
        /\ \A n \in seg : \E i \in way : q[i].answer = Block(n)
  <2> HIDE DEF way, seg
  <2>1. ASSUME {q[i].answer : i \in way} = {Block(n) : n \in seg}
        PROVE  /\ \A i \in way : \E n \in seg : q[i].answer = Block(n)
               /\ \A n \in seg : \E i \in way : q[i].answer = Block(n)
    <3>1. ASSUME NEW i \in way PROVE \E n \in seg : q[i].answer = Block(n)
      <4>1. q[i].answer \in {Block(n) : n \in seg}
        BY <2>1
      <4> QED BY <4>1
    <3>2. ASSUME NEW n \in seg PROVE \E i \in way : q[i].answer = Block(n)
      <4>1. Block(n) \in {q[i].answer : i \in way}
        BY <2>1
      <4> QED BY <4>1
    <3> QED BY <3>1, <3>2
  <2>2. ASSUME /\ \A i \in way : \E n \in seg : q[i].answer = Block(n)
               /\ \A n \in seg : \E i \in way : q[i].answer = Block(n)
        PROVE  {q[i].answer : i \in way} = {Block(n) : n \in seg}
    BY <2>2
  <2> QED BY <2>1, <2>2
<1>3. Carry(q, f, S, lo, hi) <=>
        /\ lo <= hi
        /\ {q[i].answer : i \in way} = {Block(n) : n \in seg}
        /\ \A i, j \in way : i < j => q[i].answer.n < q[j].answer.n
  BY DEF Carry
<1> HIDE DEF way
<1>4. Only(q, f, S, lo, hi) <=> \A i \in way : \E n \in seg : q[i].answer = Block(n)
  BY <1>1 DEF Only
<1>5. Every(q, f, S, lo, hi) <=> \A n \in seg : \E i \in way : q[i].answer = Block(n)
  BY <1>1 DEF Every
<1>6. Rising(q, f, S) <=> \A i, j \in way : i < j => q[i].answer.n < q[j].answer.n
  BY <1>1, Zenon DEF Rising
<1> QED BY <1>2, <1>3, <1>4, <1>5, <1>6, Zenon

\* What a queue has when a hop was queued behind it.
LEMMA AppendMeans ==
  ASSUME NEW q \in Seq(Hops), NEW h \in Hops
  PROVE  /\ Append(q, h) \in Seq(Hops)
         /\ \A i \in DOMAIN q : /\ i \in DOMAIN Append(q, h) /\ Append(q, h)[i] = q[i]
                                /\ i \in Nat /\ i < Len(q) + 1
         /\ Len(q) + 1 \in DOMAIN Append(q, h) /\ Append(q, h)[Len(q) + 1] = h
         /\ \A i \in DOMAIN Append(q, h) : i \in DOMAIN q \/ i = Len(q) + 1
         /\ Len(q) \in Nat
<1> DEFINE p == Append(q, h)
<1>1. p \in Seq(Hops) /\ Len(p) = Len(q) + 1 /\ p[Len(q) + 1] = h
      /\ \A i \in 1..Len(q) : p[i] = q[i]
  OBVIOUS
<1>2. DOMAIN q = 1..Len(q) /\ DOMAIN p = 1..(Len(q) + 1) /\ Len(q) \in Nat
  BY <1>1
<1> HIDE DEF p
<1>3. \A i \in 1..(Len(q) + 1) : i \in 1..Len(q) \/ i = Len(q) + 1
  BY <1>2
<1>4. \A i \in 1..Len(q) : i \in 1..(Len(q) + 1) /\ i \in Nat /\ i < Len(q) + 1
  BY <1>2
<1>5. Len(q) + 1 \in 1..(Len(q) + 1)
  BY <1>2
<1> QED BY <1>1, <1>2, <1>3, <1>4, <1>5 DEF p

\* What a queue has when its first hop has run.
LEMMA TailMeans ==
  ASSUME NEW q \in Seq(Hops), q # <<>>
  PROVE  /\ Tail(q) \in Seq(Hops) /\ Head(q) = q[1] /\ 1 \in DOMAIN q
         /\ \A i \in DOMAIN Tail(q) : /\ i \in Nat \ {0} /\ i + 1 \in DOMAIN q
                                      /\ Tail(q)[i] = q[i + 1]
         /\ \A i \in DOMAIN q : /\ i \in Nat \ {0}
                                /\ i # 1 => i - 1 \in DOMAIN Tail(q) /\ Tail(q)[i - 1] = q[i]
OBVIOUS

\* A hop that brings something else changes nothing.
LEMMA CarryOther ==
  ASSUME NEW q \in Seq(Hops), NEW h \in Hops, NEW f, NEW S, NEW lo \in Nat, NEW hi \in Nat,
         ~Brings(h, f, S), Carry(q, f, S, lo, hi)
  PROVE  Carry(Append(q, h), f, S, lo, hi)
<1> DEFINE p == Append(q, h)
<1>0. lo <= hi /\ Only(q, f, S, lo, hi) /\ Every(q, f, S, lo, hi) /\ Rising(q, f, S)
  BY CarryMeans
<1>1. \A i \in DOMAIN q : i \in DOMAIN p /\ p[i] = q[i]
  BY AppendMeans
<1>2. \A i \in DOMAIN p : Brings(p[i], f, S) => i \in DOMAIN q /\ p[i] = q[i]
  BY AppendMeans
<1> HIDE DEF p
<1>3. Only(p, f, S, lo, hi)
  BY <1>0, <1>2, Zenon DEF Only
<1>4. Every(p, f, S, lo, hi)
  BY <1>0, <1>1, Zenon DEF Every
<1>5. Rising(p, f, S)
  BY <1>0, <1>2, Zenon DEF Rising
<1>6. Carry(p, f, S, lo, hi)
  BY <1>0, <1>3, <1>4, <1>5, CarryMeans
<1> QED BY <1>6 DEF p

\* The next block extends the segment.
LEMMA CarryMore ==
  ASSUME NEW q \in Seq(Hops), NEW h \in Hops, NEW f, NEW S, NEW lo \in Nat, NEW hi \in Nat,
         Brings(h, f, S), h.answer = Block(hi + 1), Carry(q, f, S, lo, hi)
  PROVE  Carry(Append(q, h), f, S, lo, hi + 1)
<1> DEFINE p == Append(q, h)
           l == Len(q) + 1
<1>0. lo <= hi /\ Only(q, f, S, lo, hi) /\ Every(q, f, S, lo, hi) /\ Rising(q, f, S)
  BY CarryMeans
<1>1. \A i \in DOMAIN q : i \in DOMAIN p /\ p[i] = q[i] /\ i \in Nat /\ i < l
  BY AppendMeans
<1>2. \A i \in DOMAIN p : i \in DOMAIN q \/ i = l
  BY AppendMeans
<1>3. l \in DOMAIN p /\ p[l] = h /\ l \in Nat
  BY AppendMeans
<1> HIDE DEF p, l
<1>4. ASSUME NEW i \in DOMAIN p, Brings(p[i], f, S)
      PROVE  \E n \in (lo + 1)..(hi + 1) : p[i].answer = Block(n)
  <2>1. CASE i \in DOMAIN q
    <3>1. PICK n \in (lo + 1)..hi : q[i].answer = Block(n)
      BY <1>0, <1>1, <1>4, <2>1 DEF Only
    <3> QED BY <1>1, <2>1, <3>1
  <2>2. CASE i = l
    <3>1. hi + 1 \in (lo + 1)..(hi + 1)
      BY <1>0
    <3> QED BY <1>3, <2>2, <3>1
  <2> QED BY <1>2, <2>1, <2>2
<1>5. ASSUME NEW n \in (lo + 1)..(hi + 1)
      PROVE  \E i \in DOMAIN p : Brings(p[i], f, S) /\ p[i].answer = Block(n)
  <2>1. CASE n \in (lo + 1)..hi
    <3>1. PICK i \in DOMAIN q : Brings(q[i], f, S) /\ q[i].answer = Block(n)
      BY <1>0, <2>1 DEF Every
    <3> QED BY <1>1, <3>1
  <2>2. CASE n = hi + 1
    BY <1>3, <2>2
  <2> QED BY <2>1, <2>2
<1>6. ASSUME NEW i \in DOMAIN p, NEW j \in DOMAIN p, Brings(p[i], f, S), Brings(p[j], f, S), i < j
      PROVE  p[i].answer.n < p[j].answer.n
  <2>1. i \in DOMAIN q
    BY <1>1, <1>2, <1>3, <1>6
  <2>2. CASE j \in DOMAIN q
    BY <1>0, <1>1, <1>6, <2>1, <2>2 DEF Rising
  <2>3. CASE j = l
    <3>1. PICK n \in (lo + 1)..hi : q[i].answer = Block(n)
      BY <1>0, <1>1, <1>6, <2>1 DEF Only
    <3>2. p[i].answer.n = n /\ p[j].answer.n = hi + 1
      BY <1>1, <1>3, <2>1, <2>3, <3>1 DEF Block
    <3> QED BY <3>2
  <2> QED BY <1>2, <2>2, <2>3
<1>7. Only(p, f, S, lo, hi + 1) /\ Every(p, f, S, lo, hi + 1) /\ Rising(p, f, S)
  BY <1>4, <1>5, <1>6 DEF Only, Every, Rising
<1>8. lo <= hi + 1 /\ hi + 1 \in Nat
  BY <1>0
<1>9. Carry(p, f, S, lo, hi + 1)
  BY <1>7, <1>8, CarryMeans
<1> QED BY <1>9 DEF p

\* Taking a hop that brings something else changes nothing.
LEMMA CarryTail ==
  ASSUME NEW q \in Seq(Hops), q # <<>>, NEW f, NEW S, NEW lo \in Nat, NEW hi \in Nat,
         ~Brings(Head(q), f, S), Carry(q, f, S, lo, hi)
  PROVE  Carry(Tail(q), f, S, lo, hi)
<1> DEFINE p == Tail(q)
<1>0. lo <= hi /\ Only(q, f, S, lo, hi) /\ Every(q, f, S, lo, hi) /\ Rising(q, f, S)
  BY CarryMeans
<1>1. \A i \in DOMAIN p : i \in Nat /\ i + 1 \in DOMAIN q /\ p[i] = q[i + 1]
  BY TailMeans
<1>2. \A i \in DOMAIN q : Brings(q[i], f, S) => i - 1 \in DOMAIN p /\ p[i - 1] = q[i]
  BY TailMeans
<1> HIDE DEF p
<1>3. Only(p, f, S, lo, hi)
  BY <1>0, <1>1, Zenon DEF Only
<1>4. Every(p, f, S, lo, hi)
  BY <1>0, <1>2, Zenon DEF Every
<1>5. Rising(p, f, S)
  <2>1. \A i, j \in DOMAIN p : i < j => i + 1 < j + 1
    BY <1>1
  <2> QED BY <1>0, <1>1, <2>1, Zenon DEF Rising
<1>6. Carry(p, f, S, lo, hi)
  BY <1>0, <1>3, <1>4, <1>5, CarryMeans
<1> QED BY <1>6 DEF p

\* The first hop of a segment brings its first block, and what is left starts behind it.
LEMMA CarryHead ==
  ASSUME NEW q \in Seq(Hops), q # <<>>, NEW f, NEW S, NEW lo \in Nat, NEW hi \in Nat,
         Brings(Head(q), f, S), Carry(q, f, S, lo, hi)
  PROVE  lo < hi /\ Head(q).answer = Block(lo + 1) /\ Carry(Tail(q), f, S, lo + 1, hi)
<1> DEFINE p == Tail(q)
<1>0. lo <= hi /\ Only(q, f, S, lo, hi) /\ Every(q, f, S, lo, hi) /\ Rising(q, f, S)
  BY CarryMeans
<1>1. Head(q) = q[1] /\ 1 \in DOMAIN q
  BY TailMeans
<1>2. \A i \in DOMAIN p : i \in Nat \ {0} /\ i + 1 \in DOMAIN q /\ p[i] = q[i + 1]
  BY TailMeans
<1>3. \A i \in DOMAIN q : /\ i \in Nat \ {0}
                          /\ i # 1 => i - 1 \in DOMAIN p /\ p[i - 1] = q[i]
  BY TailMeans
<1>b. \A x : Block(x).n = x
  BY DEF Block
<1> HIDE DEF p
<1>4. PICK k \in (lo + 1)..hi : q[1].answer = Block(k)
  BY <1>0, <1>1 DEF Only
<1>n. lo + 1 \in (lo + 1)..hi /\ lo < hi
  BY <1>4
<1>5. k = lo + 1
  <2>1. PICK i \in DOMAIN q : Brings(q[i], f, S) /\ q[i].answer = Block(lo + 1)
    BY <1>0, <1>n, Zenon DEF Every
  <2>2. CASE i = 1
    <3>1. Block(k).n = Block(lo + 1).n
      BY <1>4, <2>1, <2>2
    <3> QED BY <1>b, <3>1
  <2>3. CASE i # 1
    <3>1. 1 < i
      BY <1>3, <2>3
    <3>2. q[1].answer.n < q[i].answer.n
      BY <1>0, <1>1, <2>1, <3>1, Zenon DEF Rising
    <3>3. q[1].answer.n = k /\ q[i].answer.n = lo + 1
      BY <1>4, <1>b, <2>1
    <3> QED BY <3>2, <3>3
  <2> QED BY <2>2, <2>3
<1>6. ASSUME NEW i \in DOMAIN p, Brings(p[i], f, S)
      PROVE  \E n \in (lo + 2)..hi : p[i].answer = Block(n)
  <2>0. i + 1 \in DOMAIN q /\ p[i] = q[i + 1] /\ 1 < i + 1
    BY <1>2
  <2>1. PICK n \in (lo + 1)..hi : q[i + 1].answer = Block(n)
    BY <1>0, <1>6, <2>0, Zenon DEF Only
  <2>3. q[1].answer.n < q[i + 1].answer.n
    BY <1>0, <1>1, <1>6, <2>0, Zenon DEF Rising
  <2>4. q[1].answer.n = k /\ q[i + 1].answer.n = n
    BY <1>4, <1>b, <2>1
  <2>5. n \in (lo + 2)..hi
    BY <1>5, <2>3, <2>4
  <2> QED BY <2>0, <2>1, <2>5
<1>7. ASSUME NEW n \in (lo + 2)..hi
      PROVE  \E i \in DOMAIN p : Brings(p[i], f, S) /\ p[i].answer = Block(n)
  <2>0. n \in (lo + 1)..hi
    OBVIOUS
  <2>1. PICK i \in DOMAIN q : Brings(q[i], f, S) /\ q[i].answer = Block(n)
    BY <1>0, <2>0, Zenon DEF Every
  <2>2. i # 1
    <3>1. SUFFICES ASSUME i = 1 PROVE FALSE
      OBVIOUS
    <3>2. Block(n).n = Block(k).n
      BY <1>4, <2>1, <3>1
    <3> QED BY <1>5, <1>b, <3>2
  <2>3. i - 1 \in DOMAIN p /\ p[i - 1] = q[i]
    BY <1>3, <2>2
  <2> QED BY <2>1, <2>3
<1>8. Rising(p, f, S)
  <2>1. \A i, j \in DOMAIN p : i < j => i + 1 < j + 1
    BY <1>2
  <2> QED BY <1>0, <1>2, <2>1, Zenon DEF Rising
<1>9. (lo + 1) + 1 = lo + 2 /\ lo + 1 \in Nat /\ lo + 1 <= hi
  BY <1>4
<1>10. Only(p, f, S, lo + 1, hi) /\ Every(p, f, S, lo + 1, hi)
  BY <1>6, <1>7, <1>9 DEF Only, Every
<1>11. Carry(p, f, S, lo + 1, hi)
  BY <1>8, <1>9, <1>10, CarryMeans
<1> QED BY <1>1, <1>4, <1>5, <1>n, <1>11 DEF p

\* With nothing on its way the segment is empty.
LEMMA CarryNone ==
  ASSUME NEW q \in Seq(Hops), NEW f, NEW S, NEW lo \in Nat, NEW hi \in Nat,
         \A i \in DOMAIN q : ~Brings(q[i], f, S)
  PROVE  Carry(q, f, S, lo, hi) <=> lo = hi
<1>1. Every(q, f, S, lo, hi) => ~(lo < hi)
  <2>1. lo < hi => lo + 1 \in (lo + 1)..hi
    OBVIOUS
  <2> QED BY <2>1 DEF Every
<1>2. lo = hi => (lo + 1)..hi = {} /\ lo <= hi
  OBVIOUS
<1>3. lo <= hi /\ ~(lo < hi) => lo = hi
  OBVIOUS
<1>4. Only(q, f, S, lo, hi) /\ Rising(q, f, S)
  BY DEF Only, Rising
<1>5. lo = hi => Every(q, f, S, lo, hi)
  BY <1>2 DEF Every
<1> QED BY <1>1, <1>2, <1>3, <1>4, <1>5, CarryMeans

\* A sequence of blocks loses its first one.
LEMMA HoldsTail ==
  ASSUME NEW q \in Seq(Answers), NEW lo \in Nat, Holds(q, lo), q # <<>>
  PROVE  Head(q) = Block(lo + 1) /\ Holds(Tail(q), lo + 1) /\ Len(Tail(q)) = Len(q) - 1
<1>1. Head(q) = q[1] /\ 1 \in DOMAIN q /\ Len(Tail(q)) = Len(q) - 1
  OBVIOUS
<1>2. \A i \in DOMAIN Tail(q) : i + 1 \in DOMAIN q /\ Tail(q)[i] = q[i + 1] /\ i \in Nat
  OBVIOUS
<1>3. \A i \in Nat : lo + (i + 1) = (lo + 1) + i
  OBVIOUS
<1>4. Holds(Tail(q), lo + 1)
  BY <1>2, <1>3 DEF Holds
<1> QED BY <1>1, <1>4 DEF Holds

\* A sequence of blocks gets the next one.
LEMMA HoldsMore ==
  ASSUME NEW q \in Seq(Answers), NEW a \in Answers, NEW lo \in Nat, Holds(q, lo),
         a = Block(lo + Len(q) + 1)
  PROVE  Holds(Append(q, a), lo) /\ Len(Append(q, a)) = Len(q) + 1
<1> DEFINE p == Append(q, a)
<1>1. Len(p) = Len(q) + 1 /\ p[Len(q) + 1] = a /\ \A i \in 1..Len(q) : p[i] = q[i]
  OBVIOUS
<1>2. DOMAIN q = 1..Len(q) /\ DOMAIN p = 1..(Len(q) + 1) /\ Len(q) \in Nat
  OBVIOUS
<1>3. \A i \in 1..(Len(q) + 1) : i \in 1..Len(q) \/ i = Len(q) + 1
  BY <1>2
<1> HIDE DEF p
<1>4. lo + (Len(q) + 1) = lo + Len(q) + 1
  BY <1>2
<1>5. ASSUME NEW i \in DOMAIN p PROVE p[i] = Block(lo + i)
  <2>1. CASE i \in 1..Len(q)
    BY <1>1, <1>2, <2>1 DEF Holds
  <2>2. CASE i = Len(q) + 1
    BY <1>1, <1>4, <2>2
  <2> QED BY <1>2, <1>3, <2>1, <2>2
<1>6. Holds(p, lo)
  BY <1>5 DEF Holds
<1> QED BY <1>1, <1>6 DEF p

\* Branch s, whose stream has lo blocks, is on its way to them: the hops q bring it those up
\* to m, it holds some more in b, and, unless it is closed (c), the rest of the g blocks that
\* the source has given are on their way to the tee.
Split(s, q, b, lo, c, g) ==
  \E m \in 0..g : /\ Carry(q, "branch", {s}, lo, m) /\ Holds(b, m)
                  /\ IF c THEN m + Len(b) <= g
                     ELSE Carry(q, "source", Branches, m + Len(b), g)

\* A branch that is closed no longer waits for the tee, nor for what it dropped.
LEMMA SplitClosed ==
  ASSUME NEW s, NEW q \in Seq(Hops), NEW b \in Seq(Answers), NEW lo \in Nat, NEW c \in BOOLEAN,
         NEW g \in Nat, Split(s, q, b, lo, c, g)
  PROVE  Split(s, q, b, lo, TRUE, g) /\ Split(s, q, <<>>, lo, TRUE, g)
<1>1. PICK m \in 0..g : /\ Carry(q, "branch", {s}, lo, m) /\ Holds(b, m)
                        /\ IF c THEN m + Len(b) <= g
                           ELSE Carry(q, "source", Branches, m + Len(b), g)
  BY DEF Split
<1>2. m + Len(b) \in Nat /\ Len(b) \in Nat
  OBVIOUS
<1>3. m + Len(b) <= g
  BY <1>1, <1>2, CarryMeans
<1>4. Holds(<<>>, m) /\ m + Len(<<>>) <= g
  BY DEF Holds
<1>5. Split(s, q, b, lo, TRUE, g)
  BY <1>1, <1>3, Zenon DEF Split
<1>6. Split(s, q, <<>>, lo, TRUE, g)
  BY <1>1, <1>4, Zenon DEF Split
<1> QED BY <1>5, <1>6

\* A hop that brings no block to the branch or the tee may be queued.
LEMMA SplitQueues ==
  ASSUME NEW s \in Branches, NEW q \in Seq(Hops), NEW b \in Seq(Answers), NEW lo \in Nat,
         NEW c \in BOOLEAN, NEW g \in Nat, Split(s, q, b, lo, c, g),
         NEW h \in Hops, ~Brings(h, "branch", {s}), ~Brings(h, "source", Branches)
  PROVE  Split(s, Append(q, h), b, lo, c, g)
<1>1. PICK m \in 0..g : /\ Carry(q, "branch", {s}, lo, m) /\ Holds(b, m)
                        /\ IF c THEN m + Len(b) <= g
                           ELSE Carry(q, "source", Branches, m + Len(b), g)
  BY DEF Split
<1>2. m \in Nat /\ m + Len(b) \in Nat
  OBVIOUS
<1>3. Carry(Append(q, h), "branch", {s}, lo, m)
  BY <1>1, <1>2, CarryOther
<1>4. ~c => Carry(Append(q, h), "source", Branches, m + Len(b), g)
  BY <1>1, <1>2, CarryOther
<1> QED BY <1>1, <1>3, <1>4, Zenon DEF Split

\* A hop that brings no block to the branch or the tee may run.
LEMMA SplitServes ==
  ASSUME NEW s \in Branches, NEW q \in Seq(Hops), NEW b \in Seq(Answers), NEW lo \in Nat,
         NEW c \in BOOLEAN, NEW g \in Nat, Split(s, q, b, lo, c, g),
         q # <<>>, ~Brings(Head(q), "branch", {s}), ~Brings(Head(q), "source", Branches)
  PROVE  Split(s, Tail(q), b, lo, c, g)
<1>1. PICK m \in 0..g : /\ Carry(q, "branch", {s}, lo, m) /\ Holds(b, m)
                        /\ IF c THEN m + Len(b) <= g
                           ELSE Carry(q, "source", Branches, m + Len(b), g)
  BY DEF Split
<1>2. m \in Nat /\ m + Len(b) \in Nat
  OBVIOUS
<1>3. Carry(Tail(q), "branch", {s}, lo, m)
  BY <1>1, <1>2, CarryTail
<1>4. ~c => Carry(Tail(q), "source", Branches, m + Len(b), g)
  BY <1>1, <1>2, CarryTail
<1> QED BY <1>1, <1>3, <1>4, Zenon DEF Split

\* The source's next block is on its way to the tee.
LEMMA SplitGiven ==
  ASSUME NEW s \in Branches, NEW q \in Seq(Hops), NEW b \in Seq(Answers), NEW lo \in Nat,
         NEW c \in BOOLEAN, NEW g \in Nat, Split(s, q, b, lo, c, g), NEW h \in Hops,
         Brings(h, "source", Branches), h.answer = Block(g + 1)
  PROVE  Split(s, Append(q, h), b, lo, c, g + 1)
<1>1. PICK m \in 0..g : /\ Carry(q, "branch", {s}, lo, m) /\ Holds(b, m)
                        /\ IF c THEN m + Len(b) <= g
                           ELSE Carry(q, "source", Branches, m + Len(b), g)
  BY DEF Split
<1>2. m \in Nat /\ m + Len(b) \in Nat /\ m \in 0..(g + 1)
  OBVIOUS
<1>3. ~Brings(h, "branch", {s})
  BY DEF Brings
<1>4. Carry(Append(q, h), "branch", {s}, lo, m)
  BY <1>1, <1>2, <1>3, CarryOther
<1>5. ~c => Carry(Append(q, h), "source", Branches, m + Len(b), g + 1)
  BY <1>1, <1>2, CarryMore
<1>6. c => m + Len(b) <= g + 1
  BY <1>1, <1>2
<1> QED BY <1>1, <1>2, <1>4, <1>5, <1>6, Zenon DEF Split

\* The tee puts a block into the branch, if it is open.
LEMMA SplitArrives ==
  ASSUME NEW s \in Branches, NEW q \in Seq(Hops), NEW b \in Seq(Answers), NEW lo \in Nat,
         NEW c \in BOOLEAN, NEW g \in Nat, Split(s, q, b, lo, c, g), q # <<>>,
         Brings(Head(q), "source", Branches)
  PROVE  Split(s, Tail(q), IF ~c THEN Append(b, Head(q).answer) ELSE b, lo, c, g)
<1>1. PICK m \in 0..g : /\ Carry(q, "branch", {s}, lo, m) /\ Holds(b, m)
                        /\ IF c THEN m + Len(b) <= g
                           ELSE Carry(q, "source", Branches, m + Len(b), g)
  BY DEF Split
<1>2. m \in Nat /\ m + Len(b) \in Nat /\ Len(b) \in Nat
  OBVIOUS
<1>3. ~Brings(Head(q), "branch", {s})
  BY DEF Brings
<1>4. Carry(Tail(q), "branch", {s}, lo, m)
  BY <1>1, <1>2, <1>3, CarryTail
<1>5. CASE c
  BY <1>1, <1>4, <1>5, Zenon DEF Split
<1>6. CASE ~c
  <2> DEFINE d == Append(b, Head(q).answer)
  <2>1. /\ Head(q).answer = Block(m + Len(b) + 1)
        /\ Carry(Tail(q), "source", Branches, m + Len(b) + 1, g)
    BY <1>1, <1>2, <1>6, CarryHead
  <2>2. Head(q) \in Hops
    OBVIOUS
  <2>3. Head(q).answer \in Answers
    BY <2>2 DEF Hops
  <2>4. Holds(d, m) /\ Len(d) = Len(b) + 1
    BY <1>1, <1>2, <2>1, <2>3, HoldsMore
  <2>5. m + Len(d) = m + Len(b) + 1
    BY <1>2, <2>4
  <2>6. Carry(Tail(q), "source", Branches, m + Len(d), g)
    BY <2>1, <2>5
  <2> HIDE DEF d
  <2>7. Split(s, Tail(q), d, lo, c, g)
    BY <1>1, <1>4, <1>6, <2>4, <2>6, Zenon DEF Split
  <2> QED BY <1>6, <2>7 DEF d
<1> QED BY <1>5, <1>6

\* The branch answers a read of its stream with its first block.
LEMMA SplitAnswers ==
  ASSUME NEW s \in Branches, NEW q \in Seq(Hops), NEW b \in Seq(Answers), NEW lo \in Nat,
         NEW c \in BOOLEAN, NEW g \in Nat, Split(s, q, b, lo, c, g), b # <<>>,
         NEW h \in Hops, h.from = "branch", StreamOf[h.read] = s, h.answer = Head(b)
  PROVE  Split(s, Append(q, h), Tail(b), lo, c, g)
<1>1. PICK m \in 0..g : /\ Carry(q, "branch", {s}, lo, m) /\ Holds(b, m)
                        /\ IF c THEN m + Len(b) <= g
                           ELSE Carry(q, "source", Branches, m + Len(b), g)
  BY DEF Split
<1>2. m \in Nat /\ m + Len(b) \in Nat /\ Len(b) \in Nat /\ Len(b) > 0
  OBVIOUS
<1>3. /\ Head(b) = Block(m + 1) /\ Holds(Tail(b), m + 1) /\ Len(Tail(b)) = Len(b) - 1
  BY <1>1, <1>2, HoldsTail
<1>4. Brings(h, "branch", {s}) /\ ~Brings(h, "source", Branches)
  BY <1>3 DEF Brings, Block
<1>5. Carry(Append(q, h), "branch", {s}, lo, m + 1)
  BY <1>1, <1>2, <1>3, <1>4, CarryMore
<1>6. (m + 1) + Len(Tail(b)) = m + Len(b)
  BY <1>2, <1>3
<1>7. ~c => Carry(Append(q, h), "source", Branches, m + Len(b), g)
  BY <1>1, <1>2, <1>4, CarryOther
<1>8. m + Len(b) <= g
  BY <1>1, <1>2, CarryMeans
<1>9. m + 1 \in 0..g
  BY <1>2, <1>8
<1>10. IF c THEN (m + 1) + Len(Tail(b)) <= g
       ELSE Carry(Append(q, h), "source", Branches, (m + 1) + Len(Tail(b)), g)
  BY <1>6, <1>7, <1>8
<1> QED BY <1>3, <1>5, <1>9, <1>10, Zenon DEF Split

\* The stream of the branch takes the block.
LEMMA SplitTaken ==
  ASSUME NEW s \in Branches, NEW q \in Seq(Hops), NEW b \in Seq(Answers), NEW lo \in Nat,
         NEW c \in BOOLEAN, NEW g \in Nat, Split(s, q, b, lo, c, g), q # <<>>,
         Brings(Head(q), "branch", {s})
  PROVE  lo < g /\ Head(q).answer = Block(lo + 1) /\ Split(s, Tail(q), b, lo + 1, c, g)
<1>1. PICK m \in 0..g : /\ Carry(q, "branch", {s}, lo, m) /\ Holds(b, m)
                        /\ IF c THEN m + Len(b) <= g
                           ELSE Carry(q, "source", Branches, m + Len(b), g)
  BY DEF Split
<1>2. m \in Nat /\ m + Len(b) \in Nat
  OBVIOUS
<1>3. ~Brings(Head(q), "source", Branches)
  BY DEF Brings
<1>4. lo < m /\ Head(q).answer = Block(lo + 1) /\ Carry(Tail(q), "branch", {s}, lo + 1, m)
  BY <1>1, <1>2, CarryHead
<1>5. ~c => Carry(Tail(q), "source", Branches, m + Len(b), g)
  BY <1>1, <1>2, <1>3, CarryTail
<1>6. Split(s, Tail(q), b, lo + 1, c, g)
  BY <1>1, <1>4, <1>5, Zenon DEF Split
<1> QED BY <1>4, <1>6

-----------------------------------------------------------------------------
\* The hop i of q is the last that brings a block from f to a stream of S.
LastHop(q, i, f, S) == \A j \in DOMAIN q : Brings(q[j], f, S) => j < i

\* The source ends behind its last block, a branch behind its own unless it was closed, and
\* the tee takes note of the end when it has all blocks.
SourceEnds(q, g) ==
  \A i \in DOMAIN q : q[i].from = "source" /\ q[i].answer.kind = "eof"
    => g = Blocks /\ LastHop(q, i, "source", Streams)
BranchEnds(q, d, b, c) ==
  \A i \in DOMAIN q : q[i].from = "branch" /\ q[i].answer.kind = "eof"
    => LET s == StreamOf[q[i].read]
       IN c[s] = TRUE \/ (d = TRUE /\ b[s] = <<>> /\ LastHop(q, i, "branch", {s}))
TeeEnds(q, d, g) ==
  d = TRUE => g = Blocks /\ \A j \in DOMAIN q : ~Brings(q[j], "source", Branches)

\* Taking a hop leaves the ends where they are.
LEMMA EndsTail ==
  ASSUME NEW q \in Seq(Hops), q # <<>>, NEW g, NEW d, NEW b, NEW c
  PROVE  /\ SourceEnds(q, g) => SourceEnds(Tail(q), g)
         /\ BranchEnds(q, d, b, c) => BranchEnds(Tail(q), d, b, c)
         /\ TeeEnds(q, d, g) => TeeEnds(Tail(q), d, g)
<1> DEFINE p == Tail(q)
<1>1. \A i \in DOMAIN p : i \in Nat \ {0} /\ i + 1 \in DOMAIN q /\ p[i] = q[i + 1]
  BY TailMeans
<1> HIDE DEF p
<1>2. \A i, j \in DOMAIN p : j + 1 < i + 1 => j < i
  BY <1>1
<1>3. ASSUME NEW i \in DOMAIN p, NEW f, NEW S, LastHop(q, i + 1, f, S)
      PROVE  LastHop(p, i, f, S)
  BY <1>1, <1>2, <1>3, Zenon DEF LastHop
<1>4. SourceEnds(q, g) => SourceEnds(p, g)
  BY <1>1, <1>3, Zenon DEF SourceEnds
<1>5. BranchEnds(q, d, b, c) => BranchEnds(p, d, b, c)
  BY <1>1, <1>3, Zenon DEF BranchEnds
<1>6. TeeEnds(q, d, g) => TeeEnds(p, d, g)
  BY <1>1, Zenon DEF TeeEnds
<1> QED BY <1>4, <1>5, <1>6 DEF p

\* A hop that brings a block may follow where no end came before it; what brings none, or an
\* end in its place, may always follow.
LEMMA EndsAppend ==
  ASSUME NEW q \in Seq(Hops), NEW h \in Hops, NEW g, NEW d, NEW b, NEW c
  PROVE  /\ /\ SourceEnds(q, g)
            /\ h.from = "source" => h.answer.kind # "block" /\ (h.answer.kind = "eof" => g = Blocks)
            => SourceEnds(Append(q, h), g)
         /\ /\ BranchEnds(q, d, b, c)
            /\ h.from = "branch" =>
                 LET s == StreamOf[h.read]
                 IN /\ h.answer.kind = "block" => d # TRUE \/ b[s] # <<>>
                    /\ h.answer.kind = "eof" => c[s] = TRUE \/ (d = TRUE /\ b[s] = <<>>)
            => BranchEnds(Append(q, h), d, b, c)
         /\ TeeEnds(q, d, g) /\ ~Brings(h, "source", Branches) => TeeEnds(Append(q, h), d, g)
<1> DEFINE p == Append(q, h)
           l == Len(q) + 1
<1>1. \A i \in DOMAIN q : i \in DOMAIN p /\ p[i] = q[i] /\ i < l
  BY AppendMeans
<1>2. \A i \in DOMAIN p : i \in DOMAIN q \/ i = l
  BY AppendMeans
<1>3. l \in DOMAIN p /\ p[l] = h
  BY AppendMeans
<1> HIDE DEF p, l
<1>4. ASSUME NEW f, NEW S PROVE h.answer.kind # "block" => LastHop(p, l, f, S)
  BY <1>1, <1>2, <1>3, Zenon DEF LastHop, Brings
<1>5. ASSUME NEW i \in DOMAIN q, NEW f, NEW S, LastHop(q, i, f, S), ~Brings(h, f, S)
      PROVE  LastHop(p, i, f, S)
  BY <1>1, <1>2, <1>3, <1>5, Zenon DEF LastHop
<1>6. ASSUME SourceEnds(q, g),
             h.from = "source" => h.answer.kind # "block" /\ (h.answer.kind = "eof" => g = Blocks)
      PROVE  SourceEnds(p, g)
  <2>1. SUFFICES ASSUME NEW i \in DOMAIN p, p[i].from = "source", p[i].answer.kind = "eof"
                 PROVE  g = Blocks /\ LastHop(p, i, "source", Streams)
    BY Zenon DEF SourceEnds
  <2>2. ~Brings(h, "source", Streams)
    BY <1>6 DEF Brings
  <2>3. CASE i \in DOMAIN q
    BY <1>1, <1>5, <1>6, <2>1, <2>2, <2>3, Zenon DEF SourceEnds
  <2>4. CASE i = l
    <3>1. h.answer.kind # "block"
      BY <1>3, <1>6, <2>1, <2>4
    <3> QED BY <1>3, <1>4, <1>6, <2>1, <2>4, <3>1, Zenon
  <2> QED BY <1>2, <2>3, <2>4
<1>7. ASSUME BranchEnds(q, d, b, c),
             h.from = "branch" =>
               LET s == StreamOf[h.read]
               IN /\ h.answer.kind = "block" => d # TRUE \/ b[s] # <<>>
                  /\ h.answer.kind = "eof" => c[s] = TRUE \/ (d = TRUE /\ b[s] = <<>>)
      PROVE  BranchEnds(p, d, b, c)
  <2>1. SUFFICES ASSUME NEW i \in DOMAIN p, p[i].from = "branch", p[i].answer.kind = "eof",
                        c[StreamOf[p[i].read]] # TRUE
                 PROVE  /\ d = TRUE /\ b[StreamOf[p[i].read]] = <<>>
                        /\ LastHop(p, i, "branch", {StreamOf[p[i].read]})
    BY Zenon DEF BranchEnds
  <2>2. CASE i \in DOMAIN q
    <3>1. /\ d = TRUE /\ b[StreamOf[q[i].read]] = <<>>
          /\ LastHop(q, i, "branch", {StreamOf[q[i].read]}) /\ p[i] = q[i]
      BY <1>1, <1>7, <2>1, <2>2, Zenon DEF BranchEnds
    <3>2. ~Brings(h, "branch", {StreamOf[q[i].read]})
      BY <1>7, <3>1 DEF Brings
    <3> QED BY <1>5, <2>2, <3>1, <3>2, Zenon
  <2>3. CASE i = l
    <3>1. p[i] = h /\ h.answer.kind # "block"
      BY <1>3, <2>1, <2>3
    <3>2. LastHop(p, i, "branch", {StreamOf[p[i].read]})
      BY <1>4, <2>3, <3>1
    <3> QED BY <1>7, <2>1, <3>1, <3>2
  <2> QED BY <1>2, <2>2, <2>3
<1>8. TeeEnds(q, d, g) /\ ~Brings(h, "source", Branches) => TeeEnds(p, d, g)
  BY <1>1, <1>2, <1>3, Zenon DEF TeeEnds
<1> QED BY <1>6, <1>7, <1>8 DEF p

\* Somebody gave up stream s: the source was cancelled, or the branch closed.
Cancelled(s) == IF s = Body THEN cancelled = TRUE ELSE closed[s] = TRUE

\* Before clone() everything belongs to the body, and a body that nobody has read has not
\* moved; afterwards everything belongs to the branches.
OneFamily ==
  IF Body \in live
  THEN /\ live = {Body} /\ done = FALSE
       /\ \A r \in pulls : StreamOf[r] = Body
       /\ \A i \in DOMAIN hops : StreamOf[hops[i].read] = Body /\ hops[i].from = "source"
       /\ disturbed[Body] = FALSE => pulls = {} /\ hops = <<>> /\ given = 0
       /\ \A s \in Branches : got[s] = <<>> /\ queue[s] = <<>> /\ buf[s] = <<>>
  ELSE /\ \A r \in pulls : StreamOf[r] \in Branches
       /\ \A i \in DOMAIN hops : StreamOf[hops[i].read] \in Branches

\* What a stream has returned and what it holds are the first blocks, in order.
InOrder ==
  \A s \in Streams : Holds(got[s], 0) /\ Holds(queue[s], Len(got[s])) /\ Has(s) <= given

\* The blocks that the source has given and that no stream has yet are on their way.
OnTheWay ==
  IF Body \in live THEN Carry(hops, "source", {Body}, Has(Body), given)
  ELSE \A s \in Branches : Split(s, hops, buf[s], Has(s), closed[s], given)

\* An end that is on its way is behind the last block, and so is one the tee has noted.
EndsLast ==
  /\ SourceEnds(hops, given) /\ BranchEnds(hops, done, buf, closed)
  /\ TeeEnds(hops, done, given)

\* A stream that ended, and a read that was told so, got every block or was given up.
ClosedIsWhole ==
  /\ \A s \in Streams : state[s] = "Closed" => Cancelled(s) \/ Has(s) = Blocks
  /\ \A r \in Reads : result[r] = "done" =>
       Cancelled(StreamOf[r]) \/ Len(got[StreamOf[r]]) = Blocks

\* The inductive invariant of EveryBlockOnce.
Whole == TypeOK /\ OneFamily /\ InOrder /\ OnTheWay /\ EndsLast /\ ClosedIsWhole

\* The segments are what the property says.
LEMMA WholeIsOnce == Whole => EveryBlockOnce
<1> SUFFICES ASSUME Whole PROVE EveryBlockOnce
  OBVIOUS
<1>1. live # {Body} => Body \notin live
  BY DEF Whole, OneFamily
<1>2. NothingLost
  <2>1. \A s \in Streams : Holds(got[s], 0) /\ Holds(queue[s], Len(got[s]))
    BY DEF Whole, InOrder
  <2>2. Body \in live => Carry(hops, "source", {Body}, Has(Body), given)
    BY DEF Whole, OnTheWay
  <2>3. live # {Body} =>
          \A s \in Branches : Split(s, hops, buf[s], Has(s), closed[s], given)
    BY <1>1 DEF Whole, OnTheWay
  <2> QED BY <2>1, <2>2, <2>3, Zenon DEF NothingLost, Split
<1>3. NoTruncation
  BY StreamAssumption DEF Whole, ClosedIsWhole, NoTruncation, Cancelled
<1> QED BY <1>2, <1>3 DEF EveryBlockOnce

\* The types in the form the steps use them.
LEMMA Types ==
  ASSUME TypeOK
  PROVE  /\ given \in Nat /\ Blocks \in Nat /\ given <= Blocks
         /\ hops \in Seq(Hops) /\ \A r \in Reads : StreamOf[r] \in Streams
         /\ Body \in Streams /\ Body \notin Branches /\ Streams = Branches \cup {Body}
         /\ buf \in [Branches -> Seq(Answers)] /\ closed \in [Branches -> BOOLEAN]
         /\ done \in BOOLEAN /\ errored \in BOOLEAN
         /\ \A s \in Streams : /\ got[s] \in Seq(Answers) /\ queue[s] \in Seq(Answers)
                               /\ Len(got[s]) \in Nat /\ Len(queue[s]) \in Nat
                               /\ Has(s) \in Nat /\ Has(s) = Len(got[s]) + Len(queue[s])
         /\ hops # <<>> => /\ Head(hops) \in Hops /\ Tail(hops) \in Seq(Hops)
                           /\ Head(hops).read \in Reads /\ Head(hops).answer \in Answers
                           /\ Head(hops).from \in {"source", "branch"}
<1>1. hops \in Seq(Hops)
  BY DEF TypeOK, Hops
<1>2. hops # <<>> => Head(hops) \in Hops /\ Tail(hops) \in Seq(Hops)
  BY <1>1
<1>3. \A h \in Hops : h.read \in Reads /\ h.answer \in Answers /\ h.from \in {"source", "branch"}
  BY DEF Hops
<1>4. given \in Nat /\ Blocks \in Nat /\ given <= Blocks
  BY StreamAssumption DEF TypeOK
<1>5. \A s \in Streams : got[s] \in Seq(Answers) /\ queue[s] \in Seq(Answers)
  BY DEF TypeOK
<1>6. \A s \in Streams : /\ Len(got[s]) \in Nat /\ Len(queue[s]) \in Nat
                         /\ Has(s) \in Nat /\ Has(s) = Len(got[s]) + Len(queue[s])
  <2> SUFFICES ASSUME NEW s \in Streams
               PROVE  /\ Len(got[s]) \in Nat /\ Len(queue[s]) \in Nat
                      /\ Has(s) \in Nat /\ Has(s) = Len(got[s]) + Len(queue[s])
    OBVIOUS
  <2>1. Len(got[s]) \in Nat /\ Len(queue[s]) \in Nat
    BY <1>5
  <2>2. \A x, y \in Nat : x + y \in Nat
    OBVIOUS
  <2> QED BY <2>1, <2>2, Zenon DEF Has
<1> QED BY <1>1, <1>2, <1>3, <1>4, <1>5, <1>6, StreamAssumption DEF TypeOK, Streams

-----------------------------------------------------------------------------
\* What read() makes of the queue: the blocks it holds and has returned are the same, and it
\* reports the end only with an empty queue.
LEMMA LoopKeeps ==
  ASSUME TypeOK, NEW r \in Reads, NEW st, NEW q \in Seq(Answers), Loop(r, st, q),
         Holds(got[StreamOf[r]], 0), Holds(q, Len(got[StreamOf[r]]))
  PROVE  LET s == StreamOf[r]
         IN /\ Holds(got'[s], 0) /\ Holds(queue'[s], Len(got'[s]))
            /\ Len(got'[s]) + Len(queue'[s]) = Len(got[s]) + Len(q)
            /\ Len(got'[s]) \in Nat /\ Len(queue'[s]) \in Nat /\ Len(got'[s]) >= Len(got[s])
            /\ result'[r] = "done" => st = "Closed" /\ queue'[s] = <<>>
            /\ result'[r] = "pulling" => got'[s] = got[s] /\ queue'[s] = q
            /\ state'[s] = st
            /\ \A t \in Streams \ {s} : /\ got'[t] = got[t] /\ queue'[t] = queue[t]
                                        /\ state'[t] = state[t]
            /\ \A x \in Reads \ {r} : result'[x] = result[x]
<1> DEFINE s == StreamOf[r]
           o == Outcome(s, st, q)
<1>1. s \in Streams /\ got[s] \in Seq(Answers) /\ Len(got[s]) \in Nat /\ Len(q) \in Nat
  <2>1. s \in Streams
    BY Types
  <2>2. got[s] \in Seq(Answers)
    BY <2>1 DEF TypeOK
  <2> QED BY <2>1, <2>2
<1>2. /\ result' = [result EXCEPT ![r] = o]
      /\ queue' = [queue EXCEPT ![s] = IF o = "value" THEN Tail(q) ELSE q]
      /\ got' = [got EXCEPT ![s] = IF o = "value" THEN Append(@, Head(q)) ELSE @]
      /\ state' = [state EXCEPT ![s] = st]
  BY DEF Loop
<1>3. /\ o = "value" => q # <<>>
      /\ o = "done" => st = "Closed" /\ q = <<>>
  BY DEF Outcome
<1>4. /\ result'[r] = o /\ state'[s] = st
      /\ queue'[s] = IF o = "value" THEN Tail(q) ELSE q
      /\ got'[s] = IF o = "value" THEN Append(got[s], Head(q)) ELSE got[s]
      /\ \A t \in Streams \ {s} : /\ got'[t] = got[t] /\ queue'[t] = queue[t]
                                  /\ state'[t] = state[t]
      /\ \A x \in Reads \ {r} : result'[x] = result[x]
  <2> HIDE DEF o
  <2> QED BY <1>1, <1>2 DEF TypeOK
<1> HIDE DEF o
<1>5. CASE o = "value"
  <2>1. Head(q) = Block(Len(got[s]) + 1) /\ Holds(Tail(q), Len(got[s]) + 1)
        /\ Len(Tail(q)) = Len(q) - 1
    BY <1>1, <1>3, <1>5, HoldsTail
  <2>2. Head(q) \in Answers
    BY <1>3, <1>5
  <2>3. 0 + Len(got[s]) + 1 = Len(got[s]) + 1
    BY <1>1
  <2>4. Holds(Append(got[s], Head(q)), 0) /\ Len(Append(got[s], Head(q))) = Len(got[s]) + 1
    BY <1>1, <2>1, <2>2, <2>3, HoldsMore
  <2>5. /\ got'[s] = Append(got[s], Head(q)) /\ queue'[s] = Tail(q)
        /\ result'[r] = "value"
    BY <1>4, <1>5
  <2>6. /\ Len(got'[s]) + Len(queue'[s]) = Len(got[s]) + Len(q)
        /\ Len(got'[s]) \in Nat /\ Len(queue'[s]) \in Nat /\ Len(got'[s]) >= Len(got[s])
    <3>1. Len(got'[s]) = Len(got[s]) + 1 /\ Len(queue'[s]) = Len(q) - 1
      BY <2>1, <2>4, <2>5
    <3>2. Len(q) # 0
      BY <1>3, <1>5
    <3> QED BY <1>1, <3>1, <3>2
  <2>7. Holds(got'[s], 0) /\ Holds(queue'[s], Len(got'[s]))
    BY <2>1, <2>4, <2>5
  <2> QED BY <1>4, <2>5, <2>6, <2>7
<1>6. CASE o # "value"
  <2>1. got'[s] = got[s] /\ queue'[s] = q
    BY <1>4, <1>6
  <2>2. /\ Len(got'[s]) + Len(queue'[s]) = Len(got[s]) + Len(q)
        /\ Len(got'[s]) \in Nat /\ Len(queue'[s]) \in Nat /\ Len(got'[s]) >= Len(got[s])
    BY <1>1, <2>1
  <2>3. Holds(got'[s], 0) /\ Holds(queue'[s], Len(got'[s]))
    BY <2>1
  <2>4. result'[r] = "done" => st = "Closed" /\ queue'[s] = <<>>
    BY <1>3, <1>4, <2>1
  <2> QED BY <1>4, <2>1, <2>2, <2>3, <2>4
<1> QED BY <1>5, <1>6

\* The look at a branch, whatever the tee has just learnt: the branches keep their blocks and
\* the ends stay behind them.
LEMMA BranchKeeps ==
  ASSUME TypeOK, NEW r \in Reads, StreamOf[r] \in Branches, NEW rest \in Seq(Hops),
         NEW b \in [Branches -> Seq(Answers)], NEW d \in BOOLEAN, NEW e \in BOOLEAN,
         Branch(r, rest, b, d, e),
         \A i \in DOMAIN rest : StreamOf[rest[i].read] \in Branches,
         \A t \in Branches : Split(t, rest, b[t], Has(t), closed[t], given),
         SourceEnds(rest, given), BranchEnds(rest, d, b, closed), TeeEnds(rest, d, given)
  PROVE  /\ \A t \in Branches : Split(t, hops', buf'[t], Has(t), closed[t], given)
         /\ SourceEnds(hops', given) /\ BranchEnds(hops', done', buf', closed)
         /\ TeeEnds(hops', done', given)
         /\ \A i \in DOMAIN hops' : StreamOf[hops'[i].read] \in Branches
         /\ pulls' \subseteq pulls \cup {r}
<1> DEFINE s == StreamOf[r]
           a == BranchHas(s, b[s], d, e)
           h == Hop(r, "branch", a)
<1>0. /\ s \in Branches /\ s \in Streams /\ b[s] \in Seq(Answers) /\ given \in Nat
      /\ \A t \in Branches : Has(t) \in Nat /\ closed[t] \in BOOLEAN /\ b[t] \in Seq(Answers)
  BY Types
<1>1. /\ buf' = IF a.kind = "block" THEN [b EXCEPT ![s] = Tail(@)] ELSE b
      /\ done' = d
      /\ IF a.kind = "pull" THEN pulls' = pulls \cup {r} /\ hops' = rest
         ELSE pulls' = pulls /\ hops' = Append(rest, h)
  BY DEF Branch
<1>2. /\ a.kind = "block" => b[s] # <<>> /\ a = Head(b[s])
      /\ a.kind = "eof" => \/ b[s] = <<>> /\ (d = TRUE \/ closed[s] = TRUE)
                           \/ b[s] # <<>> /\ a = Head(b[s])
      /\ a.kind # "pull" => a \in Answers
  <2>1. CASE e
    BY <2>1, AnswerTypes DEF BranchHas, End
  <2>2. CASE ~e /\ b[s] # <<>>
    <3>1. Head(b[s]) \in Answers
      BY <1>0, <2>2
    <3>2. a = Head(b[s])
      BY <2>2 DEF BranchHas
    <3> QED BY <2>2, <3>1, <3>2
  <2>3. CASE ~e /\ b[s] = <<>> /\ (d \/ closed[s])
    <3>1. a = End("eof")
      BY <2>3 DEF BranchHas
    <3>2. d = TRUE \/ closed[s] = TRUE
      BY <1>0, <2>3
    <3>3. a.kind = "eof" /\ a \in Answers
      BY <3>1, AnswerTypes DEF End
    <3> HIDE DEF a
    <3>4. a.kind # "block" /\ b[s] = <<>>
      BY <2>3, <3>3
    <3> QED BY <3>2, <3>3, <3>4
  <2>4. CASE ~e /\ b[s] = <<>> /\ ~(d \/ closed[s])
    BY <2>4 DEF BranchHas, End
  <2> QED BY <2>1, <2>2, <2>3, <2>4
<1>3. b[s] # <<>> => Head(b[s]).kind = "block"
  <2> SUFFICES ASSUME b[s] # <<>> PROVE Head(b[s]).kind = "block"
    OBVIOUS
  <2>1. PICK m \in 0..given : Holds(b[s], m)
    BY <1>0, Zenon DEF Split
  <2>2. Head(b[s]) = Block(m + 1)
    BY <1>0, <2>1, HoldsTail
  <2> QED BY <2>2 DEF Block
<1> HIDE DEF a
<1>4. CASE a.kind = "pull"
  <2>1. buf' = b /\ done' = d /\ hops' = rest /\ pulls' = pulls \cup {r}
    BY <1>1, <1>4
  <2> QED BY <2>1
<1>5. CASE a.kind # "pull"
  <2>1. h \in Hops /\ h.read = r /\ h.from = "branch" /\ h.answer = a
    BY <1>2, <1>5, HopTypes DEF Hop
  <2>2. ~Brings(h, "source", Branches)
    BY <2>1 DEF Brings
  <2>3. \A t \in Branches \ {s} : ~Brings(h, "branch", {t})
    BY <2>1 DEF Brings
  <2>4. hops' = Append(rest, h) /\ done' = d /\ pulls' = pulls
    BY <1>1, <1>5
  <2> HIDE DEF h
  <2>5. \A i \in DOMAIN hops' : StreamOf[hops'[i].read] \in Branches
    <3>1. \A i \in DOMAIN hops' : (i \in DOMAIN rest /\ hops'[i] = rest[i]) \/ hops'[i] = h
      BY <2>1, <2>4, AppendMeans
    <3> QED BY <1>0, <2>1, <3>1
  <2>6. SourceEnds(hops', given) /\ TeeEnds(hops', done', given)
    BY <2>1, <2>2, <2>4, EndsAppend
  <2>7. \A t \in Branches \ {s} : Split(t, hops', b[t], Has(t), closed[t], given)
    <3> SUFFICES ASSUME NEW t \in Branches, t # s
                 PROVE  Split(t, hops', b[t], Has(t), closed[t], given)
      OBVIOUS
    <3>1. Split(t, rest, b[t], Has(t), closed[t], given) /\ ~Brings(h, "branch", {t})
      BY <2>3
    <3>2. b[t] \in Seq(Answers) /\ Has(t) \in Nat /\ closed[t] \in BOOLEAN
      BY <1>0
    <3> QED BY <1>0, <2>1, <2>2, <2>4, <3>1, <3>2, SplitQueues
  <2>8. CASE a.kind = "block"
    <3>1. b[s] # <<>> /\ a = Head(b[s]) /\ buf' = [b EXCEPT ![s] = Tail(b[s])]
      BY <1>1, <1>2, <2>8
    <3>2. buf'[s] = Tail(b[s]) /\ \A t \in Branches \ {s} : buf'[t] = b[t]
      BY <1>0, <3>1
    <3>3. Split(s, hops', Tail(b[s]), Has(s), closed[s], given)
      BY <1>0, <2>1, <2>4, <3>1, SplitAnswers
    <3>4. BranchEnds(hops', d, b, closed)
      <4>1. h.answer.kind = "block" /\ b[StreamOf[h.read]] # <<>>
        BY <2>1, <2>8, <3>1
      <4> QED BY <2>1, <2>4, <4>1, EndsAppend
    <3>5. \A t \in Branches : b[t] = <<>> => buf'[t] = <<>>
      BY <3>1, <3>2
    <3>6. BranchEnds(hops', d, buf', closed)
      BY <2>5, <3>4, <3>5, Zenon DEF BranchEnds
    <3> QED BY <2>4, <2>5, <2>6, <2>7, <3>2, <3>3, <3>6
  <2>9. CASE a.kind # "block"
    <3>1. buf' = b
      BY <1>1, <2>9
    <3>2. ~Brings(h, "branch", {s})
      BY <2>1, <2>9 DEF Brings
    <3>3. Split(s, hops', b[s], Has(s), closed[s], given)
      <4>1. Split(s, rest, b[s], Has(s), closed[s], given)
        BY <1>0
      <4>2. b[s] \in Seq(Answers) /\ Has(s) \in Nat /\ closed[s] \in BOOLEAN
        BY <1>0
      <4> QED BY <1>0, <2>1, <2>2, <2>4, <3>2, <4>1, <4>2, SplitQueues
    <3>4. BranchEnds(hops', d, b, closed)
      <4>1. a.kind = "eof" => closed[s] = TRUE \/ (d = TRUE /\ b[s] = <<>>)
        BY <1>2, <1>3
      <4> QED BY <2>1, <2>4, <2>9, <4>1, EndsAppend
    <3> QED BY <2>4, <2>5, <2>6, <2>7, <3>1, <3>3, <3>4
  <2> QED BY <2>8, <2>9
<1> QED BY <1>4, <1>5

-----------------------------------------------------------------------------
\* Cancels, stops, locks and the signal move no block: a stream they close was cancelled.
LEMMA QuietKeeps ==
  ASSUME Whole,
         UNCHANGED <<given, pulls, hops, live, buf, done, queue, result, got>>,
         disturbed[Body] = TRUE => disturbed'[Body] = TRUE, disturbed'[Body] \in BOOLEAN,
         closed' \in [Branches -> BOOLEAN],
         \A s \in Branches : closed[s] = TRUE => closed'[s] = TRUE,
         cancelled = TRUE => cancelled' = TRUE,
         \A s \in Streams : state'[s] = "Closed" => state[s] = "Closed" \/ Cancelled(s)'
  PROVE  OneFamily' /\ InOrder' /\ OnTheWay' /\ EndsLast' /\ ClosedIsWhole'
<1> USE DEF Whole
<1>0. /\ given \in Nat /\ hops \in Seq(Hops) /\ buf \in [Branches -> Seq(Answers)]
      /\ closed \in [Branches -> BOOLEAN] /\ Streams = Branches \cup {Body}
      /\ \A s \in Streams : Has(s) \in Nat
      /\ \A r \in Reads : StreamOf[r] \in Streams
      /\ disturbed[Body] \in BOOLEAN
  BY Types DEF TypeOK
<1>1. OneFamily'
  <2>1. disturbed'[Body] = FALSE => disturbed[Body] = FALSE
    BY <1>0
  <2> QED BY <2>1 DEF OneFamily
<1>2. \A s \in Streams : Has(s)' = Has(s)
  BY DEF Has
<1>3. InOrder'
  BY <1>2 DEF InOrder
<1>4. OnTheWay'
  <2>1. CASE Body \in live
    BY <1>0, <1>2, <2>1 DEF OnTheWay
  <2>2. CASE Body \notin live
    <3>1. ASSUME NEW s \in Branches
          PROVE  Split(s, hops, buf[s], Has(s), closed'[s], given)
      <4>1. Split(s, hops, buf[s], Has(s), closed[s], given)
        BY <2>2 DEF OnTheWay
      <4>2. Split(s, hops, buf[s], Has(s), TRUE, given)
        BY <1>0, <4>1, SplitClosed
      <4>3. CASE closed'[s] = TRUE
        BY <4>2, <4>3
      <4>4. CASE closed'[s] = FALSE
        <5>1. closed[s] = FALSE
          BY <1>0, <4>4
        <5> QED BY <4>1, <4>4, <5>1
      <4> QED BY <4>3, <4>4
    <3> QED BY <1>0, <1>2, <2>2, <3>1 DEF OnTheWay
  <2> QED BY <2>1, <2>2
<1>5. EndsLast'
  <2>1. SourceEnds(hops, given) /\ TeeEnds(hops, done, given)
    BY DEF EndsLast
  <2>2. BranchEnds(hops, done, buf, closed')
    <3>1. BranchEnds(hops, done, buf, closed)
      BY DEF EndsLast
    <3>2. \A i \in DOMAIN hops : hops[i].from = "branch" => StreamOf[hops[i].read] \in Branches
      BY DEF OneFamily
    <3> QED BY <3>1, <3>2, Zenon DEF BranchEnds
  <2> QED BY <2>1, <2>2 DEF EndsLast
<1>6. \A s \in Streams : Cancelled(s) => Cancelled(s)'
  BY <1>0 DEF Cancelled
<1>7. ClosedIsWhole'
  <2>1. \A s \in Streams : state'[s] = "Closed" => Cancelled(s)' \/ Has(s)' = Blocks
    BY <1>2, <1>6, Zenon DEF ClosedIsWhole
  <2>2. \A r \in Reads : result[r] = "done" => Cancelled(StreamOf[r])' \/ Len(got[StreamOf[r]]) = Blocks
    BY <1>0, <1>6, Zenon DEF ClosedIsWhole
  <2> QED BY <2>1, <2>2 DEF ClosedIsWhole
<1> QED BY <1>1, <1>3, <1>4, <1>5, <1>7

\* Cancelling closes a readable stream's branch or source.
LEMMA CloseMeans ==
  ASSUME TypeOK, NEW s \in Streams, CloseAndCancel(s)
  PROVE  /\ closed' \in [Branches -> BOOLEAN]
         /\ \A t \in Branches : closed[t] = TRUE => closed'[t] = TRUE
         /\ cancelled = TRUE => cancelled' = TRUE
         /\ \A t \in Streams : state'[t] = "Closed" => state[t] = "Closed" \/ Cancelled(t)'
<1>0. /\ closed \in [Branches -> BOOLEAN] /\ Streams = Branches \cup {Body} /\ Body \notin Branches
      /\ state \in [Streams -> States]
  BY Types DEF TypeOK
<1>1. CASE state[s] # "Readable"
  BY <1>0, <1>1 DEF CloseAndCancel
<1>2. CASE state[s] = "Readable"
  <2>1. state' = [state EXCEPT ![s] = "Closed"] /\ CancelSource(s)
    BY <1>2 DEF CloseAndCancel
  <2>2. CASE s = Body
    BY <1>0, <2>1, <2>2 DEF CancelSource, Cancelled
  <2>3. CASE s # Body
    <3>1. closed' = [closed EXCEPT ![s] = TRUE] /\ (cancelled => cancelled')
      BY <2>1, <2>3 DEF CancelSource
    <3>2. s \in Branches /\ closed'[s] = TRUE
      BY <1>0, <2>3, <3>1
    <3>3. \A t \in Branches : closed[t] = TRUE => closed'[t] = TRUE
      BY <1>0, <3>1
    <3>4. cancelled = TRUE => cancelled' = TRUE
      <4>1. cancelled' = (cancelled \/ \A t \in Branches : closed'[t])
        BY <2>1, <2>3 DEF CancelSource
      <4> QED BY <4>1
    <3>5. \A t \in Streams : state'[t] = "Closed" => state[t] = "Closed" \/ t = s
      BY <1>0, <2>1
    <3>6. Cancelled(s)'
      BY <2>3, <3>2 DEF Cancelled
    <3> QED BY <1>0, <3>1, <3>3, <3>4, <3>5, <3>6
  <2> QED BY <2>2, <2>3
<1> QED BY <1>1, <1>2

\* The steps that move no block.
LEMMA QuietSteps ==
  ASSUME Whole,
         \/ \E s \in Streams : \/ Cancel(s) \/ ReaderCancel(s) \/ GetReader(s) \/ Closed(s)
                               \/ ReleaseLock(s) \/ DropReader(s) \/ OnStop(s)
         \/ SourceStop \/ Abort \/ UNCHANGED vars
  PROVE  OneFamily' /\ InOrder' /\ OnTheWay' /\ EndsLast' /\ ClosedIsWhole'
<1>0. /\ TypeOK /\ disturbed[Body] \in BOOLEAN /\ closed \in [Branches -> BOOLEAN]
      /\ disturbed \in [Streams -> BOOLEAN] /\ Body \in Streams
  BY Types DEF Whole, TypeOK
<1>1. ASSUME NEW s \in Streams, Cancel(s) \/ ReaderCancel(s) \/ OnStop(s)
      PROVE  OneFamily' /\ InOrder' /\ OnTheWay' /\ EndsLast' /\ ClosedIsWhole'
  <2>1. CloseAndCancel(s)
    BY <1>1 DEF Cancel, ReaderCancel, OnStop
  <2>2. UNCHANGED <<given, pulls, hops, live, buf, done, queue, result, got>>
    BY <1>1 DEF Cancel, ReaderCancel, OnStop, reads
  <2>3. /\ disturbed[Body] = TRUE => disturbed'[Body] = TRUE
        /\ disturbed'[Body] \in BOOLEAN
    <3>1. disturbed' = [disturbed EXCEPT ![s] = @ \/ state[s] = "Readable"] \/ disturbed' = disturbed
      BY <1>1 DEF Cancel, ReaderCancel, OnStop
    <3> QED BY <1>0, <3>1
  <2> QED BY <1>0, <2>1, <2>2, <2>3, CloseMeans, QuietKeeps
<1>2. ASSUME NEW s \in Streams, GetReader(s) \/ Closed(s) \/ ReleaseLock(s) \/ DropReader(s)
      PROVE  OneFamily' /\ InOrder' /\ OnTheWay' /\ EndsLast' /\ ClosedIsWhole'
  <2>1. UNCHANGED <<source, hops, tee, stream, reads>>
    BY <1>2 DEF GetReader, Closed, ReleaseLock, DropReader
  <2> QED BY <1>0, <2>1, QuietKeeps DEF source, tee, stream, reads
<1>3. CASE SourceStop
  <2>1. cancelled' = TRUE /\ UNCHANGED <<given, pulls, hops, tee, stream, reads>>
    BY <1>3 DEF SourceStop
  <2> QED BY <1>0, <2>1, QuietKeeps DEF tee, stream, reads
<1>4. CASE Abort \/ UNCHANGED vars
  <2>1. UNCHANGED <<source, hops, tee, stream, reads>>
    BY <1>4 DEF Abort, vars
  <2> QED BY <1>0, <2>1, QuietKeeps DEF source, tee, stream, reads
<1> QED BY <1>1, <1>2, <1>3, <1>4

\* The body of a branch that is collected takes what its branch held with it.
LEMMA DropKeeps ==
  ASSUME Whole, NEW x \in Branches, Drop(x)
  PROVE  OneFamily' /\ InOrder' /\ OnTheWay' /\ EndsLast' /\ ClosedIsWhole'
<1> USE DEF Whole
<1>0. /\ given \in Nat /\ hops \in Seq(Hops) /\ buf \in [Branches -> Seq(Answers)]
      /\ closed \in [Branches -> BOOLEAN] /\ Streams = Branches \cup {Body}
      /\ Body \notin Branches
      /\ \A s \in Streams : Has(s) \in Nat
      /\ \A r \in Reads : StreamOf[r] \in Streams
  BY Types
<1>1. /\ x \in live /\ x # Body /\ live' = live \ {x} /\ CancelSource(x)
      /\ buf' = [buf EXCEPT ![x] = <<>>]
      /\ UNCHANGED <<given, pulls, hops, done, stream, reads>>
  BY DEF Drop
<1>2. UNCHANGED <<state, queue, disturbed, result, got>>
  BY <1>1 DEF stream, reads
<1>3. Body \notin live /\ Body \notin live'
  BY <1>1 DEF OneFamily
<1>4. /\ closed' = [closed EXCEPT ![x] = TRUE]
      /\ cancelled' = (cancelled \/ \A t \in Branches : closed'[t])
  BY <1>1 DEF CancelSource
<1>5. /\ \A t \in Branches : closed[t] = TRUE => closed'[t] = TRUE
      /\ closed'[x] = TRUE /\ \A t \in Branches \ {x} : closed'[t] = closed[t]
      /\ buf'[x] = <<>> /\ \A t \in Branches \ {x} : buf'[t] = buf[t]
  BY <1>0, <1>1, <1>4
<1>6. cancelled = TRUE => cancelled' = TRUE
  BY <1>4
<1>7. OneFamily'
  BY <1>1, <1>3 DEF OneFamily
<1>8. \A s \in Streams : Has(s)' = Has(s)
  BY <1>2 DEF Has
<1>9. InOrder'
  BY <1>1, <1>2, <1>8 DEF InOrder
<1>10. OnTheWay'
  <2>1. ASSUME NEW s \in Branches
        PROVE  Split(s, hops, buf'[s], Has(s), closed'[s], given)
    <3>1. Split(s, hops, buf[s], Has(s), closed[s], given)
      BY <1>3 DEF OnTheWay
    <3>2. CASE s = x
      <4>1. Split(s, hops, <<>>, Has(s), TRUE, given)
        BY <1>0, <3>1, SplitClosed
      <4> QED BY <1>5, <3>2, <4>1
    <3>3. CASE s # x
      BY <1>5, <3>1, <3>3
    <3> QED BY <3>2, <3>3
  <2> QED BY <1>0, <1>1, <1>3, <1>8, <2>1 DEF OnTheWay
<1>11. EndsLast'
  <2>1. SourceEnds(hops, given) /\ TeeEnds(hops, done, given)
    BY DEF EndsLast
  <2>2. BranchEnds(hops, done, buf', closed')
    <3>1. BranchEnds(hops, done, buf, closed)
      BY DEF EndsLast
    <3>2. \A i \in DOMAIN hops : StreamOf[hops[i].read] \in Branches
      BY <1>3 DEF OneFamily
    <3>3. \A t \in Branches : buf[t] = <<>> => buf'[t] = <<>>
      BY <1>5
    <3> QED BY <1>5, <3>1, <3>2, <3>3, Zenon DEF BranchEnds
  <2> QED BY <1>1, <2>1, <2>2 DEF EndsLast
<1>12. \A s \in Streams : Cancelled(s) => Cancelled(s)'
  BY <1>0, <1>5, <1>6 DEF Cancelled
<1>13. ClosedIsWhole'
  <2>1. \A s \in Streams : state[s] = "Closed" => Cancelled(s)' \/ Has(s)' = Blocks
    BY <1>8, <1>12, Zenon DEF ClosedIsWhole
  <2>2. \A r \in Reads : result[r] = "done" => Cancelled(StreamOf[r])' \/ Len(got[StreamOf[r]]) = Blocks
    BY <1>0, <1>12, Zenon DEF ClosedIsWhole
  <2> QED BY <1>2, <2>1, <2>2 DEF ClosedIsWhole
<1> QED BY <1>7, <1>9, <1>10, <1>11, <1>13

\* clone() divides a body that nobody has read.
LEMMA CloneKeeps ==
  ASSUME Whole, Clone
  PROVE  OneFamily' /\ InOrder' /\ OnTheWay' /\ EndsLast' /\ ClosedIsWhole'
<1> USE DEF Whole
<1>0. /\ given \in Nat /\ hops \in Seq(Hops) /\ Streams = Branches \cup {Body}
      /\ Body \notin Branches /\ Body \in Streams
      /\ disturbed[Body] \in BOOLEAN
  BY Types DEF TypeOK
<1>1. /\ live = {Body} /\ ~disturbed[Body] /\ live' = Branches
      /\ UNCHANGED <<source, hops, buf, closed, done, errored, stream, reads>>
  BY DEF Clone
<1>2. UNCHANGED <<given, cancelled, pulls, hops, buf, closed, done, state, queue, disturbed, result, got>>
  BY <1>1 DEF source, stream, reads
<1>3. /\ pulls = {} /\ hops = <<>> /\ given = 0
      /\ \A s \in Branches : got[s] = <<>> /\ queue[s] = <<>> /\ buf[s] = <<>>
  <2>1. disturbed[Body] = FALSE
    BY <1>0, <1>1
  <2> QED BY <1>1, <2>1 DEF OneFamily
<1>4. Body \notin live'
  BY <1>0, <1>1
<1>5. OneFamily'
  BY <1>2, <1>3, <1>4 DEF OneFamily
<1>6. \A s \in Streams : Has(s)' = Has(s)
  BY <1>2 DEF Has
<1>7. InOrder'
  BY <1>2, <1>6 DEF InOrder
<1>8. OnTheWay'
  <2>1. ASSUME NEW s \in Branches
        PROVE  Split(s, hops, buf[s], Has(s), closed[s], given)
    <3>1. Has(s) = 0
      <4>1. got[s] = <<>> /\ queue[s] = <<>> /\ Len(<<>>) = 0
        BY <1>3
      <4> QED BY <4>1 DEF Has
    <3>2. Carry(hops, "branch", {s}, 0, 0) /\ Carry(hops, "source", Branches, 0, 0)
      <4>1. \A i \in DOMAIN hops : FALSE
        BY <1>3
      <4> QED BY <1>0, <4>1, CarryNone
    <3>3. Holds(buf[s], 0) /\ 0 + Len(buf[s]) = 0
      BY <1>3 DEF Holds
    <3>4. IF closed[s] THEN 0 + Len(buf[s]) <= 0
          ELSE Carry(hops, "source", Branches, 0 + Len(buf[s]), 0)
      BY <3>2, <3>3
    <3>5. 0 \in 0..given
      BY <1>0
    <3> QED BY <1>3, <3>1, <3>2, <3>3, <3>4, <3>5, Zenon DEF Split
  <2> QED BY <1>0, <1>2, <1>4, <1>6, <2>1 DEF OnTheWay
<1>9. EndsLast'
  BY <1>2 DEF EndsLast
<1>10. \A s \in Streams : Cancelled(s) = Cancelled(s)'
  BY <1>2 DEF Cancelled
<1>11. ClosedIsWhole'
  BY <1>2, <1>6, Types DEF ClosedIsWhole, Cancelled
<1> QED BY <1>5, <1>7, <1>8, <1>9, <1>11

-----------------------------------------------------------------------------
\* An answer of the source is queued behind those before it.
LEMMA AnswerKeeps ==
  ASSUME Whole, NEW r \in Reads, Answer(r)
  PROVE  OneFamily' /\ InOrder' /\ OnTheWay' /\ EndsLast' /\ ClosedIsWhole'
<1> USE DEF Whole
<1>0. /\ given \in Nat /\ given <= Blocks /\ Blocks \in Nat /\ hops \in Seq(Hops)
      /\ Streams = Branches \cup {Body} /\ Body \notin Branches /\ Body \in Streams
      /\ \A t \in Branches : buf[t] \in Seq(Answers) /\ closed[t] \in BOOLEAN
      /\ \A s \in Streams : Has(s) \in Nat
      /\ StreamOf[r] \in Streams
  BY Types
<1>1. /\ r \in pulls /\ pulls' = pulls \ {r}
      /\ UNCHANGED <<cancelled, live, buf, closed, done, state, queue, disturbed, result, got>>
  BY DEF Answer, tee, stream, reads
<1>2. \E a \in Answers :
        /\ hops' = Append(hops, Hop(r, "source", a))
        /\ \/ a.kind # "block" /\ given' = given /\ (a.kind = "eof" => given = Blocks)
           \/ a = Block(given + 1) /\ given < Blocks /\ given' = given + 1
  <2>1. CASE /\ given < Blocks /\ given' = given + 1
             /\ hops' = Append(hops, Hop(r, "source", Block(given + 1)))
    <3>1. Block(given + 1) \in Answers
      BY <1>0, <2>1, AnswerTypes
    <3> QED BY <2>1, <3>1
  <2>2. CASE \E k \in {"eof", "error", "stopped"} :
               /\ k = "eof" => given = Blocks
               /\ given' = given /\ hops' = Append(hops, Hop(r, "source", End(k)))
    BY <2>2, AnswerTypes DEF End
  <2>3. \/ /\ given < Blocks /\ given' = given + 1
           /\ hops' = Append(hops, Hop(r, "source", Block(given + 1)))
        \/ given = Blocks /\ given' = given /\ hops' = Append(hops, Hop(r, "source", End("eof")))
        \/ given' = given /\ hops' = Append(hops, Hop(r, "source", End("error")))
        \/ given' = given /\ hops' = Append(hops, Hop(r, "source", End("stopped")))
    BY Zenon DEF Answer
  <2> QED BY <2>1, <2>2, <2>3
<1>3. PICK a \in Answers :
        /\ hops' = Append(hops, Hop(r, "source", a))
        /\ \/ a.kind # "block" /\ given' = given /\ (a.kind = "eof" => given = Blocks)
           \/ a = Block(given + 1) /\ given < Blocks /\ given' = given + 1
  BY <1>2
<1> DEFINE h == Hop(r, "source", a)
<1>4. h \in Hops /\ h.read = r /\ h.from = "source" /\ h.answer = a
  BY HopTypes DEF Hop
<1>5. hops' = Append(hops, h) /\ given' >= given /\ given' \in Nat
  BY <1>0, <1>3
<1> HIDE DEF h
<1>6. /\ Body \in live => StreamOf[r] = Body
      /\ Body \notin live => StreamOf[r] \in Branches
  BY <1>1 DEF OneFamily
<1>7. \A i \in DOMAIN hops' : (i \in DOMAIN hops /\ hops'[i] = hops[i]) \/ hops'[i] = h
  BY <1>0, <1>4, <1>5, AppendMeans
<1>8. OneFamily'
  <2>1. CASE Body \in live
    <3>1. disturbed[Body] # FALSE
      BY <1>1, <2>1 DEF OneFamily
    <3>2. \A i \in DOMAIN hops' : StreamOf[hops'[i].read] = Body /\ hops'[i].from = "source"
      BY <1>4, <1>6, <1>7, <2>1 DEF OneFamily
    <3> QED BY <1>1, <2>1, <3>1, <3>2 DEF OneFamily
  <2>2. CASE Body \notin live
    <3>1. \A i \in DOMAIN hops' : StreamOf[hops'[i].read] \in Branches
      BY <1>4, <1>6, <1>7, <2>2 DEF OneFamily
    <3> QED BY <1>1, <2>2, <3>1 DEF OneFamily
  <2> QED BY <2>1, <2>2
<1>9. \A s \in Streams : Has(s)' = Has(s)
  BY <1>1 DEF Has
<1>10. InOrder'
  <2>1. \A s \in Streams : Has(s) <= given'
    BY <1>0, <1>5 DEF InOrder
  <2> QED BY <1>1, <1>9, <2>1 DEF InOrder
<1>11. OnTheWay'
  <2>1. CASE Body \in live
    <3>0. Carry(hops, "source", {Body}, Has(Body), given)
      BY <2>1 DEF OnTheWay
    <3>1. Carry(hops', "source", {Body}, Has(Body), given')
      <4>1. CASE a.kind # "block" /\ given' = given
        <5>1. ~Brings(h, "source", {Body})
          BY <1>4, <4>1 DEF Brings
        <5> QED BY <1>0, <1>4, <1>5, <3>0, <4>1, <5>1, CarryOther
      <4>2. CASE a = Block(given + 1) /\ given' = given + 1
        <5>1. Brings(h, "source", {Body})
          BY <1>4, <1>6, <2>1, <4>2 DEF Brings, Block
        <5> QED BY <1>0, <1>4, <1>5, <3>0, <4>2, <5>1, CarryMore
      <4> QED BY <1>3, <4>1, <4>2
    <3> QED BY <1>0, <1>1, <1>9, <2>1, <3>1 DEF OnTheWay
  <2>2. CASE Body \notin live
    <3>1. ASSUME NEW s \in Branches
          PROVE  Split(s, hops', buf[s], Has(s), closed[s], given')
      <4>0. Split(s, hops, buf[s], Has(s), closed[s], given) /\ Has(s) \in Nat
            /\ buf[s] \in Seq(Answers) /\ closed[s] \in BOOLEAN
        BY <1>0, <2>2 DEF OnTheWay
      <4>1. CASE a.kind # "block" /\ given' = given
        <5>1. ~Brings(h, "source", Branches) /\ ~Brings(h, "branch", {s})
          BY <1>4, <4>1 DEF Brings
        <5> QED BY <1>0, <1>4, <1>5, <4>0, <4>1, <5>1, SplitQueues
      <4>2. CASE a = Block(given + 1) /\ given' = given + 1
        <5>1. Brings(h, "source", Branches)
          BY <1>4, <1>6, <2>2, <4>2 DEF Brings, Block
        <5> QED BY <1>0, <1>4, <1>5, <4>0, <4>2, <5>1, SplitGiven
      <4> QED BY <1>3, <4>1, <4>2
    <3> QED BY <1>0, <1>1, <1>9, <2>2, <3>1 DEF OnTheWay
  <2> QED BY <2>1, <2>2
<1>12. EndsLast'
  <2>0. SourceEnds(hops, given) /\ BranchEnds(hops, done, buf, closed) /\ TeeEnds(hops, done, given)
    BY DEF EndsLast
  <2>1. BranchEnds(hops', done, buf, closed)
    BY <1>0, <1>4, <1>5, <2>0, EndsAppend
  <2>2. CASE a.kind # "block" /\ given' = given /\ (a.kind = "eof" => given = Blocks)
    <3>1. ~Brings(h, "source", Branches)
      BY <1>4, <2>2 DEF Brings
    <3>2. SourceEnds(hops', given) /\ TeeEnds(hops', done, given)
      BY <1>0, <1>4, <1>5, <2>0, <2>2, <3>1, EndsAppend
    <3> QED BY <1>1, <2>1, <2>2, <3>2 DEF EndsLast
  <2>3. CASE a = Block(given + 1) /\ given < Blocks /\ given' = given + 1
    <3>1. given # Blocks /\ a.kind # "eof"
      BY <1>0, <2>3 DEF Block
    <3>2. SourceEnds(hops', given')
      <4>1. \A i \in DOMAIN hops : ~(hops[i].from = "source" /\ hops[i].answer.kind = "eof")
        BY <2>0, <3>1, Zenon DEF SourceEnds
      <4>2. \A i \in DOMAIN hops' : ~(hops'[i].from = "source" /\ hops'[i].answer.kind = "eof")
        BY <1>4, <1>7, <3>1, <4>1
      <4> QED BY <4>2, Zenon DEF SourceEnds
    <3>3. TeeEnds(hops', done, given')
      BY <2>0, <3>1, Zenon DEF TeeEnds
    <3> QED BY <1>1, <2>1, <3>2, <3>3 DEF EndsLast
  <2> QED BY <1>3, <2>2, <2>3
<1>13. ClosedIsWhole'
  BY <1>1, <1>9, Types DEF ClosedIsWhole, Cancelled
<1> QED BY <1>8, <1>10, <1>11, <1>12, <1>13

\* The tee puts what the source answered into its branches, and looks again at the one that
\* asked.
LEMMA TeeKeeps ==
  ASSUME Whole, ResumeTee
  PROVE  OneFamily' /\ InOrder' /\ OnTheWay' /\ EndsLast' /\ ClosedIsWhole'
<1> USE DEF Whole
<1> DEFINE r == Head(hops).read
           a == Head(hops).answer
           b == [t \in Branches |-> IF a.kind = "block" /\ ~closed[t]
                                    THEN Append(buf[t], a) ELSE buf[t]]
           d == done \/ a.kind = "eof"
           e == errored \/ a.kind = "error"
<1>0. /\ given \in Nat /\ hops \in Seq(Hops) /\ Head(hops) \in Hops /\ Tail(hops) \in Seq(Hops)
      /\ r \in Reads /\ a \in Answers /\ hops # <<>>
      /\ Head(hops).from = "source" /\ StreamOf[r] \in Branches
      /\ Streams = Branches \cup {Body} /\ Body \notin Branches /\ Body \in Streams
      /\ \A t \in Branches : buf[t] \in Seq(Answers) /\ closed[t] \in BOOLEAN
      /\ buf \in [Branches -> Seq(Answers)] /\ done \in BOOLEAN
      /\ \A s \in Streams : Has(s) \in Nat
  BY Types DEF ResumeTee
<1>1. UNCHANGED <<given, cancelled, live, closed, state, queue, disturbed, result, got>>
  BY DEF ResumeTee, stream, reads
<1>2. Head(hops) = hops[1] /\ 1 \in DOMAIN hops
      /\ \A i \in DOMAIN Tail(hops) : i + 1 \in DOMAIN hops /\ Tail(hops)[i] = hops[i + 1]
  BY <1>0, TailMeans
<1>3. Body \notin live
  BY <1>0, <1>2 DEF OneFamily
<1>4. /\ \A i \in DOMAIN hops : StreamOf[hops[i].read] \in Branches
      /\ \A i \in DOMAIN Tail(hops) : StreamOf[Tail(hops)[i].read] \in Branches
      /\ \A x \in pulls : StreamOf[x] \in Branches
  BY <1>2, <1>3 DEF OneFamily
<1>5. \A t \in Branches : Split(t, hops, buf[t], Has(t), closed[t], given)
  BY <1>3 DEF OnTheWay
<1>6. SourceEnds(hops, given) /\ BranchEnds(hops, done, buf, closed) /\ TeeEnds(hops, done, given)
  BY DEF EndsLast
<1>7. /\ SourceEnds(Tail(hops), given) /\ BranchEnds(Tail(hops), done, buf, closed)
      /\ TeeEnds(Tail(hops), done, given)
  BY <1>0, <1>6, EndsTail
<1>8. \A t \in Branches : ~Brings(Head(hops), "branch", {t})
  BY <1>0 DEF Brings
<1>9. ASSUME \A t \in Branches : Split(t, hops', buf'[t], Has(t), closed[t], given),
             SourceEnds(hops', given), BranchEnds(hops', done', buf', closed),
             TeeEnds(hops', done', given),
             \A i \in DOMAIN hops' : StreamOf[hops'[i].read] \in Branches,
             pulls' \subseteq pulls \cup {r}
      PROVE  OneFamily' /\ InOrder' /\ OnTheWay' /\ EndsLast' /\ ClosedIsWhole'
  <2>1. \A s \in Streams : Has(s)' = Has(s)
    BY <1>1 DEF Has
  <2>2. OneFamily'
    <3>1. \A x \in pulls' : StreamOf[x] \in Branches
      BY <1>0, <1>4, <1>9
    <3> QED BY <1>1, <1>3, <1>9, <3>1 DEF OneFamily
  <2>3. InOrder'
    BY <1>1, <2>1 DEF InOrder
  <2>4. OnTheWay'
    BY <1>0, <1>1, <1>3, <1>9, <2>1 DEF OnTheWay
  <2>5. EndsLast'
    BY <1>1, <1>9 DEF EndsLast
  <2>6. ClosedIsWhole'
    BY <1>1, <2>1, Types DEF ClosedIsWhole, Cancelled
  <2> QED BY <2>2, <2>3, <2>4, <2>5, <2>6
<1>10. CASE a.kind = "stopped"
  <2> DEFINE h == Hop(r, "branch", a)
  <2>1. hops' = Append(Tail(hops), h) /\ UNCHANGED <<pulls, buf, done>>
    BY <1>10 DEF ResumeTee
  <2>2. h \in Hops /\ h.read = r /\ h.from = "branch" /\ h.answer = a
    BY <1>0, HopTypes DEF Hop
  <2> HIDE DEF h
  <2>3. ~Brings(Head(hops), "source", Branches) /\ ~Brings(h, "source", Branches)
        /\ \A t \in Branches : ~Brings(h, "branch", {t})
    BY <1>10, <2>2 DEF Brings
  <2>4. ASSUME NEW t \in Branches
        PROVE  Split(t, hops', buf'[t], Has(t), closed[t], given)
    <3>0. Split(t, hops, buf[t], Has(t), closed[t], given) /\ Has(t) \in Nat
          /\ buf[t] \in Seq(Answers) /\ closed[t] \in BOOLEAN
      BY <1>0, <1>5
    <3>1. Split(t, Tail(hops), buf[t], Has(t), closed[t], given)
      <4>1. ~Brings(Head(hops), "branch", {t}) /\ ~Brings(Head(hops), "source", Branches)
        BY <1>8, <2>3
      <4>2. hops \in Seq(Hops) /\ hops # <<>> /\ given \in Nat
        BY <1>0
      <4> QED BY <3>0, <4>1, <4>2, SplitServes
    <3>2. Split(t, Append(Tail(hops), h), buf[t], Has(t), closed[t], given)
      <4>1. h \in Hops /\ ~Brings(h, "branch", {t}) /\ ~Brings(h, "source", Branches)
        BY <2>2, <2>3
      <4>2. Tail(hops) \in Seq(Hops) /\ given \in Nat
        BY <1>0
      <4> QED BY <3>0, <3>1, <4>1, <4>2, SplitQueues
    <3> QED BY <2>1, <3>2
  <2>5. /\ SourceEnds(hops', given) /\ BranchEnds(hops', done, buf, closed)
        /\ TeeEnds(hops', done, given)
    BY <1>0, <1>7, <1>10, <2>1, <2>2, <2>3, EndsAppend
  <2>6. \A i \in DOMAIN hops' : StreamOf[hops'[i].read] \in Branches
    <3>1. \A i \in DOMAIN hops' : \/ i \in DOMAIN Tail(hops) /\ hops'[i] = Tail(hops)[i]
                                  \/ hops'[i] = h
      BY <1>0, <2>1, <2>2, AppendMeans
    <3> QED BY <1>0, <1>4, <2>2, <3>1
  <2> QED BY <1>9, <2>1, <2>4, <2>5, <2>6
<1>11. CASE a.kind # "stopped"
  <2>1. Branch(r, Tail(hops), b, d, e)
    BY <1>11 DEF ResumeTee
  <2>2. d \in BOOLEAN /\ e \in BOOLEAN
    OBVIOUS
  <2>3. b \in [Branches -> Seq(Answers)]
        /\ \A t \in Branches : b[t] = IF a.kind = "block" /\ ~closed[t]
                                      THEN Append(buf[t], a) ELSE buf[t]
    BY <1>0
  <2>d. (d = TRUE) <=> (done = TRUE \/ a.kind = "eof")
    BY <1>0
  <2> HIDE DEF b, d, e
  <2>4. ASSUME NEW t \in Branches
        PROVE  Split(t, Tail(hops), b[t], Has(t), closed[t], given)
    <3>0. Split(t, hops, buf[t], Has(t), closed[t], given) /\ Has(t) \in Nat
          /\ buf[t] \in Seq(Answers) /\ closed[t] \in BOOLEAN
      BY <1>0, <1>5
    <3>1. CASE a.kind = "block"
      <4>1. Brings(Head(hops), "source", Branches)
        BY <1>0, <3>1 DEF Brings
      <4>2. Split(t, Tail(hops), IF ~closed[t] THEN Append(buf[t], a) ELSE buf[t], Has(t),
                  closed[t], given)
        BY <1>0, <3>0, <4>1, SplitArrives
      <4>3. b[t] = IF ~closed[t] THEN Append(buf[t], a) ELSE buf[t]
        BY <2>3, <3>1
      <4> QED BY <4>2, <4>3
    <3>2. CASE a.kind # "block"
      <4>1. ~Brings(Head(hops), "source", Branches)
        BY <3>2 DEF Brings
      <4>2. b[t] = buf[t]
        BY <2>3, <3>2
      <4>3. Split(t, Tail(hops), buf[t], Has(t), closed[t], given)
        <5>1. ~Brings(Head(hops), "branch", {t})
          BY <1>8
        <5>2. hops \in Seq(Hops) /\ hops # <<>> /\ given \in Nat
          BY <1>0
        <5> QED BY <3>0, <4>1, <5>1, <5>2, SplitServes
      <4> QED BY <4>2, <4>3
    <3> QED BY <3>1, <3>2
  <2>5. TeeEnds(Tail(hops), d, given) /\ BranchEnds(Tail(hops), d, b, closed)
    <3>1. CASE a.kind = "block"
      <4>1. Brings(hops[1], "source", Branches)
        BY <1>0, <1>2, <3>1 DEF Brings
      <4>2. done # TRUE /\ d # TRUE
        BY <1>2, <1>6, <2>d, <3>1, <4>1 DEF TeeEnds
      <4>3. \A i \in DOMAIN Tail(hops) :
              Tail(hops)[i].from = "branch" /\ Tail(hops)[i].answer.kind = "eof"
              => closed[StreamOf[Tail(hops)[i].read]] = TRUE
        BY <1>7, <4>2, Zenon DEF BranchEnds
      <4> QED BY <4>2, <4>3, Zenon DEF TeeEnds, BranchEnds
    <3>2. CASE a.kind # "block"
      <4>1. \A t \in Branches : b[t] = buf[t]
        BY <2>3, <3>2
      <4>2. BranchEnds(Tail(hops), d, b, closed)
        BY <1>4, <1>7, <2>d, <4>1, Zenon DEF BranchEnds
      <4>3. TeeEnds(Tail(hops), d, given)
        <5>1. CASE a.kind = "eof"
          <6>1. given = Blocks /\ LastHop(hops, 1, "source", Streams)
            BY <1>0, <1>2, <1>6, <5>1 DEF SourceEnds
          <6>2. ASSUME NEW j \in DOMAIN Tail(hops) PROVE ~Brings(Tail(hops)[j], "source", Branches)
            <7>1. j + 1 \in DOMAIN hops /\ Tail(hops)[j] = hops[j + 1] /\ ~(j + 1 < 1)
              BY <1>0, TailMeans
            <7>2. ~Brings(hops[j + 1], "source", Streams)
              BY <6>1, <7>1, Zenon DEF LastHop
            <7> QED BY <1>0, <7>1, <7>2 DEF Brings
          <6> QED BY <6>1, <6>2 DEF TeeEnds
        <5>2. CASE a.kind # "eof"
          BY <1>7, <2>d, <5>2, Zenon DEF TeeEnds
        <5> QED BY <5>1, <5>2
      <4> QED BY <4>2, <4>3
    <3> QED BY <3>1, <3>2
  <2>6. /\ \A t \in Branches : Split(t, hops', buf'[t], Has(t), closed[t], given)
        /\ SourceEnds(hops', given) /\ BranchEnds(hops', done', buf', closed)
        /\ TeeEnds(hops', done', given)
        /\ \A i \in DOMAIN hops' : StreamOf[hops'[i].read] \in Branches
        /\ pulls' \subseteq pulls \cup {r}
    <3>1. r \in Reads /\ StreamOf[r] \in Branches /\ Tail(hops) \in Seq(Hops)
      BY <1>0
    <3>2. \A i \in DOMAIN Tail(hops) : StreamOf[Tail(hops)[i].read] \in Branches
      BY <1>4
    <3>3. SourceEnds(Tail(hops), given) /\ TypeOK /\ b \in [Branches -> Seq(Answers)]
      BY <1>7, <2>3
    <3> HIDE DEF r, Whole
    <3> QED BY <2>1, <2>2, <2>4, <2>5, <3>1, <3>2, <3>3, BranchKeeps
  <2> QED BY <1>9, <2>6
<1> QED BY <1>10, <1>11

-----------------------------------------------------------------------------
\* A turn of read()'s loop that starts with the blocks in order keeps them so, and ends with
\* "done" only if the stream has them all or was cancelled.
LEMMA LoopIsWhole ==
  ASSUME Whole, NEW r \in Reads, NEW s \in Streams, s = StreamOf[r], NEW st,
         NEW q \in Seq(Answers), Loop(r, st, q),
         Holds(q, Len(got[s])), Len(got[s]) + Len(q) <= given, Has(s) <= Len(got[s]) + Len(q),
         st = "Closed" => Cancelled(s) \/ Len(got[s]) + Len(q) = Blocks,
         UNCHANGED <<given, cancelled, closed>>
  PROVE  /\ InOrder' /\ ClosedIsWhole'
         /\ Has(s)' = Len(got[s]) + Len(q)
         /\ \A t \in Streams \ {s} : /\ Has(t)' = Has(t) /\ got'[t] = got[t]
                                     /\ queue'[t] = queue[t]
<1>0. /\ TypeOK /\ Holds(got[s], 0)
      /\ \A t \in Streams : Holds(got[t], 0) /\ Holds(queue[t], Len(got[t])) /\ Has(t) <= given
      /\ given \in Nat /\ Blocks \in Nat /\ given <= Blocks
      /\ \A x \in Reads : StreamOf[x] \in Streams
      /\ \A t \in Streams : Len(got[t]) \in Nat /\ Len(queue[t]) \in Nat /\ Has(t) \in Nat
                            /\ Has(t) = Len(got[t]) + Len(queue[t])
  BY Types DEF Whole, InOrder
<1>1. Len(q) \in Nat
  OBVIOUS
<1>2. /\ Holds(got'[s], 0) /\ Holds(queue'[s], Len(got'[s]))
      /\ Len(got'[s]) + Len(queue'[s]) = Len(got[s]) + Len(q)
      /\ Len(got'[s]) >= Len(got[s])
      /\ result'[r] = "done" => st = "Closed" /\ queue'[s] = <<>>
      /\ state'[s] = st
      /\ \A t \in Streams \ {s} : /\ got'[t] = got[t] /\ queue'[t] = queue[t]
                                  /\ state'[t] = state[t]
      /\ \A x \in Reads \ {r} : result'[x] = result[x]
  BY <1>0, LoopKeeps
<1>3. Len(got'[s]) \in Nat /\ Len(queue'[s]) \in Nat
  BY <1>0, LoopKeeps
<1>4. Has(s)' = Len(got[s]) + Len(q)
  BY <1>2, Zenon DEF Has
<1>5. \A t \in Streams \ {s} : Has(t)' = Has(t)
  BY <1>2 DEF Has
<1>6. InOrder'
  <2>1. ASSUME NEW t \in Streams
        PROVE  Holds(got'[t], 0) /\ Holds(queue'[t], Len(got'[t])) /\ Has(t)' <= given
    <3>1. CASE t = s
      BY <1>2, <1>4, <3>1
    <3>2. CASE t # s
      BY <1>0, <1>2, <1>5, <3>2
    <3> QED BY <3>1, <3>2
  <2> QED BY <2>1 DEF InOrder
<1>7. \A t \in Streams : Cancelled(t)' <=> Cancelled(t)
  BY DEF Cancelled
<1>8. ASSUME NEW t \in Streams, state'[t] = "Closed"
      PROVE  Cancelled(t)' \/ Has(t)' = Blocks
  <2>1. CASE t = s
    BY <1>2, <1>4, <1>7, <1>8, <2>1
  <2>2. CASE t # s
    <3>1. Cancelled(t) \/ Has(t) = Blocks
      BY <1>2, <1>8, <2>2 DEF Whole, ClosedIsWhole
    <3> QED BY <1>5, <1>7, <2>2, <3>1
  <2> QED BY <2>1, <2>2
<1>9. ASSUME NEW x \in Reads, result'[x] = "done"
      PROVE  Cancelled(StreamOf[x])' \/ Len(got'[StreamOf[x]]) = Blocks
  <2>1. CASE x = r
    <3>1. st = "Closed" /\ queue'[s] = <<>>
      BY <1>2, <1>9, <2>1
    <3>2. Len(got'[s]) = Len(got[s]) + Len(q)
      <4>1. Len(queue'[s]) = 0
        BY <3>1
      <4> QED BY <1>2, <1>3, <4>1
    <3> QED BY <1>7, <2>1, <3>1, <3>2
  <2>2. CASE x # r
    <3>1. Cancelled(StreamOf[x]) \/ Len(got[StreamOf[x]]) = Blocks
      BY <1>2, <1>9, <2>2 DEF Whole, ClosedIsWhole
    <3>2. CASE Cancelled(StreamOf[x])
      BY <1>0, <1>7, <3>2
    <3>3. CASE Len(got[StreamOf[x]]) = Blocks /\ StreamOf[x] = s
      <4>1. Len(got'[s]) <= Blocks
        <5>1. /\ Len(got'[s]) + Len(queue'[s]) = Len(got[s]) + Len(q)
              /\ Len(got[s]) \in Nat /\ given \in Nat /\ Blocks \in Nat /\ given <= Blocks
          BY <1>0, <1>2
        <5>2. \A i, j, k, l, m, n \in Nat : i + j = k + l /\ k + l <= m /\ m <= n => i <= n
          OBVIOUS
        <5> QED BY <1>1, <1>3, <5>1, <5>2, Zenon
      <4>2. Len(got'[s]) = Blocks
        BY <1>0, <1>2, <1>3, <3>3, <4>1
      <4> QED BY <3>3, <4>2
    <3>4. CASE Len(got[StreamOf[x]]) = Blocks /\ StreamOf[x] # s
      BY <1>0, <1>2, <3>4
    <3> QED BY <3>1, <3>2, <3>3, <3>4
  <2> QED BY <2>1, <2>2
<1>10. ClosedIsWhole'
  BY <1>8, <1>9 DEF ClosedIsWhole
<1> QED BY <1>2, <1>4, <1>5, <1>6, <1>10

\* A call of read() moves a block from the queue to the script, or asks.
LEMMA ReadKeeps ==
  ASSUME Whole, NEW r \in Reads, Read(r)
  PROVE  OneFamily' /\ InOrder' /\ OnTheWay' /\ EndsLast' /\ ClosedIsWhole'
<1> DEFINE s == StreamOf[r]
<1>0. /\ s \in Streams /\ queue[s] \in Seq(Answers) /\ Has(s) = Len(got[s]) + Len(queue[s])
      /\ given \in Nat /\ Has(s) \in Nat /\ TypeOK /\ hops \in Seq(Hops)
      /\ Streams = Branches \cup {Body} /\ Body \notin Branches /\ Body \in Streams
      /\ buf \in [Branches -> Seq(Answers)] /\ done \in BOOLEAN /\ errored \in BOOLEAN
      /\ disturbed \in [Streams -> BOOLEAN]
  BY Types DEF Whole, TypeOK
<1>1. /\ s \in live /\ Loop(r, state[s], queue[s])
      /\ disturbed' = [disturbed EXCEPT ![s] = TRUE]
      /\ UNCHANGED <<given, cancelled, live, closed>>
  BY DEF Read
<1>2. /\ InOrder' /\ ClosedIsWhole' /\ Has(s)' = Has(s)
      /\ \A t \in Streams \ {s} : /\ Has(t)' = Has(t) /\ got'[t] = got[t]
                                  /\ queue'[t] = queue[t]
  <2>1. Holds(queue[s], Len(got[s])) /\ Len(got[s]) + Len(queue[s]) <= given
    BY <1>0 DEF Whole, InOrder
  <2>2. state[s] = "Closed" => Cancelled(s) \/ Len(got[s]) + Len(queue[s]) = Blocks
    BY <1>0 DEF Whole, ClosedIsWhole
  <2>3. Has(s) <= Len(got[s]) + Len(queue[s])
    BY <1>0
  <2>4. s \in Streams /\ queue[s] \in Seq(Answers)
    BY <1>0
  <2>5. /\ InOrder' /\ ClosedIsWhole' /\ Has(s)' = Len(got[s]) + Len(queue[s])
        /\ \A t \in Streams \ {s} : /\ Has(t)' = Has(t) /\ got'[t] = got[t]
                                    /\ queue'[t] = queue[t]
    BY <1>1, <2>1, <2>2, <2>3, <2>4, LoopIsWhole
  <2> QED BY <1>0, <2>5
<1>3. \A t \in Streams : Has(t)' = Has(t)
  BY <1>2
<1>4. CASE Body \in live
  <2>1. s = Body
    BY <1>1, <1>4 DEF Whole, OneFamily
  <2>2. UNCHANGED <<hops, buf, done>> /\ pulls' \subseteq pulls \cup {r}
    BY <2>1 DEF Read
  <2>3. OneFamily'
    <3>1. disturbed'[Body] # FALSE
      BY <1>0, <1>1, <2>1
    <3>2. /\ live' = {Body} /\ done' = FALSE
          /\ \A x \in pulls' : StreamOf[x] = Body
          /\ \A i \in DOMAIN hops' : StreamOf[hops'[i].read] = Body /\ hops'[i].from = "source"
      BY <1>1, <1>4, <2>1, <2>2 DEF Whole, OneFamily
    <3>3. \A t \in Branches : got'[t] = <<>> /\ queue'[t] = <<>> /\ buf'[t] = <<>>
      BY <1>0, <1>2, <1>4, <2>1, <2>2 DEF Whole, OneFamily
    <3> QED BY <3>1, <3>2, <3>3 DEF OneFamily
  <2>4. OnTheWay'
    BY <1>0, <1>1, <1>3, <1>4, <2>2 DEF Whole, OnTheWay
  <2>5. EndsLast'
    BY <1>1, <2>2 DEF Whole, EndsLast
  <2> QED BY <1>2, <2>3, <2>4, <2>5
<1>5. CASE Body \notin live
  <2>1. s \in Branches
    BY <1>0, <1>1, <1>5
  <2>2. /\ \A x \in pulls : StreamOf[x] \in Branches
        /\ \A i \in DOMAIN hops : StreamOf[hops[i].read] \in Branches
        /\ \A t \in Branches : Split(t, hops, buf[t], Has(t), closed[t], given)
        /\ SourceEnds(hops, given) /\ BranchEnds(hops, done, buf, closed)
        /\ TeeEnds(hops, done, given)
    BY <1>5 DEF Whole, OneFamily, OnTheWay, EndsLast
  <2>3. /\ \A t \in Branches : Split(t, hops', buf'[t], Has(t), closed[t], given)
        /\ SourceEnds(hops', given) /\ BranchEnds(hops', done', buf', closed)
        /\ TeeEnds(hops', done', given)
        /\ \A i \in DOMAIN hops' : StreamOf[hops'[i].read] \in Branches
        /\ pulls' \subseteq pulls \cup {r}
    <3>1. CASE result'[r] # "pulling"
      <4>1. UNCHANGED <<pulls, hops, buf, done, errored>>
        BY <3>1 DEF Read
      <4> QED BY <2>2, <4>1
    <3>2. CASE result'[r] = "pulling"
      <4>1. Branch(r, hops, buf, done, errored)
        BY <1>0, <2>1, <3>2 DEF Read
      <4> QED BY <1>0, <2>1, <2>2, <4>1, BranchKeeps
    <3> QED BY <3>1, <3>2
  <2>4. OneFamily'
    <3>1. \A x \in pulls' : StreamOf[x] \in Branches
      BY <2>1, <2>2, <2>3
    <3> QED BY <1>1, <1>5, <2>3, <3>1 DEF OneFamily
  <2>5. OnTheWay'
    BY <1>0, <1>1, <1>3, <1>5, <2>3 DEF OnTheWay
  <2>6. EndsLast'
    BY <1>1, <2>3 DEF EndsLast
  <2> QED BY <1>2, <2>4, <2>5, <2>6
<1> QED BY <1>4, <1>5

\* At the end that a read is resumed with, its stream has all the blocks or was cancelled.
LEMMA EndIsLast ==
  ASSUME Whole, hops # <<>>, Head(hops).answer.kind = "eof", NEW s \in Streams,
         s = StreamOf[Head(hops).read],
         IF Body \in live THEN s = Body /\ Head(hops).from = "source"
         ELSE s \in Branches /\ Head(hops).from = "branch"
  PROVE  Cancelled(s) \/ Has(s) = Blocks
<1>0. /\ hops \in Seq(Hops) /\ given \in Nat /\ Has(s) \in Nat /\ Body \notin Branches
      /\ Head(hops) = hops[1] /\ 1 \in DOMAIN hops /\ Streams = Branches \cup {Body}
      /\ \A j \in DOMAIN hops : ~(j < 1)
      /\ \A t \in Branches : buf[t] \in Seq(Answers) /\ closed[t] \in BOOLEAN
  <2>1. TypeOK
    BY DEF Whole
  <2>2. hops \in Seq(Hops)
    BY <2>1, Types
  <2>3. /\ Head(hops) = hops[1] /\ 1 \in DOMAIN hops
        /\ \A j \in DOMAIN hops : j \in Nat \ {0}
    BY <2>2, TailMeans
  <2>4. \A j \in Nat \ {0} : ~(j < 1)
    OBVIOUS
  <2> QED BY <2>1, <2>2, <2>3, <2>4, Types
<1>1. SourceEnds(hops, given) /\ BranchEnds(hops, done, buf, closed) /\ TeeEnds(hops, done, given)
  BY DEF Whole, EndsLast
<1>2. ASSUME NEW f, NEW S, LastHop(hops, 1, f, S) PROVE \A j \in DOMAIN hops : ~Brings(hops[j], f, S)
  BY <1>0, <1>2, Zenon DEF LastHop
<1>3. CASE Body \in live
  <2>1. given = Blocks /\ LastHop(hops, 1, "source", Streams) /\ s = Body
    BY <1>0, <1>1, <1>3 DEF SourceEnds
  <2>2. \A j \in DOMAIN hops : ~Brings(hops[j], "source", {Body})
    <3>1. \A j \in DOMAIN hops : ~Brings(hops[j], "source", Streams)
      BY <1>2, <2>1
    <3> QED BY <1>0, <3>1 DEF Brings
  <2>3. Carry(hops, "source", {Body}, Has(Body), given)
    BY <1>3 DEF Whole, OnTheWay
  <2> QED BY <1>0, <2>1, <2>2, <2>3, CarryNone
<1>4. CASE Body \notin live
  <2>1. s \in Branches /\ s # Body
    BY <1>0, <1>4
  <2>2. CASE closed[s] = TRUE
    BY <2>1, <2>2 DEF Cancelled
  <2>3. CASE closed[s] = FALSE
    <3>1. done = TRUE /\ buf[s] = <<>> /\ LastHop(hops, 1, "branch", {s})
      BY <1>0, <1>1, <1>4, <2>3 DEF BranchEnds
    <3>2. given = Blocks /\ \A j \in DOMAIN hops : ~Brings(hops[j], "source", Branches)
      BY <1>1, <3>1 DEF TeeEnds
    <3>3. \A j \in DOMAIN hops : ~Brings(hops[j], "branch", {s})
      BY <1>2, <3>1
    <3>4. PICK m \in 0..given : /\ Carry(hops, "branch", {s}, Has(s), m)
                                /\ Carry(hops, "source", Branches, m + Len(buf[s]), given)
      <4>1. Split(s, hops, buf[s], Has(s), closed[s], given)
        BY <1>4, <2>1 DEF Whole, OnTheWay
      <4> QED BY <2>3, <4>1 DEF Split
    <3>5. m \in Nat /\ m + Len(buf[s]) = m
      BY <3>1
    <3>6. Carry(hops, "source", Branches, m, given)
      BY <3>4, <3>5
    <3>7. Has(s) = m /\ m = given
      BY <1>0, <3>2, <3>3, <3>4, <3>5, <3>6, CarryNone
    <3> QED BY <3>2, <3>7
  <2> QED BY <1>0, <2>1, <2>2, <2>3
<1> QED BY <1>3, <1>4

\* What a branch's next block is: the one after those its stream has.
LEMMA SplitBrings ==
  ASSUME NEW s \in Branches, NEW q \in Seq(Hops), NEW b \in Seq(Answers), NEW lo \in Nat,
         NEW c \in BOOLEAN, NEW g \in Nat, Split(s, q, b, lo, c, g), q # <<>>,
         Brings(Head(q), "branch", {s})
  PROVE  Head(q).answer = Block(lo + 1)
BY SplitTaken

\* Taking a branch's block in: the facts of SplitTaken, of the hop that runs now.
LEMMA BranchTaken ==
  ASSUME NEW s \in Branches, hops \in Seq(Hops), hops # <<>>, buf[s] \in Seq(Answers),
         Has(s) \in Nat, closed[s] \in BOOLEAN, given \in Nat,
         Split(s, hops, buf[s], Has(s), closed[s], given), Brings(Head(hops), "branch", {s})
  PROVE  /\ Has(s) < given
         /\ Head(hops).answer = Block(Has(s) + 1)
         /\ Split(s, Tail(hops), buf[s], Has(s) + 1, closed[s], given)
<1>1. ASSUME NEW q \in Seq(Hops), NEW b \in Seq(Answers), NEW lo \in Nat,
             NEW c \in BOOLEAN, NEW g \in Nat, Split(s, q, b, lo, c, g), q # <<>>,
             Brings(Head(q), "branch", {s})
      PROVE  lo < g
  BY <1>1, SplitTaken
<1>2. ASSUME NEW q \in Seq(Hops), NEW b \in Seq(Answers), NEW lo \in Nat,
             NEW c \in BOOLEAN, NEW g \in Nat, Split(s, q, b, lo, c, g), q # <<>>,
             Brings(Head(q), "branch", {s})
      PROVE  Head(q).answer = Block(lo + 1)
  BY <1>2, SplitBrings, Zenon
<1>3. ASSUME NEW q \in Seq(Hops), NEW b \in Seq(Answers), NEW lo \in Nat,
             NEW c \in BOOLEAN, NEW g \in Nat, Split(s, q, b, lo, c, g), q # <<>>,
             Brings(Head(q), "branch", {s})
      PROVE  Split(s, Tail(q), b, lo + 1, c, g)
  BY <1>3, SplitTaken
<1>4. Has(s) < given
  BY <1>1, Zenon
<1>5. Head(hops).answer = Block(Has(s) + 1)
  BY <1>2, Zenon
<1>6. Split(s, Tail(hops), buf[s], Has(s) + 1, closed[s], given)
  BY <1>3, Zenon
<1> QED BY <1>4, <1>5, <1>6

\* read() resumes: it takes the block that was on its way to it, or the end.
LEMMA ResumeKeeps ==
  ASSUME Whole, ResumeRead, NEW r, r = Head(hops).read, NEW a, a = Head(hops).answer,
         NEW s, s = StreamOf[r]
  PROVE  OneFamily' /\ InOrder' /\ OnTheWay' /\ EndsLast' /\ ClosedIsWhole'
<1>0. /\ hops # <<>> /\ hops \in Seq(Hops) /\ Head(hops) \in Hops /\ Tail(hops) \in Seq(Hops)
      /\ r \in Reads /\ a \in Answers /\ s \in Streams /\ Head(hops).from \in {"source", "branch"}
      /\ given \in Nat /\ Blocks \in Nat /\ given <= Blocks /\ TypeOK
      /\ queue[s] \in Seq(Answers) /\ Len(got[s]) \in Nat /\ Len(queue[s]) \in Nat
      /\ Has(s) \in Nat /\ Has(s) = Len(got[s]) + Len(queue[s])
      /\ Streams = Branches \cup {Body} /\ Body \notin Branches /\ Body \in Streams
      /\ \A t \in Branches : buf[t] \in Seq(Answers) /\ closed[t] \in BOOLEAN
      /\ \A t \in Streams : Has(t) \in Nat
  BY Types DEF Whole, ResumeRead
<1>n. /\ given \in Nat /\ Blocks \in Nat /\ given <= Blocks
      /\ Len(got[s]) \in Nat /\ Len(queue[s]) \in Nat
      /\ Has(s) \in Nat /\ Has(s) = Len(got[s]) + Len(queue[s])
  BY <1>0
<1>h. Holds(queue[s], Len(got[s])) /\ Has(s) <= given
  BY <1>0 DEF Whole, InOrder
<1>1. /\ hops' = Tail(hops) /\ (Head(hops).from = "branch" \/ s = Body)
      /\ UNCHANGED <<given, cancelled, pulls, live, buf, closed, done, disturbed>>
  BY DEF ResumeRead, source, tee
<1>2. /\ Head(hops) = hops[1] /\ 1 \in DOMAIN hops
      /\ \A i \in DOMAIN Tail(hops) : i + 1 \in DOMAIN hops /\ Tail(hops)[i] = hops[i + 1]
  BY <1>0, TailMeans
<1>3. IF Body \in live THEN s = Body /\ Head(hops).from = "source"
      ELSE s \in Branches /\ Head(hops).from = "branch"
  BY <1>0, <1>1, <1>2 DEF Whole, OneFamily
<1>4. EndsLast'
  <2>1. SourceEnds(hops, given) /\ BranchEnds(hops, done, buf, closed) /\ TeeEnds(hops, done, given)
    BY DEF Whole, EndsLast
  <2>2. /\ SourceEnds(Tail(hops), given) /\ BranchEnds(Tail(hops), done, buf, closed)
        /\ TeeEnds(Tail(hops), done, given)
    BY <1>0, <2>1, EndsTail
  <2> QED BY <1>1, <2>2 DEF EndsLast
<1>5. ASSUME \A t \in Streams \ {s} : got'[t] = got[t] /\ queue'[t] = queue[t]
      PROVE  OneFamily'
  <2>1. CASE Body \in live
    <3>1. disturbed[Body] # FALSE
      BY <1>0, <2>1 DEF Whole, OneFamily
    <3>2. \A t \in Branches : got'[t] = <<>> /\ queue'[t] = <<>> /\ buf'[t] = <<>>
      BY <1>0, <1>1, <1>3, <1>5, <2>1 DEF Whole, OneFamily
    <3>3. \A i \in DOMAIN hops' : StreamOf[hops'[i].read] = Body /\ hops'[i].from = "source"
      BY <1>1, <1>2, <2>1 DEF Whole, OneFamily
    <3>4. live' = {Body} /\ done' = FALSE /\ \A x \in pulls' : StreamOf[x] = Body
      BY <1>1, <2>1 DEF Whole, OneFamily
    <3> QED BY <1>1, <3>1, <3>2, <3>3, <3>4 DEF OneFamily
  <2>2. CASE Body \notin live
    BY <1>1, <1>2, <2>2 DEF Whole, OneFamily
  <2> QED BY <2>1, <2>2
<1>6. ASSUME NEW n \in Nat, Has(s)' = n, \A t \in Streams \ {s} : Has(t)' = Has(t),
             Body \in live => Carry(Tail(hops), "source", {Body}, n, given),
             Body \notin live =>
               /\ Split(s, Tail(hops), buf[s], n, closed[s], given)
               /\ \A t \in Branches \ {s} : Split(t, Tail(hops), buf[t], Has(t), closed[t], given)
      PROVE  OnTheWay'
  <2>1. CASE Body \in live
    BY <1>1, <1>3, <1>6, <2>1 DEF OnTheWay
  <2>2. CASE Body \notin live
    <3>1. ASSUME NEW t \in Branches
          PROVE  Split(t, Tail(hops), buf[t], Has(t)', closed[t], given)
      BY <1>0, <1>6, <2>2
    <3> QED BY <1>1, <2>2, <3>1 DEF OnTheWay
  <2> QED BY <2>1, <2>2
<1>7. ASSUME a.kind # "block"
      PROVE  /\ Body \in live => Carry(Tail(hops), "source", {Body}, Has(s), given)
             /\ Body \notin live =>
                  /\ Split(s, Tail(hops), buf[s], Has(s), closed[s], given)
                  /\ \A t \in Branches \ {s} : Split(t, Tail(hops), buf[t], Has(t), closed[t], given)
  <2>1. ASSUME NEW f, NEW S PROVE ~Brings(Head(hops), f, S)
    BY <1>7 DEF Brings
  <2>2. ASSUME Body \in live PROVE Carry(Tail(hops), "source", {Body}, Has(s), given)
    <3>1. Carry(hops, "source", {Body}, Has(s), given)
      BY <1>3, <2>2 DEF Whole, OnTheWay
    <3> QED BY <1>0, <2>1, <3>1, CarryTail
  <2>3. ASSUME Body \notin live, NEW t \in Branches
        PROVE  Split(t, Tail(hops), buf[t], Has(t), closed[t], given)
    <3>1. Split(t, hops, buf[t], Has(t), closed[t], given)
      BY <2>3 DEF Whole, OnTheWay
    <3>2. buf[t] \in Seq(Answers) /\ closed[t] \in BOOLEAN /\ Has(t) \in Nat
          /\ hops \in Seq(Hops) /\ hops # <<>> /\ given \in Nat
      BY <1>0
    <3> QED BY <2>1, <3>1, <3>2, SplitServes
  <2> QED BY <1>3, <2>2, <2>3
<1>8. CASE a.kind = "stopped"
  <2>1. result' = [result EXCEPT ![r] = "stopped"] /\ UNCHANGED <<got, state, queue>>
    BY <1>8 DEF ResumeRead
  <2>2. \A t \in Streams : Has(t)' = Has(t)
    BY <2>1 DEF Has
  <2>3. InOrder'
    BY <1>1, <2>1, <2>2 DEF Whole, InOrder
  <2>4. ClosedIsWhole'
    <3>1. \A x \in Reads : result'[x] = "done" => result[x] = "done"
      BY <1>0, <2>1 DEF TypeOK
    <3>2. \A t \in Streams : Cancelled(t)' <=> Cancelled(t)
      BY <1>1 DEF Cancelled
    <3>3. \A x \in Reads : StreamOf[x] \in Streams
      BY <1>0, Types
    <3>4. \A t \in Streams : state'[t] = "Closed" => Cancelled(t)' \/ Has(t)' = Blocks
      BY <2>1, <2>2, <3>2 DEF Whole, ClosedIsWhole
    <3>5. \A x \in Reads : result'[x] = "done" =>
            Cancelled(StreamOf[x])' \/ Len(got'[StreamOf[x]]) = Blocks
      BY <2>1, <3>1, <3>2, <3>3 DEF Whole, ClosedIsWhole
    <3> QED BY <3>4, <3>5 DEF ClosedIsWhole
  <2>5. OneFamily'
    BY <1>5, <2>1
  <2>6. OnTheWay'
    BY <1>0, <1>6, <1>7, <1>8, <2>2
  <2> QED BY <1>4, <2>3, <2>4, <2>5, <2>6
<1>9. CASE a.kind \in {"error", "eof"}
  <2>1. PICK st \in {"Errored", "Closed"} :
          Loop(r, st, queue[s]) /\ (st = "Closed" => a.kind = "eof")
    BY <1>9 DEF ResumeRead
  <2>2. st = "Closed" => Cancelled(s) \/ Len(got[s]) + Len(queue[s]) = Blocks
    <3>1. a.kind = "eof" => Cancelled(s) \/ Has(s) = Blocks
      BY <1>0, <1>3, EndIsLast
    <3> QED BY <1>0, <2>1, <3>1
  <2>3. Holds(queue[s], Len(got[s])) /\ Len(got[s]) + Len(queue[s]) <= given
        /\ Has(s) <= Len(got[s]) + Len(queue[s])
    <3>1. \A x \in Nat : x <= x
      OBVIOUS
    <3> QED BY <1>n, <1>h, <3>1, Zenon
  <2>4. /\ InOrder' /\ ClosedIsWhole' /\ Has(s)' = Len(got[s]) + Len(queue[s])
        /\ \A t \in Streams \ {s} : /\ Has(t)' = Has(t) /\ got'[t] = got[t]
                                    /\ queue'[t] = queue[t]
    <3>1. r \in Reads /\ s \in Streams /\ queue[s] \in Seq(Answers)
      BY <1>0
    <3> QED BY <1>1, <2>1, <2>2, <2>3, <3>1, LoopIsWhole
  <2>5. OneFamily'
    BY <1>5, <2>4
  <2>6. OnTheWay'
    BY <1>0, <1>6, <1>7, <1>9, <2>4
  <2> QED BY <1>4, <2>4, <2>5, <2>6
<1>10. CASE a.kind = "block"
  <2> DEFINE q == Append(queue[s], a)
  <2>1. Loop(r, state[s], q)
    BY <1>10 DEF ResumeRead
  <2>2. /\ Has(s) < given /\ a = Block(Has(s) + 1)
        /\ Body \in live => Carry(Tail(hops), "source", {Body}, Has(s) + 1, given)
        /\ Body \notin live =>
             /\ Split(s, Tail(hops), buf[s], Has(s) + 1, closed[s], given)
             /\ \A t \in Branches \ {s} : Split(t, Tail(hops), buf[t], Has(t), closed[t], given)
    <3>1. CASE Body \in live
      <4>1. Carry(hops, "source", {Body}, Has(s), given) /\ Brings(Head(hops), "source", {Body})
        BY <1>3, <1>10, <3>1 DEF Whole, OnTheWay, Brings
      <4> QED BY <1>0, <3>1, <4>1, CarryHead
    <3>2. CASE Body \notin live
      <4>1. s \in Branches /\ Head(hops).from = "branch"
        BY <1>3, <3>2
      <4>2. \A t \in Branches : Split(t, hops, buf[t], Has(t), closed[t], given)
        BY <3>2 DEF Whole, OnTheWay
      <4>3. Brings(Head(hops), "branch", {s}) /\ ~Brings(Head(hops), "source", Branches)
            /\ \A t \in Branches \ {s} : ~Brings(Head(hops), "branch", {t})
        BY <1>10, <4>1 DEF Brings
      <4>4. Has(s) < given /\ a = Block(Has(s) + 1)
            /\ Split(s, Tail(hops), buf[s], Has(s) + 1, closed[s], given)
        <5>1. buf[s] \in Seq(Answers) /\ closed[s] \in BOOLEAN /\ Has(s) \in Nat
              /\ hops \in Seq(Hops) /\ hops # <<>> /\ given \in Nat
          BY <1>0, <4>1
        <5>2. Split(s, hops, buf[s], Has(s), closed[s], given)
          BY <4>1, <4>2
        <5>3. s \in Branches /\ Brings(Head(hops), "branch", {s})
          BY <4>1, <4>3
        <5> QED BY <5>1, <5>2, <5>3, BranchTaken
      <4>5. ASSUME NEW t \in Branches \ {s}
            PROVE  Split(t, Tail(hops), buf[t], Has(t), closed[t], given)
        <5>1. buf[t] \in Seq(Answers) /\ closed[t] \in BOOLEAN /\ Has(t) \in Nat
              /\ hops \in Seq(Hops) /\ hops # <<>> /\ given \in Nat
          BY <1>0
        <5>2. Split(t, hops, buf[t], Has(t), closed[t], given)
          BY <4>2
        <5>3. /\ t \in Branches /\ ~Brings(Head(hops), "branch", {t})
              /\ ~Brings(Head(hops), "source", Branches)
          BY <4>3
        <5> QED BY <5>1, <5>2, <5>3, SplitServes
      <4> QED BY <3>2, <4>4, <4>5
    <3> QED BY <3>1, <3>2
  <2>3. /\ Holds(q, Len(got[s])) /\ Len(q) = Len(queue[s]) + 1 /\ q \in Seq(Answers)
    <3>1. Holds(queue[s], Len(got[s])) /\ a = Block(Len(got[s]) + Len(queue[s]) + 1)
      BY <1>0, <2>2 DEF Whole, InOrder
    <3>2. queue[s] \in Seq(Answers) /\ a \in Answers /\ Len(got[s]) \in Nat
      BY <1>0
    <3>3. Append(queue[s], a) \in Seq(Answers)
      BY <3>2
    <3> QED BY <3>1, <3>2, <3>3, HoldsMore
  <2> HIDE DEF q
  <2>4. Len(got[s]) + Len(q) = Has(s) + 1
    <3>1. \A x, y \in Nat : x + (y + 1) = (x + y) + 1
      OBVIOUS
    <3>2. Len(got[s]) + Len(q) = Len(got[s]) + (Len(queue[s]) + 1)
      BY <2>3
    <3>3. Len(got[s]) + (Len(queue[s]) + 1) = (Len(got[s]) + Len(queue[s])) + 1
      BY <1>n, <3>1, Zenon
    <3> QED BY <1>n, <3>2, <3>3, Zenon
  <2>5. /\ Len(got[s]) + Len(q) <= given /\ Has(s) <= Len(got[s]) + Len(q)
    <3>1. Has(s) < given
      BY <2>2
    <3>2. \A x, y \in Nat : x < y => x + 1 <= y /\ x <= x + 1
      OBVIOUS
    <3> QED BY <1>n, <2>4, <3>1, <3>2, Zenon
  <2>6. state[s] = "Closed" => Cancelled(s) \/ Len(got[s]) + Len(q) = Blocks
    <3>1. Has(s) # Blocks
      <4>1. Has(s) < given
        BY <2>2
      <4>2. \A x, y, z \in Nat : x < y /\ y <= z => x # z
        OBVIOUS
      <4> QED BY <1>n, <4>1, <4>2, Zenon
    <3> QED BY <1>0, <3>1 DEF Whole, ClosedIsWhole
  <2>7. /\ InOrder' /\ ClosedIsWhole' /\ Has(s)' = Len(got[s]) + Len(q)
        /\ \A t \in Streams \ {s} : /\ Has(t)' = Has(t) /\ got'[t] = got[t]
                                    /\ queue'[t] = queue[t]
    <3>1. r \in Reads /\ s \in Streams
      BY <1>0
    <3> QED BY <1>1, <2>1, <2>3, <2>5, <2>6, <3>1, LoopIsWhole
  <2>8. OneFamily'
    BY <1>5, <2>7
  <2>9. OnTheWay'
    <3>1. Has(s)' = Has(s) + 1 /\ Has(s) + 1 \in Nat
      <4>1. \A x \in Nat : x + 1 \in Nat
        OBVIOUS
      <4> QED BY <1>n, <2>4, <2>7, <4>1, Zenon
    <3> QED BY <1>6, <2>2, <2>7, <3>1
  <2> QED BY <1>4, <2>7, <2>8, <2>9
<1> QED BY <1>0, <1>8, <1>9, <1>10, AnswerTypes

\* Every step keeps the blocks in order, and the ends behind them.
LEMMA WholeStep == Whole /\ [Next]_vars => Whole'
<1> SUFFICES ASSUME Whole, [Next]_vars PROVE Whole'
  OBVIOUS
<1>1. TypeOK'
  BY TypesStep DEF Whole
<1>2. ASSUME NEW r \in Reads, Read(r) \/ Answer(r) PROVE Whole'
  BY <1>1, <1>2, ReadKeeps, AnswerKeeps DEF Whole
<1>3. CASE ResumeTee \/ ResumeRead \/ Clone
  BY <1>1, <1>3, TeeKeeps, ResumeKeeps, CloneKeeps DEF Whole
<1>4. ASSUME NEW s \in Branches, Drop(s) PROVE Whole'
  BY <1>1, <1>4, DropKeeps DEF Whole
<1>5. CASE \/ \E s \in Streams : \/ Cancel(s) \/ ReaderCancel(s) \/ GetReader(s) \/ Closed(s)
                                 \/ ReleaseLock(s) \/ DropReader(s) \/ OnStop(s)
           \/ SourceStop \/ Abort \/ UNCHANGED vars
  BY <1>1, <1>5, QuietSteps DEF Whole
<1> QED BY <1>2, <1>3, <1>4, <1>5 DEF Next

\* Before the first step nothing has been given.
LEMMA WholeInit == Init => Whole
<1> SUFFICES ASSUME Init PROVE Whole
  OBVIOUS
<1>0. /\ TypeOK /\ Body \in Streams /\ Branches \subseteq Streams
      /\ given = 0 /\ pulls = {} /\ hops = <<>> /\ live = {Body} /\ done = FALSE
      /\ \A s \in Streams : queue[s] = <<>> /\ got[s] = <<>> /\ state[s] = "Readable"
      /\ \A s \in Branches : buf[s] = <<>>
      /\ \A r \in Reads : result[r] = "idle"
  BY TypesInit DEF Init, Streams
<1>1. \A s \in Streams : Len(got[s]) = 0 /\ Len(queue[s]) = 0 /\ Has(s) = 0
  <2>1. Len(<<>>) = 0 /\ 0 + 0 = 0
    OBVIOUS
  <2> QED BY <1>0, <2>1 DEF Has
<1>2. OneFamily
  BY <1>0 DEF OneFamily
<1>3. InOrder
  <2>1. \A s \in Streams : Holds(got[s], 0) /\ Holds(queue[s], Len(got[s]))
    BY <1>0 DEF Holds
  <2> QED BY <1>0, <1>1, <2>1 DEF InOrder
<1>4. OnTheWay
  <2>1. Carry(<<>>, "source", {Body}, 0, 0)
    <3>1. <<>> \in Seq(Hops) /\ \A i \in DOMAIN <<>> : FALSE
      OBVIOUS
    <3> QED BY <3>1, CarryNone
  <2> QED BY <1>0, <1>1, <2>1 DEF OnTheWay
<1>5. EndsLast
  BY <1>0 DEF EndsLast, SourceEnds, BranchEnds, TeeEnds
<1>6. ClosedIsWhole
  BY <1>0 DEF ClosedIsWhole
<1> QED BY <1>0, <1>2, <1>3, <1>4, <1>5, <1>6 DEF Whole

\* A reader of a body gets every block once and in order, and is told the end only after the
\* last, for any number of blocks, of reads that overlap and of branches, whatever is
\* cancelled, stopped or collected between the answer to a read and its resumption.
THEOREM BlocksArriveOnce == Spec => []EveryBlockOnce
BY WholeInit, WholeStep, WholeIsOnce, PTL DEF Spec

-----------------------------------------------------------------------------
\* After on_stop() every turn of read()'s loop ends with AbortError, whatever the queue holds
\* and the source answers: the safety half of ReadsEnd.
THEOREM AbortedReadsReject == Spec => AbortRejects
<1>1. ASSUME TypeOK, NEW r \in Reads, NEW st, NEW q, Loop(r, st, q), NEW x \in Reads,
             stop_requested[StreamOf[x]], result'[x] # result[x]
      PROVE  result'[x] = "stopped"
  <2>1. result \in [Reads -> Results]
    BY <1>1 DEF TypeOK
  <2>2. x = r /\ result'[x] = Outcome(StreamOf[r], st, q)
    BY <1>1, <2>1 DEF Loop
  <2> QED BY <1>1, <2>2 DEF Outcome
<1>2. ASSUME TypeOK, [Next]_vars, NEW x \in Reads,
             stop_requested[StreamOf[x]], result'[x] # result[x]
      PROVE  result'[x] \in {"pulling", "stopped"}
  <2>1. ASSUME NEW r \in Reads, Read(r) PROVE result'[x] = "stopped"
    BY <1>1, <1>2, <2>1 DEF Read
  <2>2. ASSUME ResumeRead PROVE result'[x] = "stopped"
    <3> DEFINE r == Head(hops).read
               a == Head(hops).answer
    <3>1. r \in Reads /\ a \in Answers
      <4>1. hops # <<>> /\ hops \in Seq(Hops)
        BY <1>2, <2>2 DEF ResumeRead, TypeOK, Hops
      <4>2. Head(hops) \in Hops
        BY <4>1
      <4> QED BY <4>2 DEF Hops
    <3>2. a.kind \in {"block", "eof", "error", "stopped"}
      BY <3>1, AnswerTypes
    <3>3. CASE a.kind = "stopped"
      <4>1. result' = [result EXCEPT ![r] = "stopped"]
        BY <2>2, <3>3 DEF ResumeRead
      <4> QED BY <1>2, <3>1, <4>1 DEF TypeOK
    <3>4. CASE a.kind = "error"
      <4>1. Loop(r, "Errored", queue[StreamOf[r]])
        BY <2>2, <3>4 DEF ResumeRead
      <4> QED BY <1>1, <1>2, <3>1, <4>1
    <3>5. CASE a.kind = "eof"
      <4>1. Loop(r, "Closed", queue[StreamOf[r]])
        BY <2>2, <3>5 DEF ResumeRead
      <4> QED BY <1>1, <1>2, <3>1, <4>1
    <3>6. CASE a.kind = "block"
      <4>1. Loop(r, state[StreamOf[r]], Append(queue[StreamOf[r]], a))
        BY <2>2, <3>6 DEF ResumeRead
      <4> QED BY <1>1, <1>2, <3>1, <4>1
    <3> QED BY <3>2, <3>3, <3>4, <3>5, <3>6
  <2>3. CASE UNCHANGED result
    BY <1>2, <2>3
  <2> QED BY <1>2, <2>1, <2>2, <2>3
          DEF Next, Answer, SourceStop, ResumeTee, Abort, Clone, Cancel, ReaderCancel, GetReader,
              Closed, ReleaseLock, DropReader, OnStop, Drop, vars, reads
<1>3. TypeOK /\ [Next]_vars =>
        [\A r \in Reads : stop_requested[StreamOf[r]] /\ result'[r] # result[r]
           => result'[r] \in {"pulling", "stopped"}]_vars
  BY <1>2
<1> QED BY <1>3, StreamTypes, PTL DEF Spec, AbortRejects

=============================================================================

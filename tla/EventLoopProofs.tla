-------------------------- MODULE EventLoopProofs --------------------------
(***************************************************************************)
(* Safety of the event loop and its timers, for any runtimes, tasks and    *)
(* timers, any number of rounds and whatever scripts do, and what is left  *)
(* behind when a round ends.                                               *)
(***************************************************************************)
EXTENDS EventLoop, FiniteSetTheorems, TLAPS

Placed(r, h) == \E i \in 1..Len(ready[r]) : ready[r][i] = h

\* A script runs only where the thread is between two calls, and a job in a pump; nothing
\* is left to pump on the way from a pump to run_one() or out of the loop, but behind a job
\* that threw; and the pump that ends shutdown()'s loop is not followed by another turn.
LoopShape ==
  \A r \in Runtimes :
    /\ js[r] # "none" => phase[r] \in {"idle", "pump", "check", "drain"}
    /\ js[r] = "job" => phase[r] = "pump"
    /\ phase[r] = "poll" => jobs[r] = 0 \/ threw[r]
    /\ phase[r] = "check" /\ loop[r] = "script" => (jobs[r] = 0 \/ threw[r]) /\ js[r] = "none"
    /\ phase[r] \in {"check", "poll"} => loop[r] # "last"

\* The queue holds the settlement of each posted task once, and a timer's handler
\* once and never together with its wait.
QueueShape ==
  /\ \A r \in Runtimes : \A i \in 1..Len(ready[r]) :
       /\ ready[r][i] \in Tasks => TaskOf[ready[r][i]] = r /\ task[ready[r][i]] = "posted"
       /\ ready[r][i] \in Timers =>
            Owner[ready[r][i]] = r /\ ready[r][i] \in created \ armed
       /\ ready[r][i] # Stop =>
            \A j \in 1..Len(ready[r]) : ready[r][j] = ready[r][i] => i = j

\* A timeout that still has a wait or a handler has never called back.
TimeoutFresh ==
  \A t \in Timers :
    /\ t \notin created => last[t] = None
    /\ t \notin Repeats /\ (t \in armed \/ Placed(Owner[t], t)) => last[t] = None

LoopInv == /\ TypeOK /\ LoopShape /\ QueueShape /\ TimeoutFresh
           /\ PendingExact /\ ScriptWaitsForAll /\ RegisteredWillFire

\* The queue's two operations.
LEMMA Appended ==
  ASSUME NEW s \in Seq(Handlers), NEW h \in Handlers
  PROVE  /\ Append(s, h) \in Seq(Handlers) /\ Len(Append(s, h)) = Len(s) + 1
         /\ \A i \in 1..Len(s) : Append(s, h)[i] = s[i]
         /\ Append(s, h)[Len(s) + 1] = h
OBVIOUS

LEMMA Popped ==
  ASSUME NEW s \in Seq(Handlers), s # <<>>
  PROVE  /\ Tail(s) \in Seq(Handlers) /\ Len(s) \in Nat \ {0} /\ Len(Tail(s)) = Len(s) - 1
         /\ \A i \in 1..Len(Tail(s)) : Tail(s)[i] = s[i + 1]
         /\ Head(s) = s[1] /\ Head(s) \in Handlers
OBVIOUS

\* A handler is queued when it stands at some position.
LEMMA QueuedIsPlaced ==
  ASSUME TypeOK, NEW r \in Runtimes, NEW h PROVE Queued(r, h) <=> Placed(r, h)
BY DEF TypeOK, Queued, Placed

\* The tasks in flight are finite in number, as Tasks is.
LEMMA InFlightFinite ==
  ASSUME NEW r \in Runtimes
  PROVE  IsFiniteSet(InFlight(r)) /\ IsFiniteSet(InFlight(r)')
<1>1. InFlight(r) \subseteq Tasks /\ InFlight(r)' \subseteq Tasks
  BY DEF InFlight
<1>2. QED
  BY <1>1, LoopAssumption, FS_Subset

\* The initial state satisfies the invariant.
LEMMA LoopInit == Init => LoopInv
<1> SUFFICES ASSUME Init PROVE LoopInv
  OBVIOUS
<1> USE DEF Init, TimersInit
<1>1. TypeOK
  BY TimersAssumption, LoopAssumption DEF TypeOK, Phases, Loops, Lives, Scripts
<1>2. LoopShape /\ ScriptWaitsForAll
  BY DEF LoopShape, ScriptWaitsForAll
<1>3. QueueShape /\ TimeoutFresh /\ RegisteredWillFire
  BY DEF QueueShape, TimeoutFresh, RegisteredWillFire
<1>4. PendingExact
  <2>1. ASSUME NEW r \in Runtimes PROVE InFlight(r) = {}
    BY DEF InFlight
  <2>2. QED
    BY <2>1, FS_EmptySet DEF PendingExact
<1>5. QED
  BY <1>1, <1>2, <1>3, <1>4 DEF LoopInv

\* Every step keeps the types.
LEMMA TypeStep == LoopInv /\ [Next]_vars => TypeOK'
<1> SUFFICES ASSUME LoopInv, [Next]_vars PROVE TypeOK'
  OBVIOUS
<1>0. TypeOK
  BY DEF LoopInv
<1> USE <1>0, TimersAssumption, LoopAssumption
    DEF TypeOK, Phases, Loops, Lives, timerVars, clockVars, control, work, flags,
        bounds, history, loopVars, GoTo, At
<1>1. ASSUME NEW r \in Runtimes, Eval(r) \/ Run(r) \/ RunToCompletion(r) \/ Destroy(r)
      PROVE  TypeOK'
  <2>1. CASE Eval(r)
    BY <2>1 DEF Eval, Scripts
  <2>2. CASE Run(r)
    BY <2>2 DEF Run, Begin
  <2>3. CASE RunToCompletion(r)
    BY <2>3 DEF RunToCompletion, Begin
  <2>4. CASE Destroy(r)
    BY <2>4 DEF Destroy
  <2>5. QED
    BY <1>1, <2>1, <2>2, <2>3, <2>4
<1>2. ASSUME NEW r \in Runtimes, StopCall(r) PROVE TypeOK'
  BY <1>2 DEF StopCall, Post, Handlers
<1>3. ASSUME NEW r \in Runtimes, Script(r) PROVE TypeOK'
  <2>1. ASSUME NEW t \in Timers, JsTimer(r, t) \/ JsClear(r, t) PROVE TypeOK'
    <3>1. CASE JsTimer(r, t)
      <4>1. expiry' \in [Timers -> Nat] /\ ready' = ready /\ last' = last /\ now' = now
        BY <3>1 DEF JsTimer, Schedule
      <4>2. timer_map' \subseteq created' /\ armed' \subseteq created' /\ created' \subseteq Timers
        BY <3>1 DEF JsTimer, Schedule
      <4>3. QED
        BY <3>1, <4>1, <4>2 DEF JsTimer
    <3>2. CASE JsClear(r, t)
      BY <3>2 DEF JsClear, Clear
    <3>3. QED
      BY <2>1, <3>1, <3>2
  <2>2. ASSUME NEW k \in Tasks, JsSpawn(r, k) PROVE TypeOK'
    BY <2>2 DEF JsSpawn
  <2>3. CASE JsThen(r)
    BY <2>3 DEF JsThen
  <2>4. QED
    BY <1>3, <2>1, <2>2, <2>3 DEF Script
<1>4. ASSUME NEW r \in Runtimes, Handle(r) PROVE TypeOK'
  <2>1. ASSUME NEW t \in Timers, HandleTimer(r, t) PROVE TypeOK'
    <3>1. Tail(ready[r]) \in Seq(Handlers)
      BY <2>1, Popped DEF HandleTimer, Handles
    <3>2. QED
      <4>1. phase' \in [Runtimes -> Phases] /\ js' \in [Runtimes -> Scripts \cup {"none"}]
        BY <2>1 DEF HandleTimer, Resume, Scripts
      <4>2. t \in created
        BY <2>1, Popped DEF HandleTimer, Handles, LoopInv, QueueShape
      <4>3. CASE StartRepeat(r, t)
        BY <2>1, <3>1, <4>1, <4>2, <4>3 DEF HandleTimer, StartRepeat
      <4>4. CASE StartOnce(r, t)
        BY <2>1, <3>1, <4>1, <4>4 DEF HandleTimer, StartOnce
      <4>5. QED
        BY <2>1, <4>3, <4>4 DEF HandleTimer
  <2>2. CASE HandleStop(r)
    <3>1. Tail(ready[r]) \in Seq(Handlers)
      BY <2>2, Popped DEF HandleStop, Handles
    <3>2. QED
      BY <2>2, <3>1 DEF HandleStop, Handles, PopHandler, Resume
  <2>3. ASSUME NEW k \in Tasks, HandleSettle(r, k) PROVE TypeOK'
    <3>1. Tail(ready[r]) \in Seq(Handlers)
      BY <2>3, Popped DEF HandleSettle, Handles
    <3>2. pending[r] - 1 \in Nat
      <4>1. k \in InFlight(r)
        <5>1. 1 \in 1..Len(ready[r]) /\ ready[r][1] = k
          BY <2>3, Popped DEF HandleSettle, Handles
        <5>2. QED
          BY <5>1 DEF LoopInv, QueueShape, InFlight
      <4>2. InFlight(r) # {} /\ IsFiniteSet(InFlight(r))
        BY <4>1, InFlightFinite
      <4>3. Cardinality(InFlight(r)) \in Nat \ {0}
        BY <4>2, FS_EmptySet, FS_CardinalityType
      <4>4. QED
        BY <4>3 DEF LoopInv, PendingExact
    <3>3. QED
      <4>1. phase' \in [Runtimes -> Phases]
        BY <2>3 DEF HandleSettle, Resume
      <4>2. ready' \in [Runtimes -> Seq(Handlers)]
        BY <2>3, <3>1 DEF HandleSettle, PopHandler
      <4>3. pending' \in [Runtimes -> Nat] /\ jobs' \in [Runtimes -> Nat]
            /\ task' \in [Tasks -> Lives]
        BY <2>3, <3>2 DEF HandleSettle
      <4>4. QED
        BY <2>3, <4>1, <4>2, <4>3 DEF HandleSettle, PopHandler
  <2>4. QED
    BY <1>4, <2>1, <2>2, <2>3 DEF Handle
<1>5. ASSUME NEW r \in Runtimes, Steps(r) PROVE TypeOK'
  <2>1. CASE JsReturn(r)
    BY <2>1 DEF JsReturn
  <2>2. CASE Check(r)
    BY <2>2 DEF Check
  <2>3. CASE RunJob(r)
    BY <2>3 DEF RunJob, Scripts
  <2>4. CASE Pumped(r)
    BY <2>4 DEF Pumped, PumpReturns
  <2>4a. CASE JobThrows(r)
    BY <2>4a DEF JobThrows, PumpReturns
  <2>5. CASE ShutdownAgain(r)
    BY <2>5 DEF ShutdownAgain
  <2>6. CASE ShutdownBusy(r)
    BY <2>6 DEF ShutdownBusy
  <2>7. CASE ShutdownIdle(r)
    BY <2>7 DEF ShutdownIdle
  <2>8. CASE ClearTimers(r)
    BY <2>8 DEF ClearTimers, CancelAll
  <2>9. CASE Drained(r)
    BY <2>9 DEF Drained
  <2>10. CASE Joined(r)
    <3>1. CASE dtor[r]
      <4>1. ready' \in [Runtimes -> Seq(Handlers)]
        <5>1. ready' = [ready EXCEPT ![r] = <<>>]
          BY <2>10, <3>1 DEF Joined, DropContext
        <5>2. <<>> \in Seq(Handlers)
          OBVIOUS
        <5>3. QED
          BY <5>1, <5>2
      <4>2. phase' = [phase EXCEPT ![r] = "gone"]
        BY <2>10, <3>1 DEF Joined
      <4>3. phase' \in [Runtimes -> Phases] /\ armed' \subseteq created
        <5>1. armed' \subseteq armed
          BY <2>10, <3>1 DEF Joined, DropContext
        <5>2. QED
          BY <4>2, <5>1
      <4>4. /\ stopping' \in [Runtimes -> BOOLEAN]
            /\ UNCHANGED <<timer_map, created, expiry, last, now, loop, js, work, done,
                           shutdown_done, dtor, bounds, history>>
        BY <2>10, <3>1 DEF Joined, DropContext
      <4>5. QED
        BY <4>1, <4>3, <4>4
    <3>2. CASE ~dtor[r]
      BY <2>10, <3>2 DEF Joined
    <3>3. QED
      BY <3>1, <3>2
  <2>11. QED
    BY <1>5, <2>1, <2>2, <2>3, <2>4, <2>4a, <2>5, <2>6, <2>7, <2>8, <2>9, <2>10 DEF Steps
<1>6. ASSUME NEW t \in Timers, Expired(t) PROVE TypeOK'
  <2>1. /\ ready' = [ready EXCEPT ![Owner[t]] = Append(@, t)] /\ armed' = armed \ {t}
        /\ UNCHANGED <<timer_map, created, expiry, last, now, loopVars>>
    BY <1>6 DEF Expired, Expire, Post
  <2>2. Owner[t] \in Runtimes /\ Append(ready[Owner[t]], t) \in Seq(Handlers)
    BY Appended DEF Handlers
  <2>3. ready' \in [Runtimes -> Seq(Handlers)] /\ armed' \subseteq created
    BY <2>1, <2>2
  <2>4. QED BY <2>1, <2>3
<1>7. ASSUME NEW k \in Tasks, Complete(k) PROVE TypeOK'
  BY <1>7 DEF Complete, Post, Handlers
<1>8. CASE Tick /\ UNCHANGED loopVars
  BY <1>8 DEF Tick
<1>9. CASE UNCHANGED vars
  BY <1>9 DEF vars
<1>10. QED
  BY <1>1, <1>2, <1>3, <1>4, <1>5, <1>6, <1>7, <1>8, <1>9 DEF Next

\* Nothing is left to pump where the loop is about to block or to leave: only a script
\* or a settlement adds jobs, and neither happens there.
LEMMA ShapeStep == LoopInv /\ [Next]_vars => LoopShape'
<1> SUFFICES ASSUME LoopInv, [Next]_vars PROVE LoopShape'
  OBVIOUS
<1>0. TypeOK /\ LoopShape
  BY DEF LoopInv
<1> USE <1>0 DEF LoopShape, control, work, flags, bounds, history, loopVars, At, GoTo
<1> USE DEF TypeOK
<1>1. ASSUME NEW r \in Runtimes, Eval(r) \/ Run(r) \/ RunToCompletion(r) \/ Destroy(r)
      PROVE  LoopShape'
  BY <1>1 DEF Eval, Run, RunToCompletion, Begin, Destroy
<1>2. ASSUME NEW r \in Runtimes, Script(r) PROVE LoopShape'
  <2>1. CASE JsThen(r)
    BY <2>1 DEF JsThen
  <2>2. CASE UNCHANGED <<control, jobs, threw>>
    BY <2>2
  <2>3. QED
    BY <1>2, <2>1, <2>2 DEF Script, JsTimer, JsClear, JsSpawn
<1>3. ASSUME NEW r \in Runtimes, Handle(r) PROVE LoopShape'
  <2>1. phase' = [phase EXCEPT ![r] = IF phase[r] = "drain" THEN "drain"
                                        ELSE IF loop[r] = "script" THEN "pump" ELSE "check"]
    <3>1. Resume(r)
      BY <1>3 DEF Handle, HandleTimer, HandleStop, HandleSettle
    <3>2. QED
      BY <3>1 DEF Resume
  <2>2. UNCHANGED loop /\ js[r] = "none" /\ phase[r] \in {"poll", "drain"} /\ js'[r] \in {"none", "callback"}
    BY <1>3 DEF Handle, HandleTimer, HandleStop, HandleSettle, Handles, Polling
  <2>3. \A q \in Runtimes \ {r} : js'[q] = js[q] /\ jobs'[q] = jobs[q] /\ threw'[q] = threw[q]
    BY <1>3 DEF Handle, HandleTimer, HandleStop, HandleSettle
  <2>4. QED
    BY <2>1, <2>2, <2>3
<1>4. ASSUME NEW r \in Runtimes, JsReturn(r) \/ RunJob(r) PROVE LoopShape'
  BY <1>4 DEF JsReturn, RunJob
<1>5. ASSUME NEW r \in Runtimes, Check(r) PROVE LoopShape'
  BY <1>5 DEF Check
<1>6. ASSUME NEW r \in Runtimes, Pumped(r) PROVE LoopShape'
  BY <1>6 DEF Pumped, PumpReturns
<1>6a. ASSUME NEW r \in Runtimes, JobThrows(r) PROVE LoopShape'
  BY <1>6a DEF JobThrows, PumpReturns
<1>7. ASSUME NEW r \in Runtimes, ShutdownBusy(r) PROVE LoopShape'
  BY <1>7 DEF ShutdownBusy
<1>8. ASSUME NEW r \in Runtimes,
             ShutdownAgain(r) \/ ShutdownIdle(r) \/ ClearTimers(r) \/ Drained(r) \/ Joined(r)
      PROVE  LoopShape'
  <2>1. /\ js[r] = "none" /\ UNCHANGED <<loop, js, jobs, threw>>
        /\ \E p \in {"drain", "clear", "join", "idle", "gone"} : phase' = [phase EXCEPT ![r] = p]
    BY <1>8 DEF ShutdownAgain, ShutdownIdle, ClearTimers, Drained, Joined
  <2>2. QED
    BY <2>1
<1>9. CASE UNCHANGED <<control, jobs, threw>>
  BY <1>9
<1>10. QED
  BY <1>1, <1>2, <1>3, <1>4, <1>5, <1>6, <1>6a, <1>7, <1>8, <1>9
     DEF Next, Steps, StopCall, Expired, Complete, vars

\* The queue of a runtime is left alone, gets one handler more, or loses its head.
LEMMA QueueKept ==
  ASSUME TypeOK, QueueShape, UNCHANGED <<ready, task, created, armed>>
  PROVE  QueueShape'
BY DEF QueueShape

\* Every step keeps the queue's shape: what joins it was a wait or a task in flight,
\* and neither is any more.
LEMMA QueueStep == LoopInv /\ [Next]_vars => QueueShape'
<1> SUFFICES ASSUME LoopInv, [Next]_vars PROVE QueueShape'
  OBVIOUS
<1>0. TypeOK /\ QueueShape
  BY DEF LoopInv
<1>a. /\ ready \in [Runtimes -> Seq(Handlers)] /\ task \in [Tasks -> Lives]
      /\ armed \subseteq created /\ created \subseteq Timers
  BY <1>0 DEF TypeOK
<1> USE <1>0, <1>a, TimersAssumption, LoopAssumption
    DEF timerVars, clockVars, control, work, flags, bounds, history, loopVars
<1>1. ASSUME NEW r \in Runtimes, NEW h \in Handlers, Post(r, h), UNCHANGED created,
             h \in Tasks => /\ TaskOf[h] = r /\ task[h] = "inflight"
                            /\ task' = [task EXCEPT ![h] = "posted"],
             h \notin Tasks => UNCHANGED task,
             h \in Timers => Owner[h] = r /\ h \in armed /\ armed' = armed \ {h},
             h \notin Timers => UNCHANGED armed
      PROVE  QueueShape'
  <2> DEFINE s == ready[r]
  <2>1. s \in Seq(Handlers) /\ Len(s) \in Nat
    OBVIOUS
  <2>2. /\ Len(Append(s, h)) = Len(s) + 1 /\ \A i \in 1..Len(s) : Append(s, h)[i] = s[i]
        /\ Append(s, h)[Len(s) + 1] = h
    BY <2>1, Appended
  <2>3. ready'[r] = Append(s, h) /\ \A q \in Runtimes \ {r} : ready'[q] = ready[q]
    BY <1>1 DEF Post
  <2>4. h # Stop => \A q \in Runtimes : \A i \in 1..Len(ready[q]) : ready[q][i] # h
    BY <1>1 DEF QueueShape, Handlers
  <2>5. ASSUME NEW q \in Runtimes, NEW i \in 1..Len(ready'[q])
        PROVE  /\ ready'[q][i] \in Tasks => TaskOf[ready'[q][i]] = q /\ task'[ready'[q][i]] = "posted"
               /\ ready'[q][i] \in Timers =>
                    Owner[ready'[q][i]] = q /\ ready'[q][i] \in created \ armed'
               /\ ready'[q][i] # Stop =>
                    \A j \in 1..Len(ready'[q]) : ready'[q][j] = ready'[q][i] => i = j
    <3>1. CASE q # r
      <4>1. ready'[q] = ready[q] /\ i \in 1..Len(ready[q])
        BY <2>3, <2>5, <3>1
      <4>2. /\ ready[q][i] \in Tasks => TaskOf[ready[q][i]] = q /\ task[ready[q][i]] = "posted"
            /\ ready[q][i] \in Timers =>
                 Owner[ready[q][i]] = q /\ ready[q][i] \in created \ armed
            /\ ready[q][i] # Stop =>
                 \A j \in 1..Len(ready[q]) : ready[q][j] = ready[q][i] => i = j
        BY <4>1 DEF QueueShape
      <4>3. QED
        BY <1>1, <2>4, <4>1, <4>2
    <3>2. CASE q = r /\ i \in 1..Len(s)
      <4>1. ready'[q][i] = s[i]
        BY <2>2, <2>3, <3>2
      <4>2. /\ s[i] \in Tasks => TaskOf[s[i]] = r /\ task[s[i]] = "posted"
            /\ s[i] \in Timers => Owner[s[i]] = r /\ s[i] \in created \ armed
            /\ s[i] # Stop => \A j \in 1..Len(s) : s[j] = s[i] => i = j
        BY <3>2 DEF QueueShape
      <4>3. s[i] # Stop => \A j \in 1..Len(ready'[q]) : ready'[q][j] = s[i] => i = j
        <5> SUFFICES ASSUME s[i] # Stop, NEW j \in 1..Len(ready'[q]), ready'[q][j] = s[i]
                     PROVE  i = j
          OBVIOUS
        <5>1. CASE j \in 1..Len(s)
          BY <2>2, <2>3, <3>2, <4>2, <5>1
        <5>2. CASE j = Len(s) + 1
          BY <2>2, <2>3, <2>4, <3>2, <5>2
        <5>3. QED
          BY <2>1, <2>2, <2>3, <3>2, <5>1, <5>2
      <4>4. QED
        BY <1>1, <2>4, <3>2, <4>1, <4>2, <4>3
    <3>3. CASE q = r /\ i = Len(s) + 1
      <4>1. ready'[q][i] = h
        BY <2>2, <2>3, <3>3
      <4>2. h # Stop => \A j \in 1..Len(ready'[q]) : ready'[q][j] = h => i = j
        <5> SUFFICES ASSUME h # Stop, NEW j \in 1..Len(ready'[q]), ready'[q][j] = h
                     PROVE  i = j
          OBVIOUS
        <5>1. j \notin 1..Len(s)
          BY <2>2, <2>3, <2>4, <3>3
        <5>2. QED
          BY <2>1, <2>2, <2>3, <3>3, <5>1
      <4>3. QED
        BY <1>1, <3>3, <4>1, <4>2
    <3>4. QED
      BY <2>1, <2>2, <2>3, <3>1, <3>2, <3>3
  <2>6. QED
    BY <1>1, <2>5 DEF QueueShape
<1>2. ASSUME NEW r \in Runtimes, ready[r] # <<>>, ready' = [ready EXCEPT ![r] = Tail(@)],
             UNCHANGED created,
             task' = task \/ \E k \in Tasks : Head(ready[r]) = k
                                /\ task' = [task EXCEPT ![k] = "settled"],
             armed' = armed \/ \E t \in Timers : Head(ready[r]) = t /\ armed' = armed \cup {t}
      PROVE  QueueShape'
  <2> DEFINE s == ready[r]
  <2>1. /\ s \in Seq(Handlers) /\ Len(s) \in Nat \ {0} /\ Len(Tail(s)) = Len(s) - 1
        /\ \A i \in 1..Len(Tail(s)) : Tail(s)[i] = s[i + 1]
        /\ Head(s) = s[1]
    BY <1>2, Popped
  <2>2. ready'[r] = Tail(s) /\ \A q \in Runtimes \ {r} : ready'[q] = ready[q]
    BY <1>2
  <2>3. \A q \in Runtimes \ {r} : s[1] # Stop =>
          \A i \in 1..Len(ready[q]) : ready[q][i] # s[1]
    BY <2>1 DEF QueueShape, Handlers
  <2>4. s[1] # Stop => \A i \in 2..Len(s) : s[i] # s[1]
    BY <2>1 DEF QueueShape
  <2>5. /\ \A k \in Tasks : k # s[1] => task'[k] = task[k]
        /\ \A t \in Timers : t # s[1] => (t \in armed' <=> t \in armed)
        /\ s[1] = Stop => UNCHANGED <<task, armed>>
    BY <1>2, <2>1
  <2>6. ASSUME NEW q \in Runtimes, NEW i \in 1..Len(ready'[q])
        PROVE  /\ ready'[q][i] \in Tasks => TaskOf[ready'[q][i]] = q /\ task'[ready'[q][i]] = "posted"
               /\ ready'[q][i] \in Timers =>
                    Owner[ready'[q][i]] = q /\ ready'[q][i] \in created \ armed'
               /\ ready'[q][i] # Stop =>
                    \A j \in 1..Len(ready'[q]) : ready'[q][j] = ready'[q][i] => i = j
    <3>1. CASE q # r
      <4>1. ready'[q] = ready[q] /\ i \in 1..Len(ready[q])
        BY <2>2, <2>6, <3>1
      <4>2. QED
        BY <2>3, <2>5, <3>1, <4>1 DEF QueueShape
    <3>2. CASE q = r
      <4>0. /\ ready'[q] = Tail(s)
            /\ \A j \in 1..Len(Tail(s)) : j + 1 \in 2..Len(s) /\ Tail(s)[j] = s[j + 1]
        <5> HIDE <1>0, <1>a DEF s
        <5>1. QED
          BY <2>1, <2>2, <3>2
      <4>1. i + 1 \in 2..Len(s) /\ ready'[q][i] = s[i + 1]
        BY <2>6, <4>0
      <4>2. \A j \in 1..Len(ready'[q]) : j + 1 \in 2..Len(s) /\ ready'[q][j] = s[j + 1]
        BY <4>0
      <4>3. i + 1 \in 1..Len(s) /\ \A j \in 1..Len(ready'[q]) : j + 1 \in 1..Len(s)
        BY <4>1, <4>2, <2>1
      <4>4. /\ s[i + 1] \in Tasks => TaskOf[s[i + 1]] = r /\ task[s[i + 1]] = "posted"
            /\ s[i + 1] \in Timers => Owner[s[i + 1]] = r /\ s[i + 1] \in created \ armed
            /\ s[i + 1] # Stop => \A j \in 1..Len(s) : s[j] = s[i + 1] => i + 1 = j
        BY <4>3 DEF QueueShape
      <4>5. s[1] # Stop => s[i + 1] # s[1]
        BY <2>4, <4>1
      <4>6. s[i + 1] # Stop => \A j \in 1..Len(ready'[q]) : ready'[q][j] = s[i + 1] => i = j
        BY <4>2, <4>3, <4>4
      <4>7. QED
        BY <2>5, <3>2, <4>1, <4>4, <4>5, <4>6
    <3>3. QED
      BY <3>1, <3>2
  <2>7. QED
    BY <1>2, <2>6 DEF QueueShape
<1>3. ASSUME NEW r \in Runtimes, StopCall(r) PROVE QueueShape'
  BY <1>1, <1>3 DEF StopCall, Handlers
<1>4. ASSUME NEW r \in Runtimes, Script(r) PROVE QueueShape'
  <2>1. ASSUME NEW t \in Timers, JsTimer(r, t) PROVE QueueShape'
    BY <2>1 DEF JsTimer, Schedule, QueueShape
  <2>2. ASSUME NEW t \in Timers, JsClear(r, t) PROVE QueueShape'
    BY <2>2 DEF JsClear, Clear, QueueShape
  <2>3. ASSUME NEW k \in Tasks, JsSpawn(r, k) PROVE QueueShape'
    BY <2>3 DEF JsSpawn, QueueShape
  <2>4. CASE JsThen(r)
    BY <2>4, QueueKept DEF JsThen
  <2>5. QED
    BY <1>4, <2>1, <2>2, <2>3, <2>4 DEF Script
<1>5. ASSUME NEW r \in Runtimes, Handle(r) PROVE QueueShape'
  <2>1. ready[r] # <<>>
    BY <1>5 DEF Handle, HandleTimer, HandleStop, HandleSettle, Handles
  <2>2. ASSUME NEW t \in Timers, HandleTimer(r, t) PROVE QueueShape'
    BY <1>2, <2>1, <2>2 DEF HandleTimer, Handles, StartRepeat, StartOnce
  <2>3. CASE HandleStop(r)
    BY <1>2, <2>1, <2>3 DEF HandleStop, PopHandler
  <2>4. ASSUME NEW k \in Tasks, HandleSettle(r, k) PROVE QueueShape'
    BY <1>2, <2>1, <2>4 DEF HandleSettle, Handles, PopHandler, clockVars
  <2>5. QED
    BY <1>5, <2>2, <2>3, <2>4 DEF Handle
<1>6. ASSUME NEW r \in Runtimes, Joined(r) \/ ClearTimers(r) PROVE QueueShape'
  <2>1. CASE ClearTimers(r)
    BY <2>1 DEF ClearTimers, CancelAll, QueueShape
  <2>2. CASE Joined(r) /\ dtor[r]
    <3>1. /\ ready' = [ready EXCEPT ![r] = <<>>] /\ armed' = armed \ Own(r)
          /\ UNCHANGED <<task, created>>
      BY <2>2 DEF Joined, DropContext
    <3>2. QED
      BY <3>1 DEF QueueShape
  <2>3. CASE Joined(r) /\ ~dtor[r]
    BY <2>3, QueueKept DEF Joined
  <2>4. QED
    BY <1>6, <2>1, <2>2, <2>3
<1>7. ASSUME NEW t \in Timers, Expired(t) PROVE QueueShape'
  BY <1>1, <1>7 DEF Expired, Expire, Handlers
<1>8. ASSUME NEW k \in Tasks, Complete(k) PROVE QueueShape'
  BY <1>1, <1>8 DEF Complete, Handlers
<1>9. CASE UNCHANGED <<ready, task, created, armed>>
  BY <1>9, QueueKept
<1>10. QED
  BY <1>3, <1>4, <1>5, <1>6, <1>7, <1>8, <1>9
     DEF Next, Steps, Eval, Run, RunToCompletion, Begin, Destroy, JsReturn, Check, RunJob,
         JobThrows, Pumped, ShutdownAgain, ShutdownBusy, ShutdownIdle, Drained, Tick, vars

\* Every step keeps the count: a task is counted when it starts and counted out by its
\* only settlement.
LEMMA PendingStep == LoopInv /\ [Next]_vars => PendingExact'
<1> SUFFICES ASSUME LoopInv, [Next]_vars PROVE PendingExact'
  OBVIOUS
<1>0. /\ pending \in [Runtimes -> Nat] /\ task \in [Tasks -> Lives]
      /\ ready \in [Runtimes -> Seq(Handlers)] /\ PendingExact
  BY DEF LoopInv, TypeOK
<1> USE <1>0 DEF control, work, flags, bounds, history, loopVars
<1>1. ASSUME NEW r \in Runtimes, NEW k \in Tasks, JsSpawn(r, k) PROVE PendingExact'
  <2>1. /\ InFlight(r)' = InFlight(r) \cup {k} /\ k \notin InFlight(r)
        /\ \A q \in Runtimes \ {r} : InFlight(q)' = InFlight(q)
    BY <1>1 DEF JsSpawn, InFlight, Lives
  <2>2. Cardinality(InFlight(r)') = Cardinality(InFlight(r)) + 1
    BY <2>1, InFlightFinite, FS_AddElement
  <2>3. pending'[r] = pending[r] + 1 /\ \A q \in Runtimes \ {r} : pending'[q] = pending[q]
    BY <1>1 DEF JsSpawn
  <2>4. QED
    BY <2>1, <2>2, <2>3 DEF PendingExact
<1>2. ASSUME NEW r \in Runtimes, NEW k \in Tasks, HandleSettle(r, k) PROVE PendingExact'
  <2>1. 1 \in 1..Len(ready[r]) /\ ready[r][1] = k
    BY <1>2, Popped DEF HandleSettle, Handles
  <2>2. TaskOf[k] = r /\ task[k] = "posted"
    BY <2>1 DEF LoopInv, QueueShape
  <2>3. /\ InFlight(r)' = InFlight(r) \ {k} /\ k \in InFlight(r)
        /\ \A q \in Runtimes \ {r} : InFlight(q)' = InFlight(q)
    BY <1>2, <2>2 DEF HandleSettle, InFlight, Lives
  <2>4. Cardinality(InFlight(r)') = Cardinality(InFlight(r)) - 1
    BY <2>3, InFlightFinite, FS_RemoveElement
  <2>5. pending'[r] = pending[r] - 1 /\ \A q \in Runtimes \ {r} : pending'[q] = pending[q]
    BY <1>2 DEF HandleSettle
  <2>6. QED
    BY <2>3, <2>4, <2>5 DEF PendingExact
<1>3. ASSUME NEW k \in Tasks, Complete(k) PROVE PendingExact'
  <2>1. \A q \in Runtimes : InFlight(q)' = InFlight(q)
    BY <1>3 DEF Complete, InFlight, Lives
  <2>2. QED
    BY <1>3, <2>1 DEF Complete, PendingExact
<1>4. CASE UNCHANGED <<pending, task>>
  BY <1>4 DEF PendingExact, InFlight
<1>5. QED
  BY <1>1, <1>2, <1>3, <1>4
     DEF Next, Script, Handle, Steps, Eval, Run, RunToCompletion, Begin, Destroy, StopCall,
         JsTimer, JsClear, JsThen, JsReturn, Check, RunJob, JobThrows, Pumped, HandleTimer, HandleStop,
         ShutdownAgain, ShutdownBusy, ShutdownIdle, ClearTimers, Drained, Joined, Expired,
         Tick, vars

\* Every step keeps the promise of run_to_completion(): it leaves its loop right after
\* a pump, with a count of 0.
LEMMA ScriptStep == LoopInv /\ [Next]_vars => ScriptWaitsForAll'
<1> SUFFICES ASSUME LoopInv, [Next]_vars, NEW r \in Runtimes,
                    phase'[r] = "shutdown", loop'[r] = "script", ~dtor'[r], ~done'[r]
             PROVE  InFlight(r)' = {} /\ (jobs'[r] = 0 \/ threw'[r])
  BY DEF ScriptWaitsForAll
<1>0. TypeOK /\ LoopShape
  BY DEF LoopInv
<1> USE <1>0 DEF control, work, flags, bounds, history, loopVars, At, GoTo
<1>1. CASE phase[r] # "shutdown"
  <2>1. Check(r) \/ Destroy(r)
    <3> USE DEF TypeOK
    <3>1. ASSUME NEW q \in Runtimes, Handle(q) PROVE FALSE
      <4>1. Resume(q)
        BY <3>1 DEF Handle, HandleTimer, HandleStop, HandleSettle
      <4>2. QED
        BY <1>1, <4>1 DEF Resume
    <3>2. ASSUME NEW q \in Runtimes, Pumped(q) \/ JobThrows(q) PROVE FALSE
      BY <1>1, <3>2 DEF Pumped, JobThrows, PumpReturns
    <3>3. ASSUME NEW q \in Runtimes, Run(q) \/ RunToCompletion(q) PROVE FALSE
      BY <1>1, <3>3 DEF Run, RunToCompletion, Begin
    <3>4. ASSUME NEW q \in Runtimes,
                 \/ ShutdownAgain(q) \/ ShutdownBusy(q) \/ ShutdownIdle(q) \/ ClearTimers(q)
                 \/ Drained(q) \/ Joined(q)
          PROVE FALSE
      BY <1>1, <3>4 DEF ShutdownAgain, ShutdownBusy, ShutdownIdle, ClearTimers, Drained, Joined
    <3>5. ASSUME NEW q \in Runtimes, Check(q) \/ Destroy(q) PROVE q = r
      BY <1>1, <3>5 DEF Check, Destroy
    <3>6. phase' # phase
      BY <1>1
    <3>7. QED
      BY <3>1, <3>2, <3>3, <3>4, <3>5, <3>6
         DEF Next, Steps, Script, Eval, StopCall, JsTimer, JsClear, JsSpawn, JsThen, JsReturn,
             RunJob, Expired, Complete, Tick, vars
  <2>2. ~Destroy(r)
    BY DEF Destroy, TypeOK
  <2>3. /\ Check(r) /\ loop[r] = "script" /\ Leaves(r) /\ ~done[r]
    BY <1>1, <2>1, <2>2 DEF Check, TypeOK
  <2>4. pending[r] = 0 /\ (jobs[r] = 0 \/ threw[r])
    BY <2>3 DEF Leaves, LoopShape, Check
  <2>5. InFlight(r) = {}
    BY <2>4, InFlightFinite, FS_EmptySet DEF LoopInv, PendingExact
  <2>6. QED
    BY <2>3, <2>4, <2>5 DEF Check, InFlight
<1>2. CASE phase[r] = "shutdown"
  <2>1. js[r] = "none"
    BY <1>2 DEF LoopShape
  <2>2. ~Polling(r)
    BY <1>2 DEF Polling
  <2> DEFINE Same == loop'[r] = loop[r] /\ dtor'[r] = dtor[r] /\ done'[r] = done[r] /\ jobs'[r] = jobs[r]
                 /\ threw'[r] = threw[r]
  <2>3. Same
    <3> USE DEF TypeOK
    <3>1. ASSUME NEW q \in Runtimes, Handle(q) PROVE q # r
      BY <2>2, <3>1 DEF Handle, HandleTimer, HandleStop, HandleSettle, Handles
    <3>2. ASSUME NEW q \in Runtimes, Handle(q)
          PROVE  UNCHANGED <<loop, dtor, threw>> /\ done'[r] = done[r] /\ jobs'[r] = jobs[r]
      BY <3>1, <3>2 DEF Handle, HandleTimer, HandleStop, HandleSettle
    <3>3. ASSUME NEW q \in Runtimes, Script(q) PROVE Same
      BY <2>1, <3>3 DEF Script, JsTimer, JsClear, JsSpawn, JsThen, Scripts
    <3>4. ASSUME NEW q \in Runtimes, Steps(q) PROVE Same
      BY <1>2, <2>1, <3>4 DEF Steps, JsReturn, Check, RunJob, JobThrows, Pumped, ShutdownAgain, ShutdownBusy,
         ShutdownIdle, ClearTimers, Drained, Joined
    <3>5. ASSUME NEW q \in Runtimes, Eval(q) \/ Run(q) \/ RunToCompletion(q) \/ Destroy(q)
          PROVE Same
      BY <1>2, <3>5 DEF Eval, Run, RunToCompletion, Begin, Destroy
    <3>6. QED
      BY <3>2, <3>3, <3>4, <3>5 DEF Next, StopCall, Expired, Complete, Tick, vars
  <2>4. InFlight(r) = {} /\ (jobs[r] = 0 \/ threw[r])
    BY <1>2, <2>3 DEF LoopInv, ScriptWaitsForAll
  <2>5. InFlight(r)' = {}
    <3>1. ASSUME NEW q \in Runtimes, NEW k \in Tasks, JsSpawn(q, k) PROVE InFlight(r)' = {}
      BY <2>1, <2>4, <3>1, LoopAssumption DEF JsSpawn, InFlight, TypeOK, Scripts
    <3>2. ASSUME NEW q \in Runtimes, NEW k \in Tasks, HandleSettle(q, k) PROVE InFlight(r)' = {}
      BY <2>4, <3>2 DEF HandleSettle, InFlight, TypeOK
    <3>3. ASSUME NEW k \in Tasks, Complete(k) PROVE InFlight(r)' = {}
      BY <2>4, <3>3 DEF Complete, InFlight, TypeOK
    <3>4. CASE UNCHANGED task
      BY <2>4, <3>4 DEF InFlight
    <3>5. QED
      BY <3>1, <3>2, <3>3, <3>4
         DEF Next, Script, Handle, Steps, Eval, Run, RunToCompletion, Begin, Destroy, StopCall,
             JsTimer, JsClear, JsThen, JsReturn, Check, RunJob, JobThrows, Pumped, HandleTimer,
             HandleStop, ShutdownAgain, ShutdownBusy, ShutdownIdle, ClearTimers, Drained,
             Joined, Expired, Tick, vars
  <2>6. QED
    BY <2>3, <2>4, <2>5
<1>3. QED
  BY <1>1, <1>2

\* How positions move: a handler that is queued now was queued before, or has just
\* joined; and only the head can leave.
LEMMA PlacedAfterPost ==
  ASSUME TypeOK, NEW r \in Runtimes, NEW h \in Handlers, Post(r, h),
         NEW q \in Runtimes, NEW g
  PROVE  Placed(q, g)' <=> Placed(q, g) \/ (q = r /\ g = h)
<1> DEFINE s == ready[r]
<1>1. s \in Seq(Handlers) /\ Len(s) \in Nat
  BY DEF TypeOK
<1>2. /\ Len(Append(s, h)) = Len(s) + 1 /\ \A i \in 1..Len(s) : Append(s, h)[i] = s[i]
      /\ Append(s, h)[Len(s) + 1] = h
  BY <1>1, Appended
<1>3. ready'[r] = Append(s, h) /\ \A p \in Runtimes \ {r} : ready'[p] = ready[p]
  BY DEF Post, TypeOK
<1>4. CASE q = r
  <2>1. 1..Len(Append(s, h)) = 1..Len(s) \cup {Len(s) + 1}
    BY <1>1, <1>2
  <2>2. QED
    BY <1>2, <1>3, <1>4, <2>1 DEF Placed
<1>5. CASE q # r
  BY <1>3, <1>5 DEF Placed
<1>6. QED
  BY <1>4, <1>5

LEMMA PlacedAfterPop ==
  ASSUME TypeOK, NEW r \in Runtimes, ready[r] # <<>>, ready' = [ready EXCEPT ![r] = Tail(@)],
         NEW q \in Runtimes, NEW g
  PROVE  /\ Placed(q, g)' => Placed(q, g)
         /\ Placed(q, g) /\ (q # r \/ g # Head(ready[r])) => Placed(q, g)'
<1> DEFINE s == ready[r]
<1>1. /\ Len(s) \in Nat \ {0} /\ Len(Tail(s)) = Len(s) - 1
      /\ \A i \in 1..Len(Tail(s)) : Tail(s)[i] = s[i + 1]
      /\ Head(s) = s[1]
  BY Popped DEF TypeOK
<1>2. ready'[r] = Tail(s) /\ \A p \in Runtimes \ {r} : ready'[p] = ready[p]
  BY DEF TypeOK
<1>3. CASE q # r
  BY <1>2, <1>3 DEF Placed
<1>4. CASE q = r
  <2>1. ASSUME Placed(q, g)' PROVE Placed(q, g)
    <3>1. PICK i \in 1..Len(Tail(s)) : Tail(s)[i] = g
      BY <1>2, <1>4, <2>1 DEF Placed
    <3>2. i + 1 \in 1..Len(s) /\ s[i + 1] = g
      BY <1>1, <3>1
    <3>3. QED
      BY <1>4, <3>2 DEF Placed
  <2>2. ASSUME Placed(q, g), g # Head(s) PROVE Placed(q, g)'
    <3>1. PICK i \in 1..Len(s) : s[i] = g
      BY <1>4, <2>2 DEF Placed
    <3>2. i # 1
      BY <1>1, <2>2, <3>1
    <3>3. i - 1 \in 1..Len(Tail(s)) /\ (i - 1) + 1 = i
      BY <1>1, <3>1, <3>2
    <3>4. Tail(s)[i - 1] = g
      BY <1>1, <3>1, <3>3
    <3>5. QED
      BY <1>2, <1>4, <3>3, <3>4 DEF Placed
  <2>3. QED
    BY <1>4, <2>1, <2>2
<1>5. QED
  BY <1>3, <1>4

\* A runtime that is gone stays so.
LEMMA GoneForGood ==
  ASSUME LoopInv, [Next]_vars, NEW r \in Runtimes, phase[r] = "gone"
  PROVE  phase'[r] = "gone"
<1>0. phase \in [Runtimes -> Phases] /\ LoopShape
  BY DEF LoopInv, TypeOK
<1> USE <1>0 DEF control, loopVars, At, GoTo
<1>1. ASSUME NEW q \in Runtimes, Handle(q) PROVE phase'[r] = "gone"
  <2>1. Polling(q) /\ Resume(q)
    BY <1>1 DEF Handle, HandleTimer, HandleStop, HandleSettle, Handles
  <2>2. QED
    BY <2>1 DEF Polling, Resume
<1>2. ASSUME NEW q \in Runtimes, Steps(q) PROVE phase'[r] = "gone"
  BY <1>2 DEF Steps, JsReturn, Check, RunJob, JobThrows, Pumped, PumpReturns, LoopShape, ShutdownAgain, ShutdownBusy,
              ShutdownIdle, ClearTimers, Drained, Joined
<1>3. ASSUME NEW q \in Runtimes, Eval(q) \/ Run(q) \/ RunToCompletion(q) \/ Destroy(q)
      PROVE  phase'[r] = "gone"
  BY <1>3 DEF Eval, Run, RunToCompletion, Begin, Destroy
<1>4. QED
  BY <1>1, <1>2, <1>3
     DEF Next, Script, StopCall, JsTimer, JsClear, JsSpawn, JsThen, Expired, Complete, Tick, vars

\* What a step does to timers, as the two invariants about them see it.
LEMMA TimerStep ==
  LoopInv /\ [Next]_vars /\ TypeOK' => TimeoutFresh' /\ RegisteredWillFire'
<1> SUFFICES ASSUME LoopInv, [Next]_vars, TypeOK' PROVE TimeoutFresh' /\ RegisteredWillFire'
  OBVIOUS
<1>0. /\ TypeOK /\ TimeoutFresh /\ QueueShape
      /\ \A t \in timer_map : phase[Owner[t]] = "gone" \/ t \in armed \/ Placed(Owner[t], t)
      /\ Owner \in [Timers -> Runtimes] /\ last \in [Timers -> Nat \cup {None}]
      /\ armed \subseteq created /\ timer_map \subseteq created /\ created \subseteq Timers
  BY QueuedIsPlaced, TimersAssumption DEF LoopInv, TypeOK, RegisteredWillFire
<1> USE <1>0
<1>a. SUFFICES /\ TimeoutFresh'
               /\ \A t \in timer_map' :
                    phase'[Owner[t]] = "gone" \/ t \in armed' \/ Placed(Owner[t], t)'
  <2>1. ASSUME NEW t \in timer_map' PROVE Queued(Owner[t], t)' <=> Placed(Owner[t], t)'
    <3> DEFINE q == ready'[Owner[t]]
    <3>1. timer_map' \subseteq Timers /\ ready' \in [Runtimes -> Seq(Handlers)]
      BY DEF TypeOK
    <3>2. q \in Seq(Handlers)
      BY <3>1
    <3>3. DOMAIN q = 1..Len(q)
      BY <3>2
    <3>4. QED
      BY <3>3 DEF Queued, Placed
  <2>2. QED
    BY <1>a, <2>1 DEF RegisteredWillFire
<1>b. \A r \in Runtimes : phase[r] = "gone" => phase'[r] = "gone"
  BY GoneForGood
<1> DEFINE Goal == /\ TimeoutFresh'
                   /\ \A t \in timer_map' :
                        phase'[Owner[t]] = "gone" \/ t \in armed' \/ Placed(Owner[t], t)'
<1>c. \A t \in Timers : Placed(Owner[t], t) => t \in created \ armed
  BY DEF Placed, QueueShape
<1>1. ASSUME NEW r \in Runtimes, NEW h \in Handlers, Post(r, h),
             UNCHANGED <<timer_map, created, last>>,
             h \in Timers => Owner[h] = r /\ h \in armed /\ armed' = armed \ {h},
             h \notin Timers => UNCHANGED armed
      PROVE  Goal
  <2>1. \A t \in Timers : Placed(Owner[t], t)' <=> Placed(Owner[t], t) \/ (Owner[t] = r /\ t = h)
    BY <1>1, PlacedAfterPost
  <2>2. QED
    BY <1>1, <1>b, <2>1 DEF TimeoutFresh
<1>2. ASSUME NEW r \in Runtimes, ready[r] # <<>>, ready' = [ready EXCEPT ![r] = Tail(@)],
             Head(ready[r]) \notin Timers, UNCHANGED <<timer_map, created, last, armed>>
      PROVE  Goal
  <2>1. \A t \in Timers : Placed(Owner[t], t)' <=> Placed(Owner[t], t)
    BY <1>2, PlacedAfterPop
  <2>2. QED
    BY <1>2, <1>b, <2>1 DEF TimeoutFresh
<1>3. ASSUME NEW r \in Runtimes, NEW t \in Timers, HandleTimer(r, t) PROVE Goal
  <2>1. /\ ready[r] # <<>> /\ Head(ready[r]) = t /\ ready' = [ready EXCEPT ![r] = Tail(@)]
        /\ Owner[t] = r
    BY <1>3 DEF HandleTimer, Handles, StartRepeat, StartOnce, Own
  <2>2. \A u \in Timers : /\ Placed(Owner[u], u)' => Placed(Owner[u], u)
                          /\ u # t /\ Placed(Owner[u], u) => Placed(Owner[u], u)'
    BY <2>1, PlacedAfterPop
  <2>3. 1 \in 1..Len(ready[r]) /\ ready[r][1] = t
    BY <2>1, Popped DEF TypeOK
  <2>4. Placed(Owner[t], t) /\ t \in created \ armed
    BY <1>c, <2>1, <2>3 DEF Placed
  <2>5. ~Placed(Owner[t], t)'
    <3> SUFFICES ASSUME Placed(Owner[t], t)' PROVE FALSE
      OBVIOUS
    <3>1. PICK i \in 1..Len(Tail(ready[r])) : Tail(ready[r])[i] = t
      BY <2>1 DEF Placed, TypeOK
    <3>2. i + 1 \in 1..Len(ready[r]) /\ ready[r][i + 1] = t /\ i + 1 # 1
      BY <2>1, <3>1, Popped DEF TypeOK
    <3>3. t # Stop
      BY LoopAssumption
    <3>4. QED
      BY <2>3, <3>2, <3>3 DEF QueueShape
  <2>6. CASE StartRepeat(r, t)
    <3>1. armed' = armed \cup {t} /\ last' = [last EXCEPT ![t] = now]
          /\ UNCHANGED <<timer_map, created>> /\ t \in Repeats
      BY <2>6 DEF StartRepeat
    <3>2. QED
      BY <1>b, <2>2, <2>4, <3>1 DEF TimeoutFresh
  <2>7. CASE StartOnce(r, t)
    <3>1. timer_map' = timer_map \ {t} /\ last' = [last EXCEPT ![t] = now]
          /\ UNCHANGED <<armed, created>>
      BY <2>7 DEF StartOnce
    <3>2. QED
      BY <1>b, <2>2, <2>4, <2>5, <3>1 DEF TimeoutFresh
  <2>8. QED
    BY <1>3, <2>6, <2>7 DEF HandleTimer
<1>4. ASSUME NEW r \in Runtimes, NEW t \in Timers, JsTimer(r, t) \/ JsClear(r, t) PROVE Goal
  <2>1. \A u \in Timers : Placed(Owner[u], u)' <=> Placed(Owner[u], u)
    BY <1>4 DEF JsTimer, JsClear, Schedule, Clear, Placed
  <2>2. CASE JsTimer(r, t)
    BY <1>b, <1>c, <2>1, <2>2 DEF JsTimer, Schedule, TimeoutFresh
  <2>3. CASE JsClear(r, t)
    BY <1>b, <2>1, <2>3 DEF JsClear, Clear, TimeoutFresh
  <2>4. QED
    BY <1>4, <2>2, <2>3
<1>5. ASSUME NEW r \in Runtimes, ClearTimers(r) PROVE Goal
  <2>1. \A u \in Timers : Placed(Owner[u], u)' <=> Placed(Owner[u], u)
    BY <1>5 DEF ClearTimers, CancelAll, Placed
  <2>2. QED
    BY <1>5, <2>1 DEF ClearTimers, CancelAll, TimeoutFresh
<1>6. ASSUME NEW r \in Runtimes, Joined(r), dtor[r] PROVE Goal
  <2>1. /\ phase' = [phase EXCEPT ![r] = "gone"] /\ armed' = armed \ Own(r)
        /\ ready' = [ready EXCEPT ![r] = <<>>] /\ UNCHANGED <<timer_map, created, last>>
    BY <1>6 DEF Joined, DropContext, GoTo, clockVars
  <2>2. phase'[r] = "gone"
    BY <2>1 DEF TypeOK
  <2>3. \A u \in Timers : Placed(Owner[u], u)' => Placed(Owner[u], u)
    BY <2>1 DEF Placed, TypeOK
  <2>4. \A u \in Timers : Owner[u] # r /\ Placed(Owner[u], u) => Placed(Owner[u], u)'
    BY <2>1 DEF Placed, TypeOK
  <2>5. QED
    BY <1>b, <2>1, <2>2, <2>3, <2>4 DEF TimeoutFresh, Own
<1>7. CASE UNCHANGED <<timer_map, armed, created, last, ready>>
  <2>1. \A u \in Timers : Placed(Owner[u], u)' <=> Placed(Owner[u], u)
    BY <1>7 DEF Placed
  <2>2. QED
    BY <1>7, <1>b, <2>1 DEF TimeoutFresh
<1>8. ASSUME NEW r \in Runtimes, HandleStop(r) PROVE Goal
  <2>1. Stop \notin Timers
    BY LoopAssumption
  <2>2. /\ ready[r] # <<>> /\ Head(ready[r]) = Stop /\ ready' = [ready EXCEPT ![r] = Tail(@)]
        /\ UNCHANGED <<timer_map, created, last, armed>>
    BY <1>8 DEF HandleStop, Handles, PopHandler, clockVars
  <2>3. QED
    BY <1>2, <2>1, <2>2
<1>9. ASSUME NEW r \in Runtimes, NEW k \in Tasks, HandleSettle(r, k) PROVE Goal
  <2>1. k \notin Timers
    BY LoopAssumption
  <2>2. /\ ready[r] # <<>> /\ Head(ready[r]) = k /\ ready' = [ready EXCEPT ![r] = Tail(@)]
        /\ UNCHANGED <<timer_map, created, last, armed>>
    BY <1>9 DEF HandleSettle, Handles, PopHandler, clockVars
  <2>3. QED
    BY <1>2, <2>1, <2>2
<1>10. ASSUME NEW r \in Runtimes, StopCall(r) PROVE Goal
  BY <1>1, <1>10, LoopAssumption DEF StopCall, Handlers, clockVars
<1>11. ASSUME NEW t \in Timers, Expired(t) PROVE Goal
  BY <1>1, <1>11 DEF Expired, Expire, Handlers
<1>12. ASSUME NEW k \in Tasks, Complete(k) PROVE Goal
  BY <1>1, <1>12, LoopAssumption DEF Complete, Handlers, clockVars
<1>13. QED
  BY <1>3, <1>4, <1>5, <1>6, <1>7, <1>8, <1>9, <1>10, <1>11, <1>12
     DEF Next, Script, Handle, Steps, Eval, Run, RunToCompletion, Begin, Destroy, JsSpawn,
         JsThen, JsReturn, Check, RunJob, JobThrows, Pumped, ShutdownAgain, ShutdownBusy, ShutdownIdle,
         Drained, Joined, Tick, vars, timerVars, clockVars, loopVars

\* The invariant holds in every reachable state.
THEOREM LoopInvariant == Spec => []LoopInv
<1>1. LoopInv /\ [Next]_vars => LoopInv'
  BY TypeStep, ShapeStep, QueueStep, PendingStep, ScriptStep, TimerStep DEF LoopInv
<1>2. QED
  BY LoopInit, <1>1, PTL DEF Spec

\* Types, for any number of runtimes, rounds and stops.
THEOREM LoopTypes == Spec => []TypeOK
<1>1. LoopInv => TypeOK
  BY DEF LoopInv
<1>2. QED BY <1>1, LoopInvariant, PTL

\* pending_ is the number of tasks in flight.
THEOREM PendingCounts == Spec => []PendingExact
<1>1. LoopInv => PendingExact
  BY DEF LoopInv
<1>2. QED BY <1>1, LoopInvariant, PTL

\* run_one() is entered with the job queue pumped dry, or up to a job that threw.
THEOREM BlocksPumped == Spec => []NoJobWhileBlocked
<1>1. LoopInv => NoJobWhileBlocked
  BY DEF LoopInv, LoopShape, NoJobWhileBlocked, At
<1>2. QED BY <1>1, LoopInvariant, PTL

\* run_to_completion() ends by itself with nothing in flight and no job left but behind one
\* that threw.
THEOREM ScriptsRunToCompletion == Spec => []ScriptWaitsForAll
<1>1. LoopInv => ScriptWaitsForAll
  BY DEF LoopInv
<1>2. QED BY <1>1, LoopInvariant, PTL

\* The counts the loops exit on are exact.
THEOREM CountsAreExact == Spec => []CountsExact
BY LoopTypes, PendingCounts, PTL DEF CountsExact

\* The loop pumps before it blocks and before it leaves.
THEOREM TurnsAreKept == Spec => []InTurn
BY BlocksPumped, ScriptsRunToCompletion, PTL DEF InTurn

\* A registered timer always has a wait or a handler on its way.
THEOREM RegistrationsFire == Spec => []RegisteredWillFire
<1>1. LoopInv => RegisteredWillFire
  BY DEF LoopInv
<1>2. QED BY <1>1, LoopInvariant, PTL

\* A timeout calls back at most once.
THEOREM TimeoutsRunOnce == Spec => OneShotOnce
<1>1. ASSUME LoopInv, NEW t \in Timers \ Repeats, HandleTimer(Owner[t], t)
      PROVE  last[t] = None
  <2>1. Owner[t] \in Runtimes /\ 1 \in 1..Len(ready[Owner[t]]) /\ ready[Owner[t]][1] = t
    BY <1>1, Popped, TimersAssumption DEF LoopInv, TypeOK, HandleTimer, Handles
  <2>2. Placed(Owner[t], t)
    BY <2>1 DEF Placed
  <2>3. TimeoutFresh
    BY <1>1 DEF LoopInv
  <2>4. QED
    BY <2>2, <2>3 DEF TimeoutFresh
<1>2. LoopInv /\ [Next]_vars
        => [\A t \in Timers \ Repeats : HandleTimer(Owner[t], t) => last[t] = None]_vars
  BY <1>1
<1>3. QED
  BY <1>2, LoopInvariant, PTL DEF Spec, OneShotOnce

-----------------------------------------------------------------------------
(* What a round leaves behind.                                             *)

\* What stands where no sweep follows was started there.
LateOnly ==
  \A r \in Runtimes : /\ ~TasksSwept(r) => InFlight(r) \subseteq late
                      /\ ~TimersSwept(r) => Own(r) \cap timer_map \subseteq late

\* The queue never holds the handler of a timer that waits, so that run_timer() forgets no
\* wait when it erases a timeout's id.
LEMMA ArmedStep ==
  ASSUME LoopInv, ArmedIsRegistered, [Next]_vars
  PROVE  ArmedIsRegistered'
<1> USE DEF ArmedIsRegistered
<1>1. ASSUME NEW r \in Runtimes, NEW t \in Timers, HandleTimer(r, t) PROVE ArmedIsRegistered'
  <2>1. 1 \in 1..Len(ready[r]) /\ ready[r][1] = t
    BY <1>1, Popped DEF HandleTimer, Handles, LoopInv, TypeOK
  <2>2. t \notin armed
    BY <1>1, <2>1 DEF LoopInv, QueueShape
  <2>3. CASE StartOnce(r, t)
    BY <2>2, <2>3 DEF StartOnce
  <2>4. CASE StartRepeat(r, t)
    BY <2>4 DEF StartRepeat
  <2>5. QED BY <1>1, <2>3, <2>4 DEF HandleTimer
<1>2. ASSUME NEW r \in Runtimes, NEW t \in Timers, JsTimer(r, t) \/ JsClear(r, t)
      PROVE  ArmedIsRegistered'
  BY <1>2 DEF JsTimer, JsClear, Schedule, Clear
<1>3. ASSUME NEW r \in Runtimes, ClearTimers(r) PROVE ArmedIsRegistered'
  BY <1>3 DEF ClearTimers, CancelAll
<1>4. ASSUME NEW r \in Runtimes, Joined(r) PROVE ArmedIsRegistered'
  <2>1. armed' \subseteq armed /\ timer_map' = timer_map
    BY <1>4 DEF Joined, DropContext, timerVars, clockVars
  <2>2. QED BY <2>1
<1>5. ASSUME NEW t \in Timers, Expired(t) PROVE ArmedIsRegistered'
  BY <1>5 DEF Expired, Expire
<1>6. CASE UNCHANGED <<timer_map, armed>>
  BY <1>6
<1>7. QED
  BY <1>1, <1>2, <1>3, <1>4, <1>5, <1>6
     DEF Next, Script, Handle, Steps, Eval, Run, RunToCompletion, Begin, Destroy, StopCall,
         JsSpawn, JsThen, JsReturn, Check, RunJob, JobThrows, Pumped, ShutdownAgain,
         ShutdownBusy, ShutdownIdle, Drained, Complete, HandleStop, HandleSettle, PopHandler,
         Post, Tick, vars, timerVars, clockVars, loopVars

\* pending_ is 0 when nothing is in flight, and only then.
LEMMA NothingPending ==
  ASSUME LoopInv, NEW r \in Runtimes, pending[r] = 0 PROVE InFlight(r) = {}
BY InFlightFinite, FS_EmptySet DEF LoopInv, PendingExact

\* Where a runtime joins, both sweeps are over.
JoinedLast ==
  \A r \in Runtimes :
    /\ phase[r] \in {"drain", "join"} => shutdown_done[r] /\ loop[r] # "cancel"
    /\ phase[r] \in {"clear", "idle", "gone"} => loop[r] # "cancel"
    /\ loop[r] \in {"cancel", "last"} \/ phase[r] = "clear" => shutdown_done[r]
    /\ phase[r] = "shutdown" => loop[r] # "cancel"

\* The sweep of the tasks ends only where pending_ is 0, and that of the timers only with
\* the registry cleared; neither comes back.
LEMMA SweepsEnd ==
  ASSUME LoopInv, JoinedLast, [Next]_vars, NEW q \in Runtimes
  PROVE  /\ ~TasksSwept(q)' => ~TasksSwept(q) \/ (pending[q] = 0 /\ js[q] = "none")
         /\ ~TimersSwept(q)' => ~TimersSwept(q) \/ timer_map' = {}
<1>0. TypeOK /\ LoopShape
  BY DEF LoopInv
<1> USE <1>0 DEF control, work, flags, bounds, history, loopVars, At, GoTo, TypeOK, TasksSwept,
                 TimersSwept
<1> DEFINE Goal == /\ ~TasksSwept(q)' => ~TasksSwept(q) \/ (pending[q] = 0 /\ js[q] = "none")
                   /\ ~TimersSwept(q)' => ~TimersSwept(q) \/ timer_map' = {}
<1>1. ASSUME NEW r \in Runtimes, Run(r) \/ RunToCompletion(r) \/ Destroy(r) PROVE Goal
  <2>1. CASE Destroy(r)
    BY <2>1 DEF Destroy
  <2>2. CASE Run(r)
    BY <2>2 DEF Run, Begin, JoinedLast
  <2>3. CASE RunToCompletion(r)
    BY <2>3 DEF RunToCompletion, Begin, JoinedLast
  <2>4. QED BY <1>1, <2>1, <2>2, <2>3
<1>2. ASSUME NEW r \in Runtimes, Handle(r) PROVE Goal
  <2>1. /\ phase[r] \in {"poll", "drain"}
        /\ phase' = [phase EXCEPT ![r] = IF phase[r] = "drain" THEN "drain"
                                         ELSE IF loop[r] = "script" THEN "pump" ELSE "check"]
        /\ UNCHANGED <<loop, shutdown_done>>
    BY <1>2 DEF Handle, HandleTimer, HandleStop, HandleSettle, Handles, Polling, Resume
  <2>2. QED BY <2>1
<1>3. ASSUME NEW r \in Runtimes, Check(r) PROVE Goal
  <2>1. js[r] = "none" /\ phase[r] = "check" /\ loop[r] # "last" /\ UNCHANGED shutdown_done
    BY <1>3 DEF Check, LoopShape
  <2>2. CASE Leaves(r) /\ loop[r] = "cancel"
    <3>1. /\ phase' = [phase EXCEPT ![r] = "pump"] /\ loop' = [loop EXCEPT ![r] = "last"]
      BY <1>3, <2>2 DEF Check
    <3>2. pending[r] = 0
      BY <2>2 DEF Leaves
    <3>3. QED BY <2>1, <2>2, <3>1, <3>2
  <2>3. CASE ~(Leaves(r) /\ loop[r] = "cancel")
    <3>1. UNCHANGED loop
          /\ \E p \in {"poll", "pump", "shutdown"} :
               /\ phase' = [phase EXCEPT ![r] = p]
               /\ loop[r] = "cancel" => p \in {"poll", "pump"}
      BY <1>3, <2>3 DEF Check
    <3>2. QED BY <2>1, <3>1
  <2>4. QED BY <2>2, <2>3
<1>4. ASSUME NEW r \in Runtimes, Pumped(r) \/ JobThrows(r) PROVE Goal
  <2>1. /\ phase[r] = "pump" /\ UNCHANGED <<loop, shutdown_done>>
        /\ \E p \in {"check", "clear", "poll"} :
             /\ phase' = [phase EXCEPT ![r] = p]
             /\ loop[r] = "last" => p = "clear"
    BY <1>4 DEF Pumped, JobThrows, PumpReturns, LoopShape
  <2>2. QED BY <2>1
<1>5. ASSUME NEW r \in Runtimes, ShutdownAgain(r) \/ Drained(r) PROVE Goal
  BY <1>5 DEF ShutdownAgain, Drained
<1>6. ASSUME NEW r \in Runtimes, ShutdownBusy(r) PROVE Goal
  BY <1>6 DEF ShutdownBusy
<1>7. ASSUME NEW r \in Runtimes, ShutdownIdle(r) PROVE Goal
  BY <1>7 DEF ShutdownIdle
<1>8. ASSUME NEW r \in Runtimes, ClearTimers(r) PROVE Goal
  BY <1>8 DEF ClearTimers, CancelAll
<1>9. ASSUME NEW r \in Runtimes, Joined(r) PROVE Goal
  <2>1. phase[r] = "join" /\ UNCHANGED <<loop, shutdown_done>>
        /\ phase' = [phase EXCEPT ![r] = IF dtor[r] THEN "gone" ELSE "idle"]
    BY <1>9 DEF Joined
  <2>2. QED BY <2>1
<1>10. CASE UNCHANGED <<phase, loop, shutdown_done>>
  BY <1>10
<1>11. QED
  BY <1>1, <1>2, <1>3, <1>4, <1>5, <1>6, <1>7, <1>8, <1>9, <1>10
     DEF Next, Script, Steps, Eval, StopCall, JsTimer, JsClear, JsSpawn, JsThen, JsReturn, RunJob,
         Expired, Complete, vars

\* A task that is in flight after a step was before, or was started by it; and so for a timer
\* that is registered.
LEMMA GrowsLate ==
  ASSUME LoopInv, [Next]_vars, NEW q \in Runtimes
  PROVE  /\ late \subseteq late'
         /\ ~TasksSwept(q) \/ js[q] = "none" => InFlight(q)' \subseteq InFlight(q) \cup late'
         /\ ~TimersSwept(q) => Own(q) \cap timer_map' \subseteq timer_map \cup late'
<1>0. task \in [Tasks -> Lives]
  BY DEF LoopInv, TypeOK
<1> DEFINE Goal == /\ late \subseteq late'
                   /\ ~TasksSwept(q) \/ js[q] = "none" => InFlight(q)' \subseteq InFlight(q) \cup late'
                   /\ ~TimersSwept(q) => Own(q) \cap timer_map' \subseteq timer_map \cup late'
<1>1. ASSUME NEW r \in Runtimes, NEW k \in Tasks, JsSpawn(r, k) PROVE Goal
  <2>1. /\ TaskOf[k] = r /\ task' = [task EXCEPT ![k] = "inflight"] /\ js[r] # "none"
        /\ late' = IF TasksSwept(r) THEN late ELSE late \cup {k}
        /\ UNCHANGED timer_map
    BY <1>1, LoopAssumption DEF JsSpawn, Scripts, timerVars, clockVars
  <2>2. CASE q = r
    BY <1>0, <2>1, <2>2 DEF InFlight
  <2>3. CASE q # r
    BY <1>0, <2>1, <2>3 DEF InFlight
  <2>4. QED BY <2>2, <2>3
<1>2. ASSUME NEW r \in Runtimes, NEW t \in Timers, JsTimer(r, t) PROVE Goal
  <2>1. /\ Owner[t] = r /\ timer_map' = timer_map \cup {t}
        /\ late' = IF TimersSwept(r) THEN late ELSE late \cup {t}
        /\ UNCHANGED task
    BY <1>2 DEF JsTimer, Schedule, Own, work
  <2>2. InFlight(q)' = InFlight(q)
    BY <2>1 DEF InFlight
  <2>3. QED BY <2>1, <2>2 DEF Own
<1>3. ASSUME UNCHANGED late, InFlight(q)' \subseteq InFlight(q), timer_map' \subseteq timer_map
      PROVE  Goal
  BY <1>3
<1>4. ASSUME NEW k \in Tasks, Complete(k) PROVE Goal
  BY <1>0, <1>3, <1>4 DEF Complete, InFlight, clockVars, history
<1>5. ASSUME NEW r \in Runtimes, Handle(r) PROVE Goal
  <2>1. ASSUME NEW t \in Timers, HandleTimer(r, t) PROVE Goal
    <3>1. timer_map' \subseteq timer_map /\ UNCHANGED <<task, late>>
      BY <2>1 DEF HandleTimer, StartRepeat, StartOnce, work, history
    <3>2. QED BY <1>3, <3>1 DEF InFlight
  <2>2. CASE HandleStop(r)
    BY <1>3, <2>2 DEF HandleStop, PopHandler, InFlight, clockVars, work, history
  <2>3. ASSUME NEW k \in Tasks, HandleSettle(r, k) PROVE Goal
    BY <1>0, <1>3, <2>3 DEF HandleSettle, PopHandler, InFlight, clockVars, history
  <2>4. QED BY <1>5, <2>1, <2>2, <2>3 DEF Handle
<1>6. ASSUME UNCHANGED <<task, late>>, timer_map' \subseteq timer_map PROVE Goal
  BY <1>3, <1>6 DEF InFlight
<1>7. ASSUME NEW r \in Runtimes, NEW t \in Timers, JsClear(r, t) PROVE Goal
  BY <1>6, <1>7 DEF JsClear, Clear, loopVars, work, history
<1>8. ASSUME NEW r \in Runtimes, Steps(r) PROVE Goal
  <2>1. CASE ClearTimers(r)
    BY <1>6, <2>1 DEF ClearTimers, CancelAll, work, history
  <2>2. CASE Joined(r)
    BY <1>6, <2>2 DEF Joined, DropContext, timerVars, clockVars, work, history
  <2>3. CASE UNCHANGED <<task, late, timer_map>>
    BY <1>6, <2>3
  <2>4. QED
    BY <1>8, <2>1, <2>2, <2>3
       DEF Steps, JsReturn, Check, RunJob, JobThrows, Pumped, ShutdownAgain, ShutdownBusy,
           ShutdownIdle, Drained, timerVars, clockVars, work, history
<1>9. ASSUME NEW t \in Timers, Expired(t) PROVE Goal
  BY <1>6, <1>9 DEF Expired, Expire, loopVars, work, history
<1>10. CASE UNCHANGED <<task, late, timer_map>>
  BY <1>6, <1>10
<1>11. QED
  BY <1>1, <1>2, <1>4, <1>5, <1>7, <1>8, <1>9, <1>10
     DEF Next, Script, Eval, Run, RunToCompletion, Begin, Destroy, StopCall, JsThen, Tick,
         vars, timerVars, clockVars, loopVars, work, history

\* Where the sweeps are over, nothing is left but what started after them.
LEMMA LateStep ==
  ASSUME LoopInv, JoinedLast, LateOnly, [Next]_vars
  PROVE  LateOnly'
<1> SUFFICES ASSUME NEW q \in Runtimes
             PROVE  /\ ~TasksSwept(q)' => InFlight(q)' \subseteq late'
                    /\ ~TimersSwept(q)' => Own(q) \cap timer_map' \subseteq late'
  BY DEF LateOnly, Own
<1>1. /\ ~TasksSwept(q) => InFlight(q) \subseteq late
      /\ ~TimersSwept(q) => Own(q) \cap timer_map \subseteq late
  BY DEF LateOnly
<1>2. pending[q] = 0 => InFlight(q) = {}
  BY NothingPending
<1>3. /\ ~TasksSwept(q)' => ~TasksSwept(q) \/ (pending[q] = 0 /\ js[q] = "none")
      /\ ~TimersSwept(q)' => ~TimersSwept(q) \/ timer_map' = {}
  BY SweepsEnd
<1>4. /\ late \subseteq late'
      /\ ~TasksSwept(q) \/ js[q] = "none" => InFlight(q)' \subseteq InFlight(q) \cup late'
      /\ ~TimersSwept(q) => Own(q) \cap timer_map' \subseteq timer_map \cup late'
  BY GrowsLate
<1>5. ASSUME ~TasksSwept(q)' PROVE InFlight(q)' \subseteq late'
  BY <1>1, <1>2, <1>3, <1>4, <1>5
<1>6. ASSUME ~TimersSwept(q)' PROVE Own(q) \cap timer_map' \subseteq late'
  BY <1>1, <1>3, <1>4, <1>6
<1>7. QED BY <1>5, <1>6

\* shutdown() comes to its join after its own steps, the first time and any other.
LEMMA JoinedStep ==
  ASSUME LoopInv, JoinedLast, [Next]_vars
  PROVE  JoinedLast'
<1>0. TypeOK /\ LoopShape
  BY DEF LoopInv
<1> USE <1>0 DEF JoinedLast, control, work, flags, bounds, history, loopVars, At, GoTo, TypeOK
<1>1. ASSUME NEW r \in Runtimes, Run(r) \/ RunToCompletion(r) \/ Destroy(r) PROVE JoinedLast'
  BY <1>1 DEF Run, RunToCompletion, Begin, Destroy
<1>2. ASSUME NEW r \in Runtimes, Handle(r) PROVE JoinedLast'
  <2>1. /\ phase[r] \in {"poll", "drain"}
        /\ phase' = [phase EXCEPT ![r] = IF phase[r] = "drain" THEN "drain"
                                         ELSE IF loop[r] = "script" THEN "pump" ELSE "check"]
        /\ UNCHANGED <<loop, shutdown_done>>
    BY <1>2 DEF Handle, HandleTimer, HandleStop, HandleSettle, Handles, Polling, Resume
  <2>2. QED BY <2>1
<1>3. ASSUME NEW r \in Runtimes, Check(r) PROVE JoinedLast'
  BY <1>3 DEF Check
<1>4. ASSUME NEW r \in Runtimes, Pumped(r) \/ JobThrows(r) PROVE JoinedLast'
  BY <1>4 DEF Pumped, JobThrows, PumpReturns, LoopShape
<1>5. ASSUME NEW r \in Runtimes,
             ShutdownAgain(r) \/ ShutdownBusy(r) \/ ShutdownIdle(r) \/ ClearTimers(r) \/ Drained(r)
      PROVE  JoinedLast'
  BY <1>5 DEF ShutdownAgain, ShutdownBusy, ShutdownIdle, ClearTimers, Drained
<1>6. ASSUME NEW r \in Runtimes, Joined(r) PROVE JoinedLast'
  <2>1. phase[r] = "join" /\ UNCHANGED <<loop, shutdown_done>>
        /\ phase' = [phase EXCEPT ![r] = IF dtor[r] THEN "gone" ELSE "idle"]
    BY <1>6 DEF Joined
  <2>2. QED BY <2>1
<1>7. CASE UNCHANGED <<phase, loop, shutdown_done>>
  BY <1>7
<1>8. QED
  BY <1>1, <1>2, <1>3, <1>4, <1>5, <1>6, <1>7
     DEF Next, Script, Steps, Eval, StopCall, JsTimer, JsClear, JsSpawn, JsThen, JsReturn, RunJob,
         Expired, Complete, vars

\* No wait but an interval's is ever forgotten, whatever scripts do and for any number of
\* rounds: clearTimeout() and shutdown() find every one.
THEOREM NoWaitIsForgotten == Spec => []ArmedIsRegistered
<1>1. Init => ArmedIsRegistered
  BY DEF Init, TimersInit, ArmedIsRegistered
<1>2. LoopInv /\ ArmedIsRegistered /\ [Next]_vars => ArmedIsRegistered'
  BY ArmedStep
<1>3. QED BY <1>1, <1>2, LoopInvariant, PTL DEF Spec

\* Every round, whatever its scripts start, leaves behind only what was started where no
\* sweep of shutdown() follows, for any number of runtimes that share the registry.
THEOREM RoundsLeaveNothing == Spec => []RoundLeavesNothing
<1>1. Init => LateOnly /\ JoinedLast
  BY DEF Init, TimersInit, LateOnly, JoinedLast, TasksSwept, TimersSwept
<1>2. LoopInv /\ LateOnly /\ JoinedLast /\ [Next]_vars => LateOnly' /\ JoinedLast'
  BY LateStep, JoinedStep
<1>3. LateOnly /\ JoinedLast => NoResidue /\ SettledBeforeJoin
  BY DEF LateOnly, JoinedLast, TasksSwept, TimersSwept, NoResidue, SettledBeforeJoin
<1>4. ArmedIsRegistered /\ NoResidue /\ SettledBeforeJoin => RoundLeavesNothing
  BY DEF RoundLeavesNothing
<1>5. QED BY <1>1, <1>2, <1>3, <1>4, NoWaitIsForgotten, LoopInvariant, PTL DEF Spec

=============================================================================

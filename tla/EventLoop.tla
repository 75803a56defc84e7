------------------------------ MODULE EventLoop ------------------------------
(***************************************************************************)
(* Runtime's event loop: spawn, run, run_to_completion, stop, shutdown and *)
(* the destructor (loop.hpp, context.hpp), driving the timers of           *)
(* web/timers.hpp and the tasks that promise_from_sender() spawns.         *)
(*                                                                         *)
(* Each runtime has one thread.  `js` says what script it is inside of; a  *)
(* script makes any number of calls before it returns, and other runtimes, *)
(* completions of tasks, stop() and the clock interleave with it.          *)
(***************************************************************************)
EXTENDS Timers, Integers, FiniteSets

CONSTANTS Tasks,     \* senders handed to spawn()
          TaskOf,    \* the runtime that spawns them
          Stop,      \* the handler that stop() posts
          Rounds,    \* bound on the rounds of run() or run_to_completion()
          MaxStops,  \* bound on calls of stop()
          MaxJobs,   \* bound on jobs a script queues by itself
          SpawnIn,   \* the scripts that may spawn a task ...
          TimersIn   \* ... and may schedule a timer

Scripts == {"eval", "job", "callback"}

ASSUME LoopAssumption ==
  /\ TaskOf \in [Tasks -> Runtimes]
  /\ Tasks \cap Timers = {} /\ Stop \notin Tasks \cup Timers
  /\ Rounds \in Nat /\ MaxStops \in Nat /\ MaxJobs \in Nat
  /\ SpawnIn \subseteq Scripts /\ TimersIn \subseteq Scripts
  /\ IsFiniteSet(Tasks)

VARIABLES
  phase,          \* where the runtime's thread stands
  loop,           \* which of the code's loops drives it
  js,             \* the script it is running, or "none"
  jobs,           \* the engine's pending jobs
  pending,        \* pending_
  done,           \* done_
  shutdown_done,  \* shutdown_done_
  stopping,       \* scope_->request_stop() was called on the present scope_
  dtor,           \* the destructor was entered
  task,           \* life of each task
  rounds, stops,  \* counters for the bounds
  threw,          \* history: the last pump ended at a job that threw
  late            \* history: tasks and timers started where no sweep of shutdown() follows

control  == <<phase, loop, js>>
work     == <<jobs, pending, task>>
flags    == <<done, shutdown_done, stopping, dtor>>
bounds   == <<rounds, stops>>
history  == <<threw, late>>
loopVars == <<control, work, flags, bounds, history>>
vars == <<timerVars, loopVars>>

Phases == {"idle", "check", "pump", "poll", "shutdown", "clear", "drain", "join", "gone"}
Loops  == {"run", "script", "cancel", "last"}
Lives  == {"unborn", "inflight", "posted", "settled"}

Handlers == Timers \cup Tasks \cup {Stop}
InFlight(r) == {k \in Tasks : TaskOf[k] = r /\ task[k] \in {"inflight", "posted"}}

Init ==
  /\ TimersInit
  /\ phase = [r \in Runtimes |-> "idle"] /\ loop = [r \in Runtimes |-> "script"]
  /\ js = [r \in Runtimes |-> "none"] /\ jobs = [r \in Runtimes |-> 0]
  /\ pending = [r \in Runtimes |-> 0] /\ done = [r \in Runtimes |-> FALSE]
  /\ shutdown_done = [r \in Runtimes |-> FALSE] /\ stopping = [r \in Runtimes |-> FALSE]
  /\ dtor = [r \in Runtimes |-> FALSE]
  /\ task = [k \in Tasks |-> "unborn"]
  /\ rounds = [r \in Runtimes |-> 0] /\ stops = 0
  /\ threw = [r \in Runtimes |-> FALSE] /\ late = {}

\* The thread is between two calls of its code, at the given point.
At(r, p) == js[r] = "none" /\ phase[r] = p
GoTo(r, p) == phase' = [phase EXCEPT ![r] = p]

-----------------------------------------------------------------------------
(* The host, between rounds.                                               *)

Eval(r) ==
  /\ At(r, "idle") /\ rounds[r] < Rounds
  /\ js' = [js EXCEPT ![r] = "eval"]
  /\ UNCHANGED <<timerVars, phase, loop, work, flags, bounds, history>>

\* run() and run_to_completion() up to their loop.
Begin(r, l, p) ==
  /\ At(r, "idle") /\ rounds[r] < Rounds
  /\ rounds' = [rounds EXCEPT ![r] = @ + 1]
  /\ loop' = [loop EXCEPT ![r] = l]
  /\ GoTo(r, p)
  /\ UNCHANGED <<timerVars, js, work, flags, stops, history>>

Run(r) == Begin(r, "run", "check")
RunToCompletion(r) == Begin(r, "script", "pump")

\* ~Runtime
Destroy(r) ==
  /\ At(r, "idle")
  /\ dtor' = [dtor EXCEPT ![r] = TRUE]
  /\ GoTo(r, "shutdown")
  /\ UNCHANGED <<timerVars, loop, js, work, done, shutdown_done, stopping, bounds, history>>

\* stop(), on any thread.
StopCall(r) ==
  /\ phase[r] # "gone" /\ stops < MaxStops
  /\ stops' = stops + 1
  /\ Post(r, Stop)
  /\ UNCHANGED <<clockVars, control, work, flags, rounds, history>>

-----------------------------------------------------------------------------
(* What a script can do to the loop.                                       *)

\* The sweeps still to come: shutdown() waits for the tasks in flight until its cancelling
\* loop ends, and clears the timers registered by then or in the pump that follows; it does
\* both once in the life of a runtime.
TasksSwept(r) == ~shutdown_done[r] \/ loop[r] = "cancel"
TimersSwept(r) ==
  \/ ~shutdown_done[r] \/ phase[r] = "clear"
  \/ loop[r] \in {"cancel", "last"} /\ phase[r] \in {"check", "pump", "poll"}

JsTimer(r, t) ==
  /\ js[r] \in TimersIn /\ t \in Own(r)
  /\ Schedule(t)
  /\ late' = IF TimersSwept(r) THEN late ELSE late \cup {t}
  /\ UNCHANGED <<control, work, flags, bounds, threw>>

JsClear(r, t) ==
  /\ js[r] \in Scripts /\ t \in Own(r)
  /\ Clear(t)
  /\ UNCHANGED loopVars

\* An asynchronous function: promise_from_sender() spawns its sender.
JsSpawn(r, k) ==
  /\ js[r] \in SpawnIn /\ TaskOf[k] = r /\ task[k] = "unborn"
  /\ pending' = [pending EXCEPT ![r] = @ + 1]
  /\ task' = [task EXCEPT ![k] = "inflight"]
  /\ late' = IF TasksSwept(r) THEN late ELSE late \cup {k}
  /\ UNCHANGED <<timerVars, control, jobs, flags, bounds, threw>>

\* A then() on a settled promise.  (A job that queues jobs for ever starves the loop.)
JsThen(r) ==
  /\ js[r] \in {"eval", "callback"} /\ jobs[r] < MaxJobs
  /\ jobs' = [jobs EXCEPT ![r] = @ + 1]
  /\ UNCHANGED <<timerVars, control, pending, flags, task, bounds, history>>

JsReturn(r) ==
  /\ js[r] # "none"
  /\ js' = [js EXCEPT ![r] = "none"]
  /\ UNCHANGED <<timerVars, phase, loop, work, flags, bounds, history>>

-----------------------------------------------------------------------------
(* The loops.  run: check, pump, poll.  run_to_completion: pump, check,    *)
(* poll.  shutdown: check, pump, poll until pending_ = 0, then one pump.   *)

Leaves(r) == CASE loop[r] = "run"    -> done[r]
               [] loop[r] = "script" -> done[r] \/ pending[r] = 0
               [] OTHER              -> pending[r] = 0

Check(r) ==
  /\ At(r, "check")
  /\ IF ~Leaves(r)
     THEN GoTo(r, IF loop[r] = "script" THEN "poll" ELSE "pump") /\ UNCHANGED loop
     ELSE IF loop[r] = "cancel"
          THEN GoTo(r, "pump") /\ loop' = [loop EXCEPT ![r] = "last"]
          ELSE GoTo(r, "shutdown") /\ UNCHANGED loop
  /\ UNCHANGED <<timerVars, js, work, flags, bounds, history>>

\* JS_ExecutePendingJob() inside pump_js_jobs().
RunJob(r) ==
  /\ At(r, "pump") /\ jobs[r] > 0
  /\ jobs' = [jobs EXCEPT ![r] = @ - 1]
  /\ js' = [js EXCEPT ![r] = "job"]
  /\ threw' = [threw EXCEPT ![r] = FALSE]
  /\ UNCHANGED <<timerVars, phase, loop, pending, flags, task, bounds, late>>

\* Where pump_js_jobs() returns to.
PumpReturns(r) == GoTo(r, CASE loop[r] = "script" -> "check"
                            [] loop[r] = "last" -> "clear"
                            [] OTHER -> "poll")

\* Fault: one job is executed instead of all.
MutantPumped(r) ==
  /\ At(r, "pump") /\ PumpReturns(r)
  /\ threw' = [threw EXCEPT ![r] = FALSE]
  /\ UNCHANGED <<timerVars, loop, js, work, flags, bounds, late>>

Pumped(r) ==
  /\ At(r, "pump") /\ jobs[r] = 0 /\ PumpReturns(r)
  /\ threw' = [threw EXCEPT ![r] = FALSE]
  /\ UNCHANGED <<timerVars, loop, js, work, flags, bounds, late>>

\* A job that ends in an exception: it is printed, and the jobs behind it wait for the
\* next pump.
JobThrows(r) ==
  /\ js[r] = "job" /\ js' = [js EXCEPT ![r] = "none"]
  /\ PumpReturns(r)
  /\ threw' = [threw EXCEPT ![r] = TRUE]
  /\ UNCHANGED <<timerVars, loop, work, flags, bounds, late>>

\* io_.run_one() in a loop, or io_.poll_one() while shutdown() drains the queue.
Polling(r) == At(r, "poll") \/ At(r, "drain")
Handles(r, h) == Polling(r) /\ ready[r] # <<>> /\ Head(ready[r]) = h
Resume(r) == GoTo(r, IF phase[r] = "drain" THEN "drain"
                     ELSE IF loop[r] = "script" THEN "pump" ELSE "check")
PopHandler(r) == /\ ready' = [ready EXCEPT ![r] = Tail(@)]
                 /\ UNCHANGED <<clockVars>>

Expired(t) == Polling(Owner[t]) /\ Expire(t) /\ UNCHANGED loopVars

HandleTimer(r, t) ==
  /\ Handles(r, t)
  /\ StartRepeat(r, t) \/ StartOnce(r, t)
  /\ js' = [js EXCEPT ![r] = "callback"]
  /\ Resume(r)
  /\ UNCHANGED <<loop, work, flags, bounds, history>>

\* Fault: the flag is reset when the round that saw it ends.
MutantHandleStop(r) ==
  /\ Handles(r, Stop) /\ PopHandler(r) /\ Resume(r)
  /\ UNCHANGED <<loop, js, work, flags, bounds, history>>

HandleStop(r) ==
  /\ Handles(r, Stop) /\ PopHandler(r) /\ Resume(r)
  /\ done' = [done EXCEPT ![r] = TRUE]
  /\ UNCHANGED <<loop, js, work, shutdown_done, stopping, dtor, bounds, history>>

\* Fault: a stopped sender has no completion of its own, so nothing is counted down.
MutantHandleSettle(r, k) ==
  /\ Handles(r, k) /\ PopHandler(r) /\ Resume(r)
  /\ jobs' = [jobs EXCEPT ![r] = @ + 1]
  /\ pending' = IF stopping[r] THEN pending ELSE [pending EXCEPT ![r] = @ - 1]
  /\ task' = [task EXCEPT ![k] = "settled"]
  /\ UNCHANGED <<loop, js, flags, bounds, history>>

\* The chain's end on the loop's thread: the promise is settled, which queues its
\* reactions, and complete() counts the task out as the scope lets go of it.
HandleSettle(r, k) ==
  /\ Handles(r, k) /\ PopHandler(r) /\ Resume(r)
  /\ jobs' = [jobs EXCEPT ![r] = @ + 1]
  /\ pending' = [pending EXCEPT ![r] = @ - 1]
  /\ task' = [task EXCEPT ![k] = "settled"]
  /\ UNCHANGED <<loop, js, flags, bounds, history>>

\* A sender completes, on any thread; continues_on() posts the rest to io_.
Complete(k) ==
  /\ task[k] = "inflight"
  /\ task' = [task EXCEPT ![k] = "posted"]
  /\ Post(TaskOf[k], k)
  /\ UNCHANGED <<clockVars, control, jobs, pending, flags, bounds, history>>

\* The scope was asked to stop, which senders answer by completing.
Cancelled(k) == stopping[TaskOf[k]] /\ Complete(k)

-----------------------------------------------------------------------------
(* shutdown().                                                             *)

ShutdownAgain(r) ==
  /\ At(r, "shutdown") /\ shutdown_done[r]
  /\ GoTo(r, "drain")
  /\ UNCHANGED <<timerVars, loop, js, work, flags, bounds, history>>

\* Fault: the tasks are driven to their end without being told to stop.
MutantShutdownBusy(r) ==
  /\ At(r, "shutdown") /\ ~shutdown_done[r] /\ pending[r] # 0
  /\ shutdown_done' = [shutdown_done EXCEPT ![r] = TRUE]
  /\ loop' = [loop EXCEPT ![r] = "cancel"]
  /\ GoTo(r, "check")
  /\ UNCHANGED <<timerVars, js, work, done, stopping, dtor, bounds, history>>

ShutdownBusy(r) ==
  /\ At(r, "shutdown") /\ ~shutdown_done[r] /\ pending[r] # 0
  /\ shutdown_done' = [shutdown_done EXCEPT ![r] = TRUE]
  /\ stopping' = [stopping EXCEPT ![r] = TRUE]
  /\ loop' = [loop EXCEPT ![r] = "cancel"]
  /\ GoTo(r, "check")
  /\ UNCHANGED <<timerVars, js, work, done, dtor, bounds, history>>

ShutdownIdle(r) ==
  /\ At(r, "shutdown") /\ ~shutdown_done[r] /\ pending[r] = 0
  /\ shutdown_done' = [shutdown_done EXCEPT ![r] = TRUE]
  /\ GoTo(r, "clear")
  /\ UNCHANGED <<timerVars, loop, js, work, done, stopping, dtor, bounds, history>>

ClearTimers(r) ==
  /\ At(r, "clear") /\ CancelAll
  /\ GoTo(r, "drain")
  /\ UNCHANGED <<loop, js, work, flags, bounds, history>>

\* poll_one() has returned 0: finish_scope() goes on to sync_wait(scope_->join()),
\* which drives no handler.
Drained(r) ==
  /\ At(r, "drain") /\ ready[r] = <<>>
  /\ GoTo(r, "join")
  /\ UNCHANGED <<timerVars, loop, js, work, flags, bounds, history>>

Joined(r) ==
  /\ At(r, "join") /\ InFlight(r) = {}
  /\ stopping' = [stopping EXCEPT ![r] = FALSE]
  /\ IF dtor[r] THEN GoTo(r, "gone") /\ DropContext(r)
                ELSE GoTo(r, "idle") /\ UNCHANGED timerVars
  /\ UNCHANGED <<loop, js, work, done, shutdown_done, dtor, bounds, history>>

-----------------------------------------------------------------------------
Script(r) ==
  \/ \E t \in Timers : JsTimer(r, t) \/ JsClear(r, t)
  \/ \E k \in Tasks : JsSpawn(r, k)
  \/ JsThen(r)

Handle(r) ==
  \/ \E t \in Timers : HandleTimer(r, t)
  \/ HandleStop(r)
  \/ \E k \in Tasks : HandleSettle(r, k)

Steps(r) ==
  \/ JsReturn(r) \/ Check(r) \/ RunJob(r) \/ Pumped(r) \/ JobThrows(r)
  \/ ShutdownAgain(r) \/ ShutdownBusy(r) \/ ShutdownIdle(r) \/ ClearTimers(r)
  \/ Drained(r) \/ Joined(r)

Next ==
  \/ \E r \in Runtimes : \/ Eval(r) \/ Run(r) \/ RunToCompletion(r) \/ Destroy(r)
                         \/ StopCall(r) \/ Script(r) \/ Handle(r) \/ Steps(r)
  \/ \E t \in Timers : Expired(t)
  \/ \E k \in Tasks : Complete(k)
  \/ Tick /\ UNCHANGED loopVars

Spec == Init /\ [][Next]_vars

\* A thread goes on, a script returns, and a cancelled task completes.  Nothing says
\* that a task which nobody cancels ever completes, or that the host does anything.
Fairness ==
  /\ \A r \in Runtimes : WF_vars(Handle(r)) /\ WF_vars(Steps(r))
  /\ \A k \in Tasks : WF_vars(Cancelled(k))

FairSpec == Spec /\ Fairness

-----------------------------------------------------------------------------
TypeOK ==
  /\ timer_map \subseteq created /\ armed \subseteq created /\ created \subseteq Timers
  /\ expiry \in [Timers -> Nat] /\ last \in [Timers -> Nat \cup {None}] /\ now \in Nat
  /\ ready \in [Runtimes -> Seq(Handlers)]
  /\ phase \in [Runtimes -> Phases] /\ loop \in [Runtimes -> Loops]
  /\ js \in [Runtimes -> Scripts \cup {"none"}]
  /\ jobs \in [Runtimes -> Nat] /\ pending \in [Runtimes -> Nat]
  /\ done \in [Runtimes -> BOOLEAN] /\ shutdown_done \in [Runtimes -> BOOLEAN]
  /\ stopping \in [Runtimes -> BOOLEAN] /\ dtor \in [Runtimes -> BOOLEAN]
  /\ task \in [Tasks -> Lives]
  /\ rounds \in [Runtimes -> Nat] /\ stops \in Nat
  /\ threw \in [Runtimes -> BOOLEAN] /\ late \subseteq Tasks \cup Timers

Queued(r, h) == \E i \in DOMAIN ready[r] : ready[r][i] = h

\* pending_ counts the tasks in flight exactly, whatever ends them: it is what every
\* loop's exit rests on (loop.hpp 4-6).
PendingExact == \A r \in Runtimes : pending[r] = Cardinality(InFlight(r))

\* The counts are exact: pending_ is the number of tasks in flight through spawns, stops,
\* shutdowns and further rounds, and never goes below 0.
CountsExact == TypeOK /\ PendingExact

\* The loop never blocks in run_one() while jobs wait to be pumped (loop.hpp 5 and 41), but
\* for those behind a job that threw.
NoJobWhileBlocked == \A r \in Runtimes : At(r, "poll") => jobs[r] = 0 \/ threw[r]

\* run_to_completion() ends by itself only when nothing is in flight, also when the last
\* job spawned a task, and nothing is left to pump but behind a job that threw.
ScriptWaitsForAll ==
  \A r \in Runtimes :
    phase[r] = "shutdown" /\ loop[r] = "script" /\ ~dtor[r] /\ ~done[r]
      => InFlight(r) = {} /\ (jobs[r] = 0 \/ threw[r])

\* Jobs and handlers take their turns: the loop pumps before it blocks and before it
\* leaves, so that nothing a script started is left behind, and a job is only by another
\* one of the same pump, which threw.
InTurn == NoJobWhileBlocked /\ ScriptWaitsForAll

\* A registered timer has a wait, or a handler on its way, so that its callback comes.
RegisteredWillFire ==
  \A t \in timer_map : \/ phase[Owner[t]] = "gone"
                       \/ t \in armed \/ Queued(Owner[t], t)

\* A setTimeout() callback runs once, cleared or not, round after round.
OneShotOnce ==
  [][\A t \in Timers \ Repeats : HandleTimer(Owner[t], t) => last[t] = None]_vars

\* Every wait outstanding belongs to a registered id, so that clearTimeout() and
\* shutdown() can find it, but that of an interval whose id was cleared while its handler
\* was queued or run: it waits again and again and nothing finds it.
ArmedIsRegistered == armed \ timer_map \subseteq Repeats

\* At the end of every round the runtime has no timers left (loop.hpp 117-119, context.hpp
\* 157-158, web/abort.hpp: "shutdown clears the registry, nothing is left") but those that
\* were started where no sweep follows: after the registry was cleared for good.
NoResidue == \A r \in Runtimes : phase[r] = "join" => Own(r) \cap timer_map \subseteq late

\* sync_wait(join) finds every task settled (loop.hpp 110-116) but those that were started
\* after the cancelling loop had ended for good, for which it waits.
SettledBeforeJoin == \A r \in Runtimes : phase[r] = "join" => InFlight(r) \subseteq late

\* What a round leaves behind was started too late to be swept, whatever scripts, jobs and
\* callbacks start, clear and repeat, in every round and in the destructor: no timer or
\* task that was there when shutdown() swept slips through between its steps.
RoundLeavesNothing == NoResidue /\ ArmedIsRegistered /\ SettledBeforeJoin

\* shutdown() returns, from a round as from the destructor.
ShutdownReturns == \A r \in Runtimes : phase[r] = "shutdown" ~> phase[r] \in {"idle", "gone"}

\* stop() ends the round it meets.
StopEndsTheRound ==
  \A r \in Runtimes : Queued(r, Stop) /\ phase[r] # "idle" ~> phase[r] \in {"idle", "gone"}

=============================================================================

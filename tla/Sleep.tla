------------------------------- MODULE Sleep -------------------------------
(***************************************************************************)
(* The control block of include/dart_cpp_bridge/sleep.hpp that the         *)
(* thread_sleep and asio_sleep operations share between the timer callback *)
(* and the destructor of the operation, which another thread, the callback *)
(* itself or the callback of another sleep may run while it is in flight.  *)
(***************************************************************************)
EXTENDS Naturals, FiniteSets

CONSTANTS Ops,        \* sleep operations
          Threads,
          RunsOn,     \* the threads that may run an operation's callback
          Destroys,   \* <<c, o>>: the continuation of c may destroy o
          None

Workers == UNION {RunsOn[o] : o \in Ops}
Owners  == Threads \ Workers

ASSUME SleepAssumption ==
  /\ RunsOn \in [Ops -> SUBSET Threads] /\ Destroys \subseteq Ops \X Ops
  /\ None \notin Threads

VARIABLES
  done,               \* shared_control_block::done
  in_flight,          \* ::in_flight
  completing_thread,  \* ::completing_thread
  rcvr,               \* ::rcvr is engaged
  callback,           \* the timer callback of the operation
  op,                 \* the operation state and its destructor
  destroyer,          \* the thread that runs or ran the destructor
  signals             \* completions delivered to the receiver

vars == <<done, in_flight, completing_thread, rcvr, callback, op, destroyer, signals>>

Callbacks == {"unarmed", "armed", "completing", "finished"}
Lives     == {"alive", "waiting", "gone"}

Init ==
  /\ done = [o \in Ops |-> FALSE]
  /\ in_flight = [o \in Ops |-> 0]
  /\ completing_thread = [o \in Ops |-> None]
  /\ rcvr = [o \in Ops |-> TRUE]
  /\ callback = [o \in Ops |-> "unarmed"]
  /\ op = [o \in Ops |-> "alive"]
  /\ destroyer = [o \in Ops |-> None]
  /\ signals = [o \in Ops |-> 0]

\* The thread is inside a callback, and so inside the continuation it resumed.
Running(t) == \E o \in Ops : callback[o] = "completing" /\ completing_thread[o] = t

\* An owner's thread may destroy an operation at any time, a thread of the timer only
\* from a continuation.
MayDestroy(t, o) ==
  \/ t \in Owners
  \/ \E c \in Ops : /\ callback[c] = "completing" /\ completing_thread[c] = t
                   /\ <<c, o>> \in Destroys

\* The thread is inside abandon(), waiting for a callback in flight.
Blocked(t) == \E o \in Ops : op[o] = "waiting" /\ destroyer[o] = t

\* start(): the detached thread or the async_wait handler shares the block.
Start(o) ==
  /\ callback[o] = "unarmed" /\ op[o] = "alive"
  /\ callback' = [callback EXCEPT ![o] = "armed"]
  /\ UNCHANGED <<done, in_flight, completing_thread, rcvr, op, destroyer, signals>>

\* begin_completion() refuses when the operation was abandoned ...
BeginRefused(o) ==
  /\ callback[o] = "armed" /\ \E t \in RunsOn[o] : ~Running(t)
  /\ done[o] \/ ~rcvr[o]
  /\ callback' = [callback EXCEPT ![o] = "finished"]
  /\ UNCHANGED <<done, in_flight, completing_thread, rcvr, op, destroyer, signals>>

\* Fault: begin_completion() does not look at `done` nor at the receiver.
MutantBegin(o, t) ==
  /\ callback[o] = "armed" /\ ~Running(t)
  /\ rcvr' = [rcvr EXCEPT ![o] = FALSE]
  /\ in_flight' = [in_flight EXCEPT ![o] = @ + 1]
  /\ completing_thread' = [completing_thread EXCEPT ![o] = t]
  /\ callback' = [callback EXCEPT ![o] = "completing"]
  /\ signals' = [signals EXCEPT ![o] = @ + 1]
  /\ UNCHANGED <<done, op, destroyer>>

\* Fault: the receiver stays in the block, for abandon() to destroy.
MutantBeginKeeps(o, t) ==
  /\ callback[o] = "armed" /\ ~Running(t)
  /\ ~done[o] /\ rcvr[o]
  /\ in_flight' = [in_flight EXCEPT ![o] = @ + 1]
  /\ completing_thread' = [completing_thread EXCEPT ![o] = t]
  /\ callback' = [callback EXCEPT ![o] = "completing"]
  /\ signals' = [signals EXCEPT ![o] = @ + 1]
  /\ UNCHANGED <<done, rcvr, op, destroyer>>

\* ... and otherwise moves the receiver out; set_value() runs after the unlock.
Begin(o, t) ==
  /\ callback[o] = "armed" /\ ~Running(t)
  /\ ~done[o] /\ rcvr[o]
  /\ rcvr' = [rcvr EXCEPT ![o] = FALSE]
  /\ in_flight' = [in_flight EXCEPT ![o] = @ + 1]
  /\ completing_thread' = [completing_thread EXCEPT ![o] = t]
  /\ callback' = [callback EXCEPT ![o] = "completing"]
  /\ signals' = [signals EXCEPT ![o] = @ + 1]
  /\ UNCHANGED <<done, op, destroyer>>

\* The continuation has returned: completion_guard runs end_completion().
End(o) ==
  /\ callback[o] = "completing" /\ ~Blocked(completing_thread[o])
  /\ in_flight' = [in_flight EXCEPT ![o] = @ - 1]
  /\ callback' = [callback EXCEPT ![o] = "finished"]
  /\ UNCHANGED <<done, completing_thread, rcvr, op, destroyer, signals>>

MutantAbandonSelf(o, t) ==
  /\ op[o] = "alive" /\ MayDestroy(t, o) /\ ~Blocked(t)
  /\ done' = [done EXCEPT ![o] = TRUE]
  /\ rcvr' = [rcvr EXCEPT ![o] = FALSE]
  /\ destroyer' = [destroyer EXCEPT ![o] = t]
  /\ op' = [op EXCEPT ![o] = IF in_flight[o] = 0 THEN "gone" ELSE "waiting"]
  /\ UNCHANGED <<in_flight, completing_thread, callback, signals>>

\* abandon(), called by the destructor, waits for another thread's callback only.
Abandon(o, t) ==
  /\ op[o] = "alive" /\ MayDestroy(t, o) /\ ~Blocked(t)
  /\ done' = [done EXCEPT ![o] = TRUE]
  /\ rcvr' = [rcvr EXCEPT ![o] = FALSE]
  /\ destroyer' = [destroyer EXCEPT ![o] = t]
  /\ op' = [op EXCEPT ![o] = IF in_flight[o] = 0 \/ completing_thread[o] = t
                             THEN "gone" ELSE "waiting"]
  /\ UNCHANGED <<in_flight, completing_thread, callback, signals>>

\* The wait in abandon() is over: the operation's memory goes away.
AbandonEnd(o) ==
  /\ op[o] = "waiting" /\ in_flight[o] = 0
  /\ op' = [op EXCEPT ![o] = "gone"]
  /\ UNCHANGED <<done, in_flight, completing_thread, rcvr, callback, destroyer, signals>>

-----------------------------------------------------------------------------
\* Every timer has fired or belongs to an operation that was never started.
Quiescent ==
  /\ \A o \in Ops : callback[o] \in {"unarmed", "finished"} /\ op[o] # "waiting"
  /\ UNCHANGED vars

Next ==
  \/ \E o \in Ops : Start(o) \/ BeginRefused(o) \/ End(o) \/ AbandonEnd(o)
  \/ \E o \in Ops, t \in Threads : t \in RunsOn[o] /\ Begin(o, t)
  \/ \E o \in Ops, t \in Threads : Abandon(o, t)
  \/ Quiescent

Spec == Init /\ [][Next]_vars

\* Timers fire, continuations return and a notified destructor wakes up; nobody
\* has to start or destroy an operation.
Fairness ==
  \A o \in Ops : /\ WF_vars(BeginRefused(o) \/ \E t \in RunsOn[o] : Begin(o, t))
                 /\ WF_vars(End(o)) /\ WF_vars(AbandonEnd(o))

FairSpec == Spec /\ Fairness

-----------------------------------------------------------------------------
\* Types; one callback at most is in flight, and one completion delivered.
TypeOK ==
  /\ done \in [Ops -> BOOLEAN] /\ rcvr \in [Ops -> BOOLEAN]
  /\ in_flight \in [Ops -> {0, 1}]
  /\ completing_thread \in [Ops -> Threads \cup {None}]
  /\ callback \in [Ops -> Callbacks] /\ op \in [Ops -> Lives]
  /\ destroyer \in [Ops -> Threads \cup {None}]
  /\ signals \in [Ops -> {0, 1}]

\* No callback touches a destroyed frame: while a continuation runs, its operation
\* is alive, or a destructor waits for it, or the continuation itself destroyed it
\* on its own thread (sleep.hpp 16-20, 55-60).
NoDanglingCallback ==
  \A o \in Ops : callback[o] = "completing" /\ op[o] = "gone"
                   => destroyer[o] = completing_thread[o]

\* The receiver is in the block, or moved out by the one callback that will
\* complete it, or destroyed: an operation abandoned first never completes.
OneDelivery ==
  \A o \in Ops :
    /\ done[o] <=> op[o] # "alive"
    /\ rcvr[o] => ~done[o] /\ signals[o] = 0
    /\ (signals[o] = 1) <=> (completing_thread[o] # None)
    /\ in_flight[o] = (IF callback[o] = "completing" THEN 1 ELSE 0)

\* The control block keeps timer and destructor apart: a callback runs in a frame that is
\* there, counts itself in, and delivers to the receiver once or not at all.
CallbackSound == TypeOK /\ NoDanglingCallback /\ OneDelivery

\* Nothing that has been destroyed is completed afterwards.
NeverCompletesLate ==
  [][\A o \in Ops : op[o] # "alive" => signals'[o] = signals[o]]_vars

\* A destructor returns: the callback it waits for always ends.
DestructorReturns == \A o \in Ops : op[o] = "waiting" ~> op[o] = "gone"

\* A started sleep ends, completed or abandoned, even behind another's callback.
SleepEnds == \A o \in Ops : callback[o] = "armed" ~> callback[o] = "finished"

\* No thread is stuck: every destructor returns, and every sleep ends.
SleepSettles == DestructorReturns /\ SleepEnds

=============================================================================

------------------------------- MODULE Timers -------------------------------
(***************************************************************************)
(* setTimeout, setInterval and their clear functions, as web/timers.hpp    *)
(* keeps them: one registry for the process and one asio wait per timer.   *)
(*                                                                         *)
(* An io_context hands its handlers out first in, first out.  A timer      *)
(* whose time has come is noticed inside run_one() and poll_one() only;    *)
(* cancel() withdraws a wait that has not been noticed yet (the aborted    *)
(* handler does nothing) and has no effect on a handler already queued.    *)
(***************************************************************************)
EXTENDS Naturals, Sequences

CONSTANTS Runtimes,
          Timers,   \* the ids that next_id hands out
          Owner,    \* the runtime whose script schedules the timer
          Delay,    \* its milliseconds, in ticks of the clock
          Repeats,  \* the timers of setInterval
          MaxTime,  \* bound on the clock
          None

ASSUME TimersAssumption ==
  /\ Owner \in [Timers -> Runtimes] /\ Delay \in [Timers -> Nat]
  /\ Repeats \subseteq Timers /\ MaxTime \in Nat /\ None \notin Nat

VARIABLES
  timer_map,  \* the registered ids
  armed,      \* timers with an asio wait outstanding
  created,    \* ids used
  expiry,     \* when the timer's steady_timer expires
  last,       \* history: when the timer's callback was last started
  now,
  ready       \* per runtime: the handlers queued in io_

clockVars == <<timer_map, armed, created, expiry, last, now>>
timerVars == <<clockVars, ready>>

Own(r) == {t \in Timers : Owner[t] = r}

TimersInit ==
  /\ timer_map = {} /\ armed = {} /\ created = {}
  /\ expiry = [t \in Timers |-> 0]
  /\ last = [t \in Timers |-> None]
  /\ now = 0
  /\ ready = [r \in Runtimes |-> <<>>]

\* asio::post and every completion: the handler joins the end of the queue.
Post(r, h) == ready' = [ready EXCEPT ![r] = Append(@, h)]

\* Time passes, at its own pace.
Tick ==
  /\ now < MaxTime /\ now' = now + 1
  /\ UNCHANGED <<timer_map, armed, created, expiry, last, ready>>

\* run_one() or poll_one() notices that a wait is over.
Expire(t) ==
  /\ t \in armed /\ expiry[t] <= now
  /\ armed' = armed \ {t}
  /\ Post(Owner[t], t)
  /\ UNCHANGED <<timer_map, created, expiry, last, now>>

\* schedule()
Schedule(t) ==
  /\ t \notin created
  /\ created' = created \cup {t} /\ timer_map' = timer_map \cup {t}
  /\ expiry' = [expiry EXCEPT ![t] = now + Delay[t]]
  /\ armed' = armed \cup {t}
  /\ UNCHANGED <<last, now, ready>>

\* clear(id) of a registered id; any other id has no effect.
Clear(t) ==
  /\ t \in timer_map
  /\ armed' = armed \ {t} /\ timer_map' = timer_map \ {t}
  /\ UNCHANGED <<created, expiry, last, now, ready>>

\* run_timer() of the handler at the head, up to the call of the function.  An
\* interval waits again on the same steady_timer, whose expiry is in the past.
StartRepeat(r, t) ==
  /\ t \in Own(r) \cap Repeats
  /\ armed' = armed \cup {t}
  /\ last' = [last EXCEPT ![t] = now]
  /\ ready' = [ready EXCEPT ![r] = Tail(@)]
  /\ UNCHANGED <<timer_map, created, expiry, now>>

\* Faults: the timer is treated as an interval; it stays registered.
MutantStartOnceRepeats(r, t) ==
  /\ t \in Own(r) \ Repeats
  /\ armed' = armed \cup {t}
  /\ last' = [last EXCEPT ![t] = now]
  /\ ready' = [ready EXCEPT ![r] = Tail(@)]
  /\ UNCHANGED <<timer_map, created, expiry, now>>

MutantStartOnceKeeps(r, t) ==
  /\ t \in Own(r) \ Repeats
  /\ last' = [last EXCEPT ![t] = now]
  /\ ready' = [ready EXCEPT ![r] = Tail(@)]
  /\ UNCHANGED <<timer_map, armed, created, expiry, now>>

StartOnce(r, t) ==
  /\ t \in Own(r) \ Repeats
  /\ timer_map' = timer_map \ {t}
  /\ last' = [last EXCEPT ![t] = now]
  /\ ready' = [ready EXCEPT ![r] = Tail(@)]
  /\ UNCHANGED <<armed, created, expiry, now>>

\* Fault: the map is cleared and no wait cancelled, which clear() does not imply.
MutantCancelAll ==
  /\ timer_map' = {}
  /\ UNCHANGED <<armed, created, expiry, last, now, ready>>

\* shutdown() cancels and forgets every registered timer, whoever owns it.
CancelAll ==
  /\ armed' = armed \ timer_map /\ timer_map' = {}
  /\ UNCHANGED <<created, expiry, last, now, ready>>

\* ~io_context drops the waits and handlers that are left.
DropContext(r) ==
  /\ armed' = armed \ Own(r)
  /\ ready' = [ready EXCEPT ![r] = <<>>]
  /\ UNCHANGED <<timer_map, created, expiry, last, now>>

=============================================================================

------------------------------ MODULE Oneshot ------------------------------
(***************************************************************************)
(* co::oneshot of include/dart_cpp_bridge/channel.hpp: the State that a    *)
(* Sender and a Receiver share. Both lock `mu`, and both complete the      *)
(* receiver's operation after they unlocked it, so that a section under    *)
(* the lock and a completion are separate steps. The Sender's owner calls  *)
(* from one thread; the operation is started and destroyed on the same     *)
(* thread or, when they are apart, on another one. Nothing but `mu` keeps  *)
(* it from being destroyed there while settle() is on its way to complete  *)
(* it, and `mu` is free by then: see Deliver.                              *)
(***************************************************************************)
EXTENDS Naturals

CONSTANTS Values, None

ASSUME OneshotAssumption == None \notin Values

Statuses == {"kEmpty", "kValue", "kError"}

VARIABLES
  apart,      \* the two sides run on different threads
  status, value, waiter, detached, settled,   \* State
  state,      \* Sender::state_ # nullptr
  tx,         \* "idle", "sending", "closing", "gone": where the Sender's owner is
  told,       \* what send() returned for each value: "unsent", "true", "false"
  op,         \* "receiver", "connected", "waiting", "starting", "done", "destroyed"
  taken,      \* locals of start(), once it found the state settled
  result,     \* what the operation completed with
  decided     \* what was written into the state, for the refinement

shared == <<status, value, waiter, detached, settled>>
sender == <<state, tx, told>>
recv   == <<op, taken, result>>
vars   == <<apart, shared, sender, recv, decided>>

Payload(s, v) == [status |-> s, value |-> v]

\* close() writes kValue with no value in it.
Payloads == {Payload("kValue", v) : v \in Values \cup {None}} \cup {Payload("kError", None)}

Nothing   == Payload("nothing", None)
Open      == Payload("open", None)
Abandoned == Payload("abandoned", None)

Init ==
  /\ apart \in BOOLEAN
  /\ status = "kEmpty" /\ value = None /\ waiter = FALSE /\ detached = FALSE /\ settled = FALSE
  /\ state = TRUE /\ tx = "idle" /\ told = [v \in Values |-> "unsent"]
  /\ op = "receiver" /\ taken = Nothing /\ result = Nothing /\ decided = Open

-----------------------------------------------------------------------------
(* The Sender.                                                             *)

\* Fault: a waiter that gave up is written to all the same.
MutantRefused == ~state \/ status # "kEmpty"

Refused == ~state \/ status # "kEmpty" \/ detached

\* settle() under `mu`: the payload, then `settled`; the waiter is taken out. It is called
\* back after the unlock, and only then does the Sender let go of the state.
Settle(s, v, next) ==
  /\ status' = s /\ value' = v /\ settled' = TRUE /\ waiter' = FALSE
  /\ decided' = Payload(s, v)
  /\ IF waiter THEN tx' = (IF next = "gone" THEN "closing" ELSE "sending") /\ state' = TRUE
               ELSE tx' = next /\ state' = FALSE
  /\ UNCHANGED detached

\* send(T), send(optional<T>&): a refused value stays with the caller.
Send(v) ==
  /\ tx = "idle" /\ told[v] = "unsent"
  /\ IF Refused
     THEN told' = [told EXCEPT ![v] = "false"] /\ UNCHANGED <<shared, state, tx, decided>>
     ELSE told' = [told EXCEPT ![v] = "true"] /\ Settle("kValue", v, "idle")
  /\ UNCHANGED <<apart, recv>>

SendError ==
  /\ tx = "idle" /\ ~Refused
  /\ Settle("kError", None, "idle") /\ UNCHANGED <<apart, told, recv>>

Close ==
  /\ tx = "idle" /\ ~Refused
  /\ Settle("kValue", None, "idle") /\ UNCHANGED <<apart, told, recv>>

\* Fault: the destructor does not close.
MutantDropSender ==
  /\ tx = "idle" /\ tx' = "gone" /\ state' = FALSE
  /\ UNCHANGED <<apart, shared, told, recv, decided>>

\* ~Sender(), and operator= for the state it replaces.
DropSender ==
  /\ tx = "idle"
  /\ IF Refused THEN tx' = "gone" /\ state' = FALSE /\ UNCHANGED <<shared, decided>>
                ELSE Settle("kValue", None, "gone")
  /\ UNCHANGED <<apart, told, recv>>

\* settle() after the unlock: deliver(), then state_.reset(). An operation that was destroyed
\* on the other thread since the unlock is completed all the same, which is undefined: its
\* receiver sees the payload or does not, and the payload is gone either way.
Deliver ==
  /\ tx \in {"sending", "closing"}
  /\ tx' = (IF tx = "closing" THEN "gone" ELSE "idle") /\ state' = FALSE
  /\ op' = (IF op = "destroyed" THEN op ELSE "done") /\ value' = None
  /\ \/ result' = Payload(status, value)
     \/ op = "destroyed" /\ UNCHANGED result
  /\ UNCHANGED <<apart, status, waiter, detached, settled, told, taken, decided>>

-----------------------------------------------------------------------------
(* The Receiver.                                                           *)

\* On one thread, settle() runs to its end before anything else.
Turn == apart \/ tx \in {"idle", "gone"}

Connect ==
  /\ Turn /\ op = "receiver" /\ op' = "connected"
  /\ UNCHANGED <<apart, shared, sender, taken, result, decided>>

\* Fault: a state that has a waiter's slot free is taken for a settled one.
MutantStart ==
  /\ Turn /\ op = "connected"
  /\ op' = "starting" /\ taken' = Payload("kValue", value) /\ value' = None
  /\ UNCHANGED <<apart, status, waiter, detached, settled, sender, result, decided>>

\* start() under `mu`: a settled state is read, another one gets its waiter.
Start ==
  /\ Turn /\ op = "connected"
  /\ IF settled
     THEN op' = "starting" /\ taken' = Payload(status, value) /\ value' = None /\ UNCHANGED waiter
     ELSE op' = "waiting" /\ waiter' = TRUE /\ UNCHANGED <<taken, value>>
  /\ UNCHANGED <<apart, status, detached, settled, sender, result, decided>>

\* start() after the unlock.
Complete ==
  /\ Turn /\ op = "starting"
  /\ op' = "done" /\ result' = taken
  /\ UNCHANGED <<apart, shared, sender, taken, decided>>

\* Fault: the waiter stays in the state.
MutantDestroy ==
  /\ Turn /\ op \in {"receiver", "connected", "waiting", "done"}
  /\ op' = "destroyed"
  /\ UNCHANGED <<apart, shared, sender, taken, result, decided>>

\* ~opstate(): one that still waits takes itself out of the state and marks it. It does not
\* find itself there when settle() has taken it out, and then leaves the state alone.
Destroy ==
  /\ Turn /\ op \in {"receiver", "connected", "waiting", "done"}
  /\ op' = "destroyed"
  /\ IF op = "waiting" /\ waiter THEN waiter' = FALSE /\ detached' = TRUE
                                 ELSE UNCHANGED <<waiter, detached>>
  /\ UNCHANGED <<apart, status, value, settled, sender, taken, result, decided>>

Next == \/ \E v \in Values : Send(v)
        \/ SendError \/ Close \/ DropSender \/ Deliver
        \/ Connect \/ Start \/ Complete \/ Destroy

Spec == Init /\ [][Next]_vars

\* A started call is run to its end, and the Sender is destroyed in the end.
FairSpec == Spec /\ WF_vars(Deliver) /\ WF_vars(Complete) /\ WF_vars(DropSender)

-----------------------------------------------------------------------------
TypeOK ==
  /\ apart \in BOOLEAN /\ status \in Statuses /\ value \in Values \cup {None}
  /\ waiter \in BOOLEAN /\ detached \in BOOLEAN /\ settled \in BOOLEAN
  /\ state \in BOOLEAN /\ tx \in {"idle", "sending", "closing", "gone"}
  /\ told \in [Values -> {"unsent", "true", "false"}]
  /\ op \in {"receiver", "connected", "waiting", "starting", "done", "destroyed"}
  /\ taken \in Payloads \cup {Nothing} /\ result \in Payloads \cup {Nothing}
  /\ decided \in Payloads \cup {Open}

\* An operation that was destroyed on the other thread between settle()'s unlock and its
\* deliver(): the one case in which the pointer that settle() holds is to nothing.
DestroyedInFlight == apart /\ op = "destroyed" /\ tx \in {"sending", "closing"}

\* The pointer in the state is to an operation that waits, and so is the one in the hands of
\* settle(), unless the operation was destroyed in its flight, of which settle() is the only
\* witness: nothing completes an operation twice, before start(), or after an ~opstate()
\* that found it in the state (State::waiter, ~opstate()).
WaiterAlive ==
  /\ waiter => op = "waiting"
  /\ tx \in {"sending", "closing"} => op = "waiting" \/ DestroyedInFlight
  /\ detached => op = "destroyed" /\ result = Nothing /\ tx \in {"idle", "gone"}

\* The state the two ends share is sound, in whichever order they settle, start and die, on
\* one thread always and on two but for the operation destroyed in flight.
StateSound == TypeOK /\ WaiterAlive

\* send() tells the truth: true for one value at most, and the operation completes with no
\* other, and not for an operation that gave up; a value that was refused is never delivered
\* (Sender::settle()).
SendTellsTruth ==
  \A v \in Values :
    /\ (result = Payload("kValue", v)) => told[v] = "true"
    /\ told[v] = "true" =>
         /\ \A w \in Values \ {v} : told[w] # "true"
         /\ result \in {Nothing, Payload("kValue", v)} /\ ~detached

\* An operation that waits is completed or destroyed, whatever becomes of the Sender.
WaitEnds == op = "waiting" ~> op \in {"done", "destroyed"}

O == INSTANCE Once WITH
  Outcomes <- Payloads,
  outcome <- (IF detached THEN Abandoned ELSE decided), seen <- result

\* The channel is a single assignment, seen once.
ImplementsOnce == O!Spec

=============================================================================

---------------------------- MODULE MpscChannel ----------------------------
(***************************************************************************)
(* co::mpsc, the multi-producer single-consumer channel of                 *)
(* include/dart_cpp_bridge/channel.hpp, bounded and unbounded.             *)
(*                                                                         *)
(* Everything the code does while it holds State::mu is one step; what it  *)
(* does after the unlock (completing a partner, waiting in                 *)
(* stop_reg_.reset() for a stop callback in flight, completing itself) is  *)
(* a step of its own, so that every other thread can run in between.       *)
(* A send operation stands for the value it carries.                       *)
(***************************************************************************)
EXTENDS Naturals, Sequences, FiniteSets, SequencesExt

CONSTANTS SendOps,     \* send_opstates (bounded) or try_send calls (unbounded)
          RecvOps,     \* recv_opstates
          Polls,       \* try_recv calls
          Capacity,    \* State::capacity, or Unbounded
          Unbounded,
          None,        \* nullptr
          MaxSenders,  \* bound on live Sender handles
          Stoppable,   \* operations whose receiver has a stop token
          Destroyable  \* operations whose owner may destroy them while parked

Ops    == SendOps \cup RecvOps
Agents == Ops \cup Polls

ASSUME ChannelAssumption ==
  /\ Capacity \in Nat \cup {Unbounded} /\ Unbounded \notin Nat
  /\ SendOps \cap RecvOps = {} /\ SendOps \cap Polls = {} /\ RecvOps \cap Polls = {}
  /\ None \notin Agents
  /\ MaxSenders \in Nat \ {0}
  /\ Stoppable \subseteq IF Capacity = Unbounded THEN RecvOps ELSE Ops
  /\ Destroyable \subseteq Ops

Bounded == Capacity # Unbounded

VARIABLES
  buf,        \* bq or uq: the buffered values, oldest first
  ws,         \* ws_head .. ws_tail: the parked bounded sends, oldest first
  slot,       \* recv_slot
  closed,
  senders,    \* live Sender handles
  rx,         \* the Receiver handle is alive
  closeList,  \* completions the successful close() still owes, in order
  stage,      \* SendNode::stage and RecvNode::stage
  pc,         \* where the thread inside start(), try_send or try_recv stands
  outcome,    \* what the section under mu decided
  owes,       \* the partner whose completion that thread still owes
  held,       \* the value a receive took
  token,      \* request_stop() was called on the operation's stop source
  cb,         \* the registered stop callback
  flag,       \* stop_requested_
  signals,    \* completion signals delivered to the operation's receiver
  got         \* history: values taken out of the channel, in order

vars == <<buf, ws, slot, closed, senders, rx, closeList, stage, pc, outcome,
          owes, held, token, cb, flag, signals, got>>

Stages   == {"kInit", "kQueued", "kClaimed", "kClosed", "kStopped", "kGone"}
PCs      == {"idle", "registered", "decided", "unregistered", "parked", "done"}
Outcomes == {"none", "kStopped", "kClosed", "kDirect", "kAccepted", "kQueued",
             "kValue", "kViolation", "kEmpty"}
Callback == {"off", "armed", "running", "firing", "ran"}
Signals  == {"true", "false", "value", "nullopt", "error", "stopped"}

Init ==
  /\ buf = <<>> /\ ws = <<>> /\ slot = None /\ closed = FALSE
  /\ senders = 1 /\ rx = TRUE /\ closeList = <<>>
  /\ stage   = [o \in Ops |-> "kInit"]
  /\ pc      = [a \in Agents |-> "idle"]
  /\ outcome = [a \in Agents |-> "none"]
  /\ owes    = [a \in Agents |-> None]
  /\ held    = [a \in RecvOps \cup Polls |-> None]
  /\ token   = [o \in Ops |-> FALSE]
  /\ cb      = [o \in Ops |-> "off"]
  /\ flag    = [o \in Ops |-> FALSE]
  /\ signals = [a \in Agents |-> <<>>]
  /\ got     = <<>>

-----------------------------------------------------------------------------
(* The lock sections.                                                      *)

chanVars == <<buf, ws, slot, closed, closeList, stage, held, got>>
handles  == <<senders, rx>>
stopVars == <<token, cb, flag>>

\* start() up to its lock: register the stop callback.  A stop that was already
\* requested runs the callback inline, which only leaves stop_requested_.
\* Registering with a token that can never be stopped does nothing.
Register(o) ==
  /\ o \in Stoppable /\ pc[o] = "idle"
  /\ pc' = [pc EXCEPT ![o] = "registered"]
  /\ cb' = [cb EXCEPT ![o] = IF token[o] THEN "ran" ELSE "armed"]
  /\ flag' = [flag EXCEPT ![o] = token[o]]
  /\ UNCHANGED <<chanVars, handles, outcome, owes, token, signals>>

\* The lock section is over and did not park: record its outcome.
Decide(a, result) ==
  /\ outcome' = [outcome EXCEPT ![a] = result]
  /\ pc' = [pc EXCEPT ![a] = IF pc[a] = "registered" THEN "decided" ELSE "unregistered"]
  /\ UNCHANGED <<handles, stopVars, closed, closeList, signals>>

\* A send that reaches its lock: send_opstate::start, or try_send on a live handle.
AtLock(o) == pc[o] = IF o \in Stoppable THEN "registered" ELSE "idle"
AtSend(s) == AtLock(s) /\ (Bounded \/ senders > 0)
\* Fault: one value more than the channel holds.
MutantFull == Bounded /\ Len(buf) > Capacity

Full      == Bounded /\ Len(buf) >= Capacity

SendStopped(s) ==
  /\ AtSend(s) /\ flag[s]
  /\ Decide(s, "kStopped")
  /\ UNCHANGED <<buf, ws, slot, stage, held, got, owes>>

SendClosed(s) ==
  /\ AtSend(s) /\ ~flag[s] /\ closed
  /\ Decide(s, "kClosed")
  /\ UNCHANGED <<buf, ws, slot, stage, held, got, owes>>

\* Fault: the receiver is never completed.
MutantDirectSilent(s) ==
  /\ AtSend(s) /\ ~flag[s] /\ ~closed /\ slot # None
  /\ slot' = None
  /\ stage' = [stage EXCEPT ![slot] = "kClaimed"]
  /\ held' = [held EXCEPT ![slot] = s]
  /\ got' = Append(got, s)
  /\ Decide(s, "kDirect")
  /\ UNCHANGED <<buf, ws, owes>>

\* Hand the value to the parked receiver; its completion is owed.
SendDirect(s) ==
  /\ AtSend(s) /\ ~flag[s] /\ ~closed /\ slot # None
  /\ slot' = None
  /\ stage' = [stage EXCEPT ![slot] = "kClaimed"]
  /\ held' = [held EXCEPT ![slot] = s]
  /\ owes' = [owes EXCEPT ![s] = slot]
  /\ got' = Append(got, s)
  /\ Decide(s, "kDirect")
  /\ UNCHANGED <<buf, ws>>

SendBuffered(s) ==
  /\ AtSend(s) /\ ~flag[s] /\ ~closed /\ slot = None /\ ~Full
  /\ buf' = Append(buf, s)
  /\ Decide(s, "kAccepted")
  /\ UNCHANGED <<ws, slot, stage, held, got, owes>>

MutantQueueFront(s) == ws' = <<s>> \o ws

QueueSend(s) == ws' = Append(ws, s)

SendParked(s) ==
  /\ AtSend(s) /\ ~flag[s] /\ ~closed /\ slot = None /\ Full
  /\ stage' = [stage EXCEPT ![s] = "kQueued"]
  /\ QueueSend(s)
  /\ pc' = [pc EXCEPT ![s] = "parked"]
  /\ outcome' = [outcome EXCEPT ![s] = "kQueued"]
  /\ UNCHANGED <<handles, stopVars, buf, slot, closed, closeList, held, got, owes, signals>>

SendStep(s) == \/ SendStopped(s) \/ SendClosed(s) \/ SendDirect(s)
               \/ SendBuffered(s) \/ SendParked(s)

\* A receive that finds a value takes the oldest one.  The oldest parked send,
\* if any, is claimed: its value refills the slot just freed or, with nothing
\* buffered, is the one taken.
Available == buf # <<>> \/ ws # <<>>

\* Fault: the slot just freed is not given to the oldest parked send.
MutantTakeNoRefill(a) ==
  /\ Available
  /\ LET v == IF buf # <<>> THEN Head(buf) ELSE Head(ws)
     IN held' = [held EXCEPT ![a] = v] /\ got' = Append(got, v)
  /\ IF buf # <<>>
     THEN buf' = Tail(buf) /\ UNCHANGED <<ws, stage, owes>>
     ELSE /\ ws' = Tail(ws) /\ UNCHANGED buf
          /\ stage' = [stage EXCEPT ![Head(ws)] = "kClaimed"]
          /\ owes' = [owes EXCEPT ![a] = Head(ws)]
  /\ UNCHANGED slot

Take(a) ==
  LET v == IF buf # <<>> THEN Head(buf) ELSE Head(ws)
  IN /\ Available
     /\ held' = [held EXCEPT ![a] = v]
     /\ got' = Append(got, v)
     /\ IF ws = <<>>
        THEN /\ buf' = Tail(buf)
             /\ UNCHANGED <<ws, stage, owes>>
        ELSE /\ buf' = IF buf = <<>> THEN buf ELSE Append(Tail(buf), Head(ws))
             /\ ws' = Tail(ws)
             /\ stage' = [stage EXCEPT ![Head(ws)] = "kClaimed"]
             /\ owes' = [owes EXCEPT ![a] = Head(ws)]
     /\ UNCHANGED slot

RecvStopped(r) ==
  /\ AtLock(r) /\ flag[r]
  /\ Decide(r, "kStopped")
  /\ UNCHANGED <<buf, ws, slot, stage, held, got, owes>>

RecvValue(r) ==
  /\ AtLock(r) /\ ~flag[r]
  /\ Take(r)
  /\ Decide(r, "kValue")

RecvClosed(r) ==
  /\ AtLock(r) /\ ~flag[r] /\ ~Available /\ closed
  /\ Decide(r, "kClosed")
  /\ UNCHANGED <<buf, ws, slot, stage, held, got, owes>>

\* Another recv() is parked: fail the new one, leave the parked one alone.
RecvViolation(r) ==
  /\ AtLock(r) /\ ~flag[r] /\ ~Available /\ ~closed /\ slot # None
  /\ Decide(r, "kViolation")
  /\ UNCHANGED <<buf, ws, slot, stage, held, got, owes>>

RecvParked(r) ==
  /\ AtLock(r) /\ ~flag[r] /\ ~Available /\ ~closed /\ slot = None
  /\ stage' = [stage EXCEPT ![r] = "kQueued"]
  /\ slot' = r
  /\ pc' = [pc EXCEPT ![r] = "parked"]
  /\ outcome' = [outcome EXCEPT ![r] = "kQueued"]
  /\ UNCHANGED <<handles, stopVars, buf, ws, closed, closeList, held, got, owes, signals>>

RecvStep(r) == \/ RecvStopped(r) \/ RecvValue(r) \/ RecvClosed(r)
               \/ RecvViolation(r) \/ RecvParked(r)

\* try_recv() on a live Receiver.
PollValue(p) ==
  /\ pc[p] = "idle" /\ rx
  /\ Take(p)
  /\ Decide(p, "kValue")

PollEmpty(p) ==
  /\ pc[p] = "idle" /\ rx /\ ~Available
  /\ Decide(p, "kEmpty")
  /\ UNCHANGED <<buf, ws, slot, stage, held, got, owes>>

-----------------------------------------------------------------------------
(* After the lock: completions.                                            *)

\* stop_reg_.reset() returns only when no stop callback is in flight.
CallbackIdle(o) == cb[o] \notin {"running", "firing"}

\* What SendNode::complete, complete_value and complete_closed deliver.
PartnerSignal(o) ==
  CASE o \in SendOps /\ stage[o] = "kClaimed" -> "true"
    [] o \in SendOps /\ stage[o] # "kClaimed" -> "false"
    [] o \in RecvOps /\ stage[o] = "kClaimed" -> "value"
    [] OTHER                                  -> "nullopt"

Complete(o) ==
  /\ CallbackIdle(o)
  /\ cb' = [cb EXCEPT ![o] = "off"]
  /\ signals' = [signals EXCEPT ![o] = Append(@, PartnerSignal(o))]

\* A receive completes the send it claimed before it unregisters its own stop
\* callback; a send completes the receiver it served after that.
CompletePartner(a) ==
  /\ owes[a] # None
  /\ pc[a] = "unregistered" \/ (a \in RecvOps /\ pc[a] = "decided")
  /\ Complete(owes[a])
  /\ owes' = [owes EXCEPT ![a] = None]
  /\ UNCHANGED <<chanVars, handles, pc, outcome, token, flag>>

Unregister(o) ==
  /\ pc[o] = "decided"
  /\ o \in RecvOps => owes[o] = None
  /\ CallbackIdle(o)
  /\ cb' = [cb EXCEPT ![o] = "off"]
  /\ pc' = [pc EXCEPT ![o] = "unregistered"]
  /\ UNCHANGED <<chanVars, handles, outcome, owes, token, flag, signals>>

\* Fault: a send on a closed channel reports that it was accepted.
MutantOwnSignal(a) ==
  CASE outcome[a] = "kStopped"                             -> "stopped"
    [] outcome[a] \in {"kDirect", "kAccepted"}             -> "true"
    [] outcome[a] = "kValue"                               -> "value"
    [] outcome[a] = "kViolation"                           -> "error"
    [] outcome[a] = "kClosed" /\ a \in SendOps             -> "true"
    [] OTHER                                               -> "nullopt"

OwnSignal(a) ==
  CASE outcome[a] = "kStopped"                    -> "stopped"
    [] outcome[a] \in {"kDirect", "kAccepted"}    -> "true"
    [] outcome[a] = "kValue"                      -> "value"
    [] outcome[a] = "kViolation"                  -> "error"
    [] outcome[a] = "kClosed" /\ a \in SendOps    -> "false"
    [] OTHER                                      -> "nullopt"

Finish(a) ==
  /\ pc[a] = "unregistered" /\ owes[a] = None
  /\ pc' = [pc EXCEPT ![a] = "done"]
  /\ signals' = [signals EXCEPT ![a] = Append(@, OwnSignal(a))]
  /\ UNCHANGED <<chanVars, handles, stopVars, outcome, owes>>

-----------------------------------------------------------------------------
(* Stop requests and destruction of parked operations.                     *)

\* request_stop(): an armed callback starts to run on the requesting thread.
RequestStop(o) ==
  /\ o \in Stoppable /\ ~token[o]
  /\ token' = [token EXCEPT ![o] = TRUE]
  /\ cb' = [cb EXCEPT ![o] = IF @ = "armed" THEN "running" ELSE @]
  /\ UNCHANGED <<chanVars, handles, pc, outcome, owes, flag, signals>>

\* Fault: an operation that ends is left where it was parked.
MutantUnlink(o) == UNCHANGED <<ws, slot>>

\* unlink_send, or clearing recv_slot.
Unlink(o) ==
  IF o \in SendOps
  THEN \E i \in 1..Len(ws) : ws[i] = o /\ ws' = RemoveAt(ws, i) /\ UNCHANGED slot
  ELSE slot' = None /\ UNCHANGED ws

\* Fault: an operation on its way to the lock is not warned.
MutantOnStopSilent(o) ==
  /\ cb[o] = "running"
  /\ IF stage[o] = "kQueued"
     THEN /\ Unlink(o)
          /\ stage' = [stage EXCEPT ![o] = "kStopped"]
          /\ cb' = [cb EXCEPT ![o] = "firing"]
     ELSE /\ cb' = [cb EXCEPT ![o] = "ran"]
          /\ UNCHANGED <<ws, slot, stage>>
  /\ UNCHANGED <<buf, closed, closeList, held, got, handles, pc, outcome, owes,
                 token, flag, signals>>

\* on_stop() under mu: withdraw a parked operation, warn one that has not
\* arbitrated yet, and leave every other completion to whoever owes it.
OnStop(o) ==
  /\ cb[o] = "running"
  /\ IF stage[o] = "kQueued"
     THEN /\ Unlink(o)
          /\ stage' = [stage EXCEPT ![o] = "kStopped"]
          /\ cb' = [cb EXCEPT ![o] = "firing"]
          /\ UNCHANGED flag
     ELSE /\ flag' = [flag EXCEPT ![o] = IF stage[o] = "kInit" THEN TRUE ELSE @]
          /\ cb' = [cb EXCEPT ![o] = "ran"]
          /\ UNCHANGED <<ws, slot, stage>>
  /\ UNCHANGED <<buf, closed, closeList, held, got, handles, pc, outcome, owes,
                 token, signals>>

FireStopped(o) ==
  /\ cb[o] = "firing"
  /\ cb' = [cb EXCEPT ![o] = "ran"]
  /\ signals' = [signals EXCEPT ![o] = Append(@, "stopped")]
  /\ UNCHANGED <<chanVars, handles, pc, outcome, owes, token, flag>>

\* The owner destroys an operation that is still queued (destroying one whose
\* completion is owed breaks the sender/receiver contract).  The destructor body
\* unlinks under mu; destroying stop_reg_ then waits for a callback in flight.
Destroy(o) ==
  /\ o \in Destroyable /\ stage[o] = "kQueued"
  /\ Unlink(o)
  /\ stage' = [stage EXCEPT ![o] = "kGone"]
  /\ UNCHANGED <<buf, closed, closeList, held, got, handles, pc, outcome, owes,
                 stopVars, signals>>

DestroyEnd(o) ==
  /\ stage[o] = "kGone" /\ pc[o] # "done"
  /\ CallbackIdle(o)
  /\ cb' = [cb EXCEPT ![o] = "off"]
  /\ pc' = [pc EXCEPT ![o] = "done"]
  /\ UNCHANGED <<chanVars, handles, outcome, owes, token, flag, signals>>

-----------------------------------------------------------------------------
(* Handles and close().                                                    *)

\* close() under mu; only the call that flips `closed` does anything.
CloseLocked ==
  /\ closed' = TRUE
  /\ closeList' = (IF slot = None THEN <<>> ELSE <<slot>>) \o ws
  /\ stage' = [o \in Ops |-> IF o = slot \/ o \in ToSet(ws) THEN "kClosed" ELSE stage[o]]
  /\ slot' = None /\ ws' = <<>>
  /\ UNCHANGED <<buf, held, got, pc, outcome, owes, stopVars, signals>>

CloseNext ==
  /\ closeList # <<>>
  /\ Complete(Head(closeList))
  /\ closeList' = Tail(closeList)
  /\ UNCHANGED <<buf, ws, slot, closed, stage, held, got, handles, pc, outcome,
                 owes, token, flag>>

CloneSender ==
  /\ senders \in 1..(MaxSenders - 1)
  /\ senders' = senders + 1
  /\ UNCHANGED <<chanVars, rx, pc, outcome, owes, stopVars, signals>>

\* release(): the decrement, and then close() by whoever dropped the last one.
DropSender ==
  /\ senders > 0
  /\ senders' = senders - 1
  /\ UNCHANGED <<chanVars, rx, pc, outcome, owes, stopVars, signals>>

LastSenderClose == senders = 0 /\ ~closed /\ CloseLocked /\ UNCHANGED handles

SenderClose == senders > 0 /\ ~closed /\ CloseLocked /\ UNCHANGED handles

\* close_rx()
DropReceiver ==
  /\ rx /\ rx' = FALSE
  /\ IF closed THEN UNCHANGED <<chanVars, pc, outcome, owes, stopVars, signals>>
               ELSE CloseLocked
  /\ UNCHANGED senders

-----------------------------------------------------------------------------
\* An operation is settled when it has completed or its destructor has returned.
Settled(o) == signals[o] # <<>> \/ (stage[o] = "kGone" /\ pc[o] = "done")

\* Nothing is left to do once the channel is closed and every call has returned.
Quiescent ==
  /\ closed /\ closeList = <<>>
  /\ \A a \in Agents : pc[a] \in {"idle", "done"} \/ (pc[a] = "parked" /\ Settled(a))
  /\ \A o \in Ops : CallbackIdle(o)
  /\ UNCHANGED vars

Next ==
  \/ \E o \in Ops : \/ Register(o) \/ Unregister(o) \/ RequestStop(o) \/ OnStop(o)
                    \/ FireStopped(o) \/ Destroy(o) \/ DestroyEnd(o)
  \/ \E s \in SendOps : SendStep(s)
  \/ \E r \in RecvOps : RecvStep(r)
  \/ \E p \in Polls : PollValue(p) \/ PollEmpty(p)
  \/ \E a \in Agents : CompletePartner(a) \/ Finish(a)
  \/ CloseNext \/ CloneSender \/ DropSender \/ LastSenderClose \/ SenderClose
  \/ DropReceiver
  \/ Quiescent

Spec == Init /\ [][Next]_vars

\* A thread inside the channel keeps running; nobody has to call into it.
Fairness ==
  /\ \A o \in Ops : /\ WF_vars(Unregister(o)) /\ WF_vars(OnStop(o))
                    /\ WF_vars(FireStopped(o)) /\ WF_vars(DestroyEnd(o))
  /\ \A s \in SendOps : WF_vars(s \in Stoppable /\ SendStep(s))
  /\ \A r \in RecvOps : WF_vars(r \in Stoppable /\ RecvStep(r))
  /\ \A a \in Agents : WF_vars(CompletePartner(a)) /\ WF_vars(Finish(a))
  /\ WF_vars(CloseNext) /\ WF_vars(LastSenderClose)

FairSpec == Spec /\ Fairness

-----------------------------------------------------------------------------
(* Properties.                                                             *)

\* Every variable has its type, and a bounded channel never holds more than
\* Capacity values (State, channel.hpp 375-471).
TypeOK ==
  /\ buf \in Seq(SendOps) /\ ws \in Seq(SendOps) /\ got \in Seq(SendOps)
  /\ Bounded => Len(buf) <= Capacity
  /\ slot \in RecvOps \cup {None} /\ closed \in BOOLEAN
  /\ senders \in 0..MaxSenders /\ rx \in BOOLEAN /\ closeList \in Seq(Ops)
  /\ stage \in [Ops -> Stages] /\ pc \in [Agents -> PCs]
  /\ outcome \in [Agents -> Outcomes] /\ owes \in [Agents -> Ops \cup {None}]
  /\ held \in [RecvOps \cup Polls -> SendOps \cup {None}]
  /\ token \in [Ops -> BOOLEAN] /\ cb \in [Ops -> Callback]
  /\ flag \in [Ops -> BOOLEAN] /\ signals \in [Agents -> Seq(Signals)]

\* The parked receiver is recv_slot and the parked sends are the wait list: a node
\* is linked exactly while its stage is kQueued, and a closed channel has none.
\* A stale link is what a late claim would dereference (channel.hpp 453-455).
ParkedIsLinked ==
  /\ \A r \in RecvOps : stage[r] = "kQueued" <=> slot = r
  /\ \A s \in SendOps : stage[s] = "kQueued" <=> \E i \in DOMAIN ws : ws[i] = s
  /\ \A i, j \in DOMAIN ws : ws[i] = ws[j] => i = j
  /\ closed => slot = None /\ ws = <<>>

\* No lost wake-up: a receiver waits only when there is nothing to take, and a
\* send waits only when the buffer is full, whatever was cancelled in between.
NoLostWakeup ==
  /\ slot # None => buf = <<>> /\ ws = <<>>
  /\ ws # <<>> => Bounded /\ Len(buf) = Capacity

\* Whoever takes a parked operation off the channel owes its completion, nobody
\* else does, and no parked operation is left without someone who will complete it.
Owing(o, st) == stage[o] = st /\ pc[o] = "parked" /\ signals[o] = <<>>

CompletionOwed ==
  /\ \A a \in Agents : owes[a] # None =>
       /\ pc[a] \in {"decided", "unregistered"} /\ Owing(owes[a], "kClaimed")
       /\ \A b \in Agents : owes[b] = owes[a] => b = a
  /\ closeList # <<>> => closed
  /\ \A i \in DOMAIN closeList :
       /\ Owing(closeList[i], "kClosed")
       /\ \A j \in DOMAIN closeList : closeList[j] = closeList[i] => j = i
  /\ \A o \in Ops : cb[o] = "firing" => Owing(o, "kStopped")
  /\ \A o \in Ops : pc[o] = "parked" /\ signals[o] = <<>> =>
       \/ stage[o] \in {"kQueued", "kGone"}
       \/ stage[o] = "kClaimed" /\ \E a \in Agents : owes[a] = o
       \/ stage[o] = "kClosed" /\ \E i \in DOMAIN closeList : closeList[i] = o
       \/ stage[o] = "kStopped" /\ cb[o] = "firing"

\* Until its lock section parks it, an operation belongs to the thread inside its
\* start(); a stop callback is in flight only for one that has not completed, which
\* is what the resets of stop_reg_ before every completion are for.
OwnThread ==
  \A o \in Ops :
    /\ pc[o] \notin {"parked", "done"} => stage[o] = "kInit" /\ signals[o] = <<>>
    /\ stage[o] = "kQueued" => pc[o] = "parked" /\ signals[o] = <<>>
    /\ pc[o] \in {"idle", "unregistered", "done"} => cb[o] = "off"
    /\ signals[o] # <<>> => cb[o] \in {"off", "ran"}

\* Claim, close, stop and the operation's own start() compete to complete it: at
\* most one of them does, and nobody completes a destroyed one.
CompletesAtMostOnce ==
  \A o \in Ops : /\ Len(signals[o]) <= 1
                 /\ stage[o] = "kGone" => signals[o] = <<>>

\* Each operation has one completion: at any moment one party owes it, and it is sent
\* once, whoever claims, closes, stops or destroys the operation first.
CompletedOnce == CompletionOwed /\ CompletesAtMostOnce

\* A settled operation's memory may be gone: nothing in the channel, in another
\* thread or in a stop callback in flight still refers to it.
NoDanglingNode ==
  \A o \in Ops : Settled(o) =>
    /\ o # slot
    /\ \A i \in DOMAIN ws : ws[i] # o
    /\ \A i \in DOMAIN closeList : closeList[i] # o
    /\ \A a \in Agents : owes[a] # o
    /\ CallbackIdle(o)
    /\ pc[o] \in {"parked", "done"}

\* The intrusive nodes are sound: the slot and the wait list link every parked operation
\* once, and nothing links, claims or calls back one that is over (SendNode, RecvNode).
NodesSound == ParkedIsLinked /\ NoDanglingNode

\* A value is in one place only, and the sender was told the truth about it: true
\* for a value buffered or taken, false or stopped for one that never will be.
Placed == {buf[i] : i \in DOMAIN buf} \cup {got[i] : i \in DOMAIN got}

SendersToldTruth ==
  /\ \A i, j \in DOMAIN (got \o buf \o ws) :
        (got \o buf \o ws)[i] = (got \o buf \o ws)[j] => i = j
  /\ \A s \in SendOps :
        /\ signals[s] = <<"true">> => s \in Placed
        /\ (signals[s] \in {<<"false">>, <<"stopped">>} \/ stage[s] = "kGone")
              => s \notin Placed \cup {ws[i] : i \in DOMAIN ws}

\* Every receive that reports a value holds its own, and a receive that reports
\* the end, a stop or an error consumed nothing.
ReceiversHoldOwnValue ==
  \A a \in RecvOps \cup Polls :
    /\ \A b \in RecvOps \cup Polls : held[a] = held[b] /\ held[a] # None => a = b
    /\ signals[a] # <<>> => (signals[a] = <<"value">> <=> held[a] # None)

\* Both ends are told what happened to the value: the sender of each, and the one receive
\* that holds it; an operation is told nothing before its own thread or its partner
\* settles it.
TellsTruth == SendersToldTruth /\ ReceiversHoldOwnValue /\ OwnThread

\* A stop request on a started operation ends it: it completes one way or another
\* (send_opstate::on_stop, recv_opstate::on_stop).
StopSettles == \A o \in Ops : (token[o] /\ pc[o] # "idle") ~> Settled(o)

\* Closing the channel settles every operation that had started.
CloseSettles == \A o \in Ops : (closed /\ pc[o] # "idle") ~> Settled(o)

\* Nothing waits for ever: an operation that has started is settled by a stop request as
\* by close(), also when either comes between its registration and its lock section.
StartedSettles == StopSettles /\ CloseSettles

\* The channel implements the atomic FIFO channel.
FateOf(s) ==
  CASE s \in Placed                                            -> "accepted"
    [] s \in {ws[i] : i \in DOMAIN ws}                         -> "waiting"
    [] outcome[s] = "kClosed" \/ stage[s] = "kClosed"           -> "refused"
    [] outcome[s] = "kStopped" \/ stage[s] \in {"kStopped", "kGone"} -> "withdrawn"
    [] OTHER                                                    -> "new"

Fifo == INSTANCE FifoChannel WITH
          Sends <- SendOps, line <- buf \o ws, open <- ~closed, waiting <- slot # None,
          fate <- [s \in SendOps |-> FateOf(s)]

\* Every step of the channel is a step of the atomic channel or none of its.
ImplementsFifo == Fifo!AbsSpec

=============================================================================

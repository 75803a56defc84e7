---------------------------- MODULE SleepProofs ----------------------------
(***************************************************************************)
(* The safety of the sleep control block for any number of operations and  *)
(* threads, whichever thread runs a callback and whoever destroys whom.    *)
(***************************************************************************)
EXTENDS Sleep, TLAPS

\* The inductive invariant: a callback is in flight exactly when in_flight says so,
\* which is what the wait in abandon() relies on.
SleepInv == TypeOK /\ OneDelivery /\ NoDanglingCallback

\* A new control block satisfies the invariant.
LEMMA SleepInit == Init => SleepInv
BY SleepAssumption DEF Init, SleepInv, TypeOK, OneDelivery, NoDanglingCallback, Callbacks, Lives

\* Every step keeps it.
LEMMA SleepStep == SleepInv /\ [Next]_vars => SleepInv'
<1> SUFFICES ASSUME SleepInv, [Next]_vars PROVE SleepInv'
  OBVIOUS
<1> USE SleepAssumption DEF SleepInv, TypeOK, OneDelivery, NoDanglingCallback, Callbacks, Lives
<1>1. ASSUME NEW o \in Ops, Start(o) PROVE SleepInv'
  BY <1>1 DEF Start
<1>2. ASSUME NEW o \in Ops, BeginRefused(o) PROVE SleepInv'
  BY <1>2 DEF BeginRefused
<1>3. ASSUME NEW o \in Ops, NEW t \in Threads, Begin(o, t) PROVE SleepInv'
  BY <1>3 DEF Begin
<1>4. ASSUME NEW o \in Ops, End(o) PROVE SleepInv'
  BY <1>4 DEF End
<1>5. ASSUME NEW o \in Ops, NEW t \in Threads, Abandon(o, t) PROVE SleepInv'
  BY <1>5 DEF Abandon
<1>6. ASSUME NEW o \in Ops, AbandonEnd(o) PROVE SleepInv'
  BY <1>6 DEF AbandonEnd
<1>7. CASE UNCHANGED vars
  BY <1>7 DEF vars
<1>8. QED
  BY <1>1, <1>2, <1>3, <1>4, <1>5, <1>6, <1>7 DEF Next, Quiescent

\* The invariant holds in every reachable state.
THEOREM SleepInvariant == Spec => []SleepInv
BY SleepInit, SleepStep, PTL DEF Spec

\* No continuation runs in a frame that another thread has destroyed.
THEOREM CallbackNeverDangles == Spec => []NoDanglingCallback
<1>1. SleepInv => NoDanglingCallback
  BY DEF SleepInv
<1>2. QED BY <1>1, SleepInvariant, PTL

\* The receiver is delivered to once or destroyed, never both.
THEOREM DeliveredOnce == Spec => []OneDelivery
<1>1. SleepInv => OneDelivery
  BY DEF SleepInv
<1>2. QED BY <1>1, SleepInvariant, PTL

\* The control block keeps the callback and the destructor apart.
THEOREM CallbackIsSound == Spec => []CallbackSound
<1>1. SleepInv => CallbackSound
  BY DEF SleepInv, CallbackSound
<1>2. QED BY <1>1, SleepInvariant, PTL

\* An operation that was abandoned first is never completed.
THEOREM AbandonedNeverCompletes == Spec => NeverCompletesLate
<1>1. ASSUME SleepInv, [Next]_vars
      PROVE  [\A o \in Ops : op[o] # "alive" => signals'[o] = signals[o]]_vars
  <2>1. ASSUME NEW o \in Ops, NEW t \in Threads, Begin(o, t)
        PROVE  \A q \in Ops : op[q] # "alive" => signals'[q] = signals[q]
    BY <1>1, <2>1 DEF Begin, SleepInv, TypeOK, OneDelivery
  <2>2. CASE signals' = signals
    BY <2>2
  <2>3. QED
    BY <1>1, <2>1, <2>2 DEF Next, Start, BeginRefused, End, Abandon, AbandonEnd, Quiescent, vars
<1>2. QED BY <1>1, SleepInvariant, PTL DEF Spec, NeverCompletesLate

=============================================================================

--------------------------- MODULE OneshotProofs ---------------------------
(***************************************************************************)
(* The safety of co::oneshot for any set of values, on one thread or two,  *)
(* and that it implements Once. StateSound is not inductive: a state in    *)
(* the hands of settle() is one whose operation waits, or was destroyed    *)
(* since, because nobody else can take the waiter out of a settled state,  *)
(* and what start() reads is what was decided because a payload is written *)
(* once and read once.                                                     *)
(***************************************************************************)
EXTENDS Oneshot, TLAPS

\* The payload in the state is what was decided, until the operation takes it.
PayloadKept ==
  /\ settled <=> status # "kEmpty"
  /\ ~settled => decided = Open
  /\ settled => decided \in Payloads /\ decided.status = status
  /\ settled /\ op \in {"receiver", "connected", "waiting"} => decided = Payload(status, value)
  /\ tx \in {"sending", "closing"} => decided = Payload(status, value)
  /\ op = "starting" => settled /\ taken = decided

\* An operation that waits is in the state or in the hands of settle(), not in both.
OneWaiter ==
  /\ waiter => ~settled
  /\ op = "waiting" /\ ~waiter => tx \in {"sending", "closing"}
  /\ tx \in {"sending", "closing"} => settled
  /\ detached => op = "destroyed" /\ ~settled

\* What the operation saw was decided, and an operation that has not completed saw nothing.
SeenIsDecided ==
  /\ result # Nothing => settled /\ result = decided /\ op \in {"done", "destroyed"}
                                                    /\ tx \in {"idle", "gone"}
  /\ op = "done" => result # Nothing

\* send() returned true for the value in the state and for no other.
ToldIsDecided == \A v \in Values : told[v] = "true" <=> decided = Payload("kValue", v)

\* The inductive invariant.
OneshotInv ==
  TypeOK /\ WaiterAlive /\ PayloadKept /\ OneWaiter /\ SeenIsDecided /\ ToldIsDecided

\* Payloads differ when a part does, and none is one of the other three values.
LEMMA PayloadsDiffer ==
  /\ \A v, w \in Values \cup {None} : Payload("kValue", v) = Payload("kValue", w) => v = w
  /\ \A v \in Values \cup {None} :
       /\ Payload("kValue", v) \in Payloads /\ Payload("kValue", v).status = "kValue"
       /\ Payload("kValue", v) # Payload("kError", None)
  /\ Payload("kError", None) \in Payloads /\ Payload("kError", None).status = "kError"
  /\ {Nothing, Open, Abandoned} \cap Payloads = {}
  /\ Nothing # Open /\ Nothing # Abandoned /\ Open # Abandoned
BY DEF Payload, Payloads, Nothing, Open, Abandoned

\* A new channel satisfies the invariant.
LEMMA OneshotInit == Init => OneshotInv
BY OneshotAssumption, PayloadsDiffer
DEF Init, OneshotInv, TypeOK, WaiterAlive, PayloadKept, OneWaiter, SeenIsDecided, ToldIsDecided, Statuses,
    DestroyedInFlight

\* Every step keeps it.
LEMMA OneshotStep == OneshotInv /\ [Next]_vars => OneshotInv'
<1> SUFFICES ASSUME OneshotInv, [Next]_vars PROVE OneshotInv'
  OBVIOUS
<1> USE OneshotAssumption, PayloadsDiffer
    DEF OneshotInv, TypeOK, WaiterAlive, PayloadKept, OneWaiter, SeenIsDecided, ToldIsDecided, Statuses,
        DestroyedInFlight, shared, sender, recv
<1>1. ASSUME NEW v \in Values, Send(v) PROVE OneshotInv'
  <2>1. CASE Refused
    BY <1>1, <2>1 DEF Send
  <2>2. CASE ~Refused
    <3>1. /\ told' = [told EXCEPT ![v] = "true"] /\ decided' = Payload("kValue", v)
          /\ Settle("kValue", v, "idle") /\ UNCHANGED recv
      BY <1>1, <2>2 DEF Send, Settle
    <3>2. decided = Open /\ ~settled /\ ~detached
      BY <2>2 DEF Refused
    <3>3. ToldIsDecided'
      BY <3>1, <3>2
    <3>4. TypeOK'
      BY <1>1, <3>1 DEF Send, Settle
    <3>5. (WaiterAlive /\ OneWaiter)'
      BY <1>1, <3>1, <3>2 DEF Send, Settle
    <3>6. (PayloadKept /\ SeenIsDecided)'
      BY <1>1, <3>1, <3>2 DEF Send, Settle
    <3>7. QED BY <3>3, <3>4, <3>5, <3>6
  <2>3. QED BY <2>1, <2>2
<1>2. CASE SendError
  BY <1>2 DEF SendError, Settle, Refused
<1>3. CASE Close
  BY <1>3 DEF Close, Settle, Refused
<1>4. CASE DropSender
  BY <1>4 DEF DropSender, Settle, Refused
<1>5. CASE Deliver
  BY <1>5 DEF Deliver
<1>6. CASE Connect
  BY <1>6 DEF Connect
<1>7. CASE Start
  BY <1>7 DEF Start, Turn
<1>8. CASE Complete
  BY <1>8 DEF Complete
<1>9. CASE Destroy
  BY <1>9 DEF Destroy, Turn
<1>10. CASE UNCHANGED vars
  BY <1>10 DEF vars
<1>11. QED
  BY <1>1, <1>2, <1>3, <1>4, <1>5, <1>6, <1>7, <1>8, <1>9, <1>10 DEF Next

\* The invariant holds in every reachable state.
THEOREM OneshotInvariant == Spec => []OneshotInv
BY OneshotInit, OneshotStep, PTL DEF Spec

\* Nothing completes an operation before its start() or twice, and none after its destruction
\* but the settle() that already held it when the other thread destroyed it.
THEOREM StateIsSound == Spec => []StateSound
<1>1. OneshotInv => StateSound
  BY DEF OneshotInv, StateSound
<1>2. QED BY <1>1, OneshotInvariant, PTL

\* A value that send() took is the one the operation completes with, and no other.
THEOREM SendIsTruthful == Spec => []SendTellsTruth
<1>1. ASSUME OneshotInv, NEW v \in Values PROVE
        /\ result = Payload("kValue", v) => told[v] = "true"
        /\ told[v] = "true" => /\ \A w \in Values \ {v} : told[w] # "true"
                              /\ result \in {Nothing, Payload("kValue", v)} /\ ~detached
  <2>1. told[v] = "true" <=> decided = Payload("kValue", v)
    BY <1>1 DEF OneshotInv, ToldIsDecided
  <2>2. result = Nothing \/ result = decided
    BY <1>1 DEF OneshotInv, SeenIsDecided
  <2>3. Payload("kValue", v) # Nothing /\ Payload("kValue", v) # Open
    BY PayloadsDiffer
  <2>4. detached => decided = Open
    BY <1>1 DEF OneshotInv, OneWaiter, PayloadKept
  <2>5. ASSUME NEW w \in Values \ {v}, told[v] = "true" PROVE told[w] # "true"
    BY <1>1, <2>1, <2>5, PayloadsDiffer DEF OneshotInv, ToldIsDecided
  <2>6. QED BY <2>1, <2>2, <2>3, <2>4, <2>5
<1>2. OneshotInv => SendTellsTruth
  BY <1>1 DEF SendTellsTruth
<1>3. QED BY <1>2, OneshotInvariant, PTL

\* A new channel is a new single assignment.
LEMMA InitImplements == Init => O!Init
BY DEF Init, O!Init

\* Every step decides, abandons, sees, or changes nothing that Once knows of.
LEMMA StepImplements ==
  OneshotInv /\ [Next]_vars => [O!Next]_<<IF detached THEN Abandoned ELSE decided, result>>
<1> SUFFICES ASSUME OneshotInv, [Next]_vars
             PROVE  O!Next \/ UNCHANGED <<IF detached THEN Abandoned ELSE decided, result>>
  OBVIOUS
<1> USE OneshotAssumption, PayloadsDiffer DEF OneshotInv, shared, sender, recv
<1>1. ASSUME NEW p \in Payloads, ~Refused, decided' = p, UNCHANGED <<detached, result>>
      PROVE  O!Next
  <2>1. O!Decide(p)
    BY <1>1 DEF O!Decide, Refused, PayloadKept
  <2>2. QED BY <2>1 DEF O!Next
<1>2. ASSUME UNCHANGED <<decided, detached>>, ~detached, settled, result = Nothing, result' = decided
      PROVE  O!Next
  <2>1. O!See
    BY <1>2 DEF O!See, PayloadKept
  <2>2. QED BY <2>1 DEF O!Next
<1>3. ASSUME NEW v \in Values, Send(v)
      PROVE  O!Next \/ UNCHANGED <<decided, detached, result>>
  BY <1>1, <1>3 DEF Send, Settle
<1>4. ASSUME SendError \/ Close \/ DropSender
      PROVE  O!Next \/ UNCHANGED <<decided, detached, result>>
  BY <1>1, <1>4 DEF SendError, Close, DropSender, Settle
<1>5. CASE Deliver
  <2>1. settled /\ ~detached /\ result = Nothing /\ decided = Payload(status, value)
    BY <1>5 DEF Deliver, PayloadKept, OneWaiter, SeenIsDecided
  <2>2. UNCHANGED <<decided, detached>> /\ result' \in {decided, result}
    BY <1>5, <2>1 DEF Deliver
  <2>3. QED BY <1>2, <2>1, <2>2
<1>6. CASE Complete
  <2>1. settled /\ taken = decided /\ ~detached /\ result = Nothing
    BY <1>6 DEF Complete, PayloadKept, OneWaiter, SeenIsDecided
  <2>2. QED BY <1>2, <1>6, <2>1 DEF Complete
<1>7. CASE Destroy
  <2>1. CASE op = "waiting" /\ waiter
    <3>1. decided = Open /\ ~detached
      BY <2>1 DEF PayloadKept, OneWaiter
    <3>2. detached' /\ UNCHANGED result
      BY <1>7, <2>1 DEF Destroy
    <3>3. O!Abandon
      BY <3>1, <3>2 DEF O!Abandon
    <3>4. QED BY <3>3 DEF O!Next
  <2>2. CASE ~(op = "waiting" /\ waiter)
    BY <1>7, <2>2 DEF Destroy
  <2>3. QED BY <2>1, <2>2
<1>8. ASSUME Connect \/ Start \/ UNCHANGED vars
      PROVE  UNCHANGED <<decided, detached, result>>
  BY <1>8 DEF Connect, Start, vars
<1>9. QED
  BY <1>3, <1>4, <1>5, <1>6, <1>7, <1>8 DEF Next

\* The channel implements the single assignment.
THEOREM ChannelIsOnce == Spec => ImplementsOnce
BY InitImplements, StepImplements, OneshotInvariant, PTL DEF Spec, ImplementsOnce, O!Spec

=============================================================================

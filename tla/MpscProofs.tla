----------------------------- MODULE MpscProofs -----------------------------
(***************************************************************************)
(* The safety of co::mpsc (channel.hpp 375-1371), for every set of         *)
(* operations, every capacity and every choice of stoppable or destroyable *)
(* operations.  None of the invariants is inductive alone: a claim is owed *)
(* once because claimed nodes were linked, they are linked because their   *)
(* own thread had parked them, and nobody signals twice because the party  *)
(* that unlinked a node is the only one that owes it.  IInv is their       *)
(* conjunction; there is one lemma per conjunct, with one step per action. *)
(* On top of it Ledger accounts for the values: where each one is follows  *)
(* from what its send was told, and back.  From both the channel is shown  *)
(* to implement the atomic FIFO channel, step by step.                     *)
(***************************************************************************)
EXTENDS MpscChannel, SequenceTheorems, TLAPS

\* Removing one element keeps the others in order (what unlink_send does to the list).
LEMMA RemoveAtProperties ==
  ASSUME NEW S, NEW s \in Seq(S), NEW i \in 1..Len(s)
  PROVE  /\ RemoveAt(s, i) \in Seq(S)
         /\ Len(RemoveAt(s, i)) = Len(s) - 1
         /\ \A j \in 1..(Len(s) - 1) :
              RemoveAt(s, i)[j] = IF j < i THEN s[j] ELSE s[j + 1]
<1>1. /\ SubSeq(s, 1, i - 1) \in Seq(S) /\ Len(SubSeq(s, 1, i - 1)) = i - 1
      /\ \A j \in 1..(i - 1) : SubSeq(s, 1, i - 1)[j] = s[j]
  BY SubSeqProperties
<1>2. /\ SubSeq(s, i + 1, Len(s)) \in Seq(S) /\ Len(SubSeq(s, i + 1, Len(s))) = Len(s) - i
      /\ \A j \in 1..(Len(s) - i) : SubSeq(s, i + 1, Len(s))[j] = s[i + j]
  BY SubSeqProperties
<1> DEFINE p == SubSeq(s, 1, i - 1)
           q == SubSeq(s, i + 1, Len(s))
<1>3. /\ p \o q \in Seq(S)
      /\ Len(p \o q) = Len(p) + Len(q)
      /\ \A j \in 1..(Len(p) + Len(q)) :
           (p \o q)[j] = IF j <= Len(p) THEN p[j] ELSE q[j - Len(p)]
  BY <1>1, <1>2, ConcatProperties
<1>4. RemoveAt(s, i) = p \o q
  BY DEF RemoveAt
<1> HIDE DEF p, q
<1>5. /\ Len(s) \in Nat /\ i \in 1..Len(s)
  OBVIOUS
<1>6. /\ Len(p) = i - 1 /\ Len(q) = Len(s) - i
      /\ \A j \in 1..(i - 1) : p[j] = s[j]
      /\ \A j \in 1..(Len(s) - i) : q[j] = s[i + j]
  BY <1>1, <1>2 DEF p, q
<1>7. ASSUME NEW j \in 1..(Len(s) - 1)
      PROVE  RemoveAt(s, i)[j] = IF j < i THEN s[j] ELSE s[j + 1]
  <2>1. (p \o q)[j] = IF j <= i - 1 THEN p[j] ELSE q[j - (i - 1)]
    BY <1>3, <1>5, <1>6, <1>7
  <2>2. CASE j < i
    BY <2>1, <2>2, <1>4, <1>5, <1>6, <1>7
  <2>3. CASE ~(j < i)
    <3>1. j - (i - 1) \in 1..(Len(s) - i)
      BY <2>3, <1>5, <1>7
    <3>2. q[j - (i - 1)] = s[i + (j - (i - 1))]
      BY <3>1, <1>6
    <3>3. i + (j - (i - 1)) = j + 1
      BY <1>5, <1>7
    <3>4. ~(j <= i - 1)
      BY <2>3, <1>5, <1>7
    <3>5. RemoveAt(s, i)[j] = s[j + 1]
      BY <3>2, <3>3, <3>4, <2>1, <1>4
    <3>6. QED BY <3>5, <2>3
  <2>4. QED BY <2>2, <2>3
<1>8. QED BY <1>3, <1>4, <1>5, <1>6, <1>7

\* A fresh State has its types.
LEMMA InitType == Init => TypeOK
<1> SUFFICES ASSUME Init PROVE TypeOK
  OBVIOUS
<1>1. MaxSenders \in Nat /\ 1 \in 0..MaxSenders
  BY ChannelAssumption DEF ChannelAssumption
<1>2. Bounded => Capacity \in Nat
  BY ChannelAssumption DEF ChannelAssumption, Bounded
<1>3. /\ buf \in Seq(SendOps) /\ ws \in Seq(SendOps) /\ got \in Seq(SendOps)
      /\ closeList \in Seq(Ops) /\ Len(buf) = 0
  BY DEF Init
<1>4. signals \in [Agents -> Seq(Signals)]
  BY DEF Init
<1>5. /\ stage \in [Ops -> Stages] /\ pc \in [Agents -> PCs]
      /\ outcome \in [Agents -> Outcomes] /\ owes \in [Agents -> Ops \cup {None}]
      /\ held \in [RecvOps \cup Polls -> SendOps \cup {None}]
  BY DEF Init, Stages, PCs, Outcomes
<1>6. /\ token \in [Ops -> BOOLEAN] /\ cb \in [Ops -> Callback]
      /\ flag \in [Ops -> BOOLEAN]
  BY DEF Init, Callback
<1>7. /\ slot \in RecvOps \cup {None} /\ closed \in BOOLEAN
      /\ senders \in 0..MaxSenders /\ rx \in BOOLEAN
  BY <1>1 DEF Init
<1>8. QED BY <1>2, <1>3, <1>4, <1>5, <1>6, <1>7 DEF TypeOK

\* What the assumption on the constants gives the proofs.
LEMMA Constants ==
  /\ MaxSenders \in Nat \ {0}
  /\ Bounded => Capacity \in Nat
  /\ ~Bounded => Stoppable \cap SendOps = {}
  /\ SendOps \cap RecvOps = {} /\ SendOps \cap Polls = {} /\ RecvOps \cap Polls = {}
  /\ None \notin Agents
BY ChannelAssumption DEF ChannelAssumption, Bounded

\* Unlinking a queued node leaves a wait list and a slot.
LEMMA UnlinkType ==
  ASSUME TypeOK, NEW o \in Ops, Unlink(o)
  PROVE  ws' \in Seq(SendOps) /\ slot' \in RecvOps \cup {None}
<1>1. CASE o \in SendOps
  <2>1. PICK i \in 1..Len(ws) : ws' = RemoveAt(ws, i) /\ slot' = slot
    BY <1>1 DEF Unlink
  <2>2. QED BY <2>1, RemoveAtProperties DEF TypeOK
<1>2. CASE o \notin SendOps
  BY <1>2 DEF Unlink, TypeOK
<1>3. QED BY <1>1, <1>2

\* Taking a value keeps the types and never overfills a bounded buffer.
LEMMA TakeType ==
  ASSUME TypeOK, NEW a \in RecvOps \cup Polls, Take(a)
  PROVE  /\ buf' \in Seq(SendOps) /\ ws' \in Seq(SendOps) /\ got' \in Seq(SendOps)
         /\ Bounded => Len(buf') <= Capacity
         /\ slot' = slot
         /\ stage' \in [Ops -> Stages]
         /\ owes' \in [Agents -> Ops \cup {None}]
         /\ held' \in [RecvOps \cup Polls -> SendOps \cup {None}]
<1>1. ws # <<>> => Head(ws) \in SendOps /\ Tail(ws) \in Seq(SendOps)
  BY HeadTailProperties DEF TypeOK
<1>2. buf # <<>> => /\ Head(buf) \in SendOps /\ Tail(buf) \in Seq(SendOps)
                    /\ Len(Tail(buf)) = Len(buf) - 1
  BY HeadTailProperties DEF TypeOK
<1>3. buf # <<>> \/ ws # <<>>
  BY DEF Take, Available
<1>4. held' \in [RecvOps \cup Polls -> SendOps \cup {None}] /\ got' \in Seq(SendOps)
  BY <1>1, <1>2, <1>3 DEF Take, TypeOK
<1>5. CASE ws = <<>>
  <2>1. /\ buf' = Tail(buf) /\ ws' = ws /\ stage' = stage /\ owes' = owes /\ slot' = slot
    BY <1>5 DEF Take
  <2>2. Bounded => Len(buf') <= Capacity
    BY <2>1, <1>2, <1>3, <1>5, Constants DEF TypeOK
  <2>3. QED BY <2>1, <2>2, <1>2, <1>3, <1>4, <1>5 DEF TypeOK
<1>6. CASE ws # <<>>
  <2>1. /\ buf' = IF buf = <<>> THEN buf ELSE Append(Tail(buf), Head(ws))
        /\ ws' = Tail(ws) /\ slot' = slot
        /\ stage' = [stage EXCEPT ![Head(ws)] = "kClaimed"]
        /\ owes' = [owes EXCEPT ![a] = Head(ws)]
    BY <1>6 DEF Take
  <2>2. buf' \in Seq(SendOps) /\ (Bounded => Len(buf') <= Capacity)
    BY <2>1, <1>1, <1>2, <1>6, Constants, AppendProperties DEF TypeOK
  <2>3. stage' \in [Ops -> Stages] /\ owes' \in [Agents -> Ops \cup {None}]
    BY <2>1, <1>1, <1>6 DEF TypeOK, Stages, Ops
  <2>4. QED BY <2>1, <2>2, <2>3, <1>1, <1>4, <1>6
<1>7. QED BY <1>5, <1>6

\* What close() assigns has its type; it empties the wait list and the slot.
LEMMA CloseType ==
  ASSUME TypeOK, CloseLocked
  PROVE  /\ closeList' \in Seq(Ops) /\ stage' \in [Ops -> Stages]
         /\ ws' = <<>> /\ ws' \in Seq(SendOps) /\ slot' = None /\ closed' = TRUE
         /\ UNCHANGED <<buf, held, got, pc, outcome, owes, stopVars, signals>>
<1>1. ws \in Seq(Ops)
  BY SeqMonotonic DEF TypeOK, Ops
<1>2. (IF slot = None THEN <<>> ELSE <<slot>>) \in Seq(Ops)
  <2>1. CASE slot = None
    BY <2>1
  <2>2. CASE slot # None
    <3>1. slot \in Ops
      BY <2>2 DEF TypeOK, Ops
    <3>2. <<slot>> \in Seq(Ops)
      BY <3>1
    <3>3. QED BY <2>2, <3>2
  <2>3. QED BY <2>1, <2>2
<1>3. closeList' \in Seq(Ops)
  BY <1>1, <1>2, ConcatProperties DEF CloseLocked
<1>4. stage' \in [Ops -> Stages]
  BY DEF CloseLocked, TypeOK, Stages
<1>5. QED BY <1>3, <1>4 DEF CloseLocked

\* The next completion of close() is an operation.
LEMMA HeadOfCloseList ==
  ASSUME TypeOK, closeList # <<>>
  PROVE  Head(closeList) \in Ops /\ Tail(closeList) \in Seq(Ops)
BY HeadTailProperties DEF TypeOK

\* Every step keeps TypeOK.
LEMMA TypeStep ==
  ASSUME TypeOK, [Next]_vars PROVE TypeOK'
<1>1. ASSUME NEW o \in Ops, Register(o) PROVE TypeOK'
  BY <1>1 DEF Register, chanVars, handles, TypeOK, PCs, Callback, Agents, Ops
<1>2. ASSUME NEW o \in Ops, Unregister(o) PROVE TypeOK'
  BY <1>2 DEF Unregister, chanVars, handles, TypeOK, PCs, Callback, Agents, Ops
<1>3. ASSUME NEW o \in Ops, RequestStop(o) PROVE TypeOK'
  BY <1>3 DEF RequestStop, chanVars, handles, TypeOK, Callback, Agents, Ops
<1>4. ASSUME NEW o \in Ops, OnStop(o) PROVE TypeOK'
  BY <1>4, UnlinkType DEF OnStop, handles, TypeOK, Stages, Callback, Agents, Ops
<1>5. ASSUME NEW o \in Ops, FireStopped(o) PROVE TypeOK'
  BY <1>5 DEF FireStopped, chanVars, handles, TypeOK, Callback, Signals, Agents, Ops
<1>6. ASSUME NEW o \in Ops, Destroy(o) PROVE TypeOK'
  BY <1>6, UnlinkType DEF Destroy, handles, stopVars, TypeOK, Stages, Agents, Ops
<1>7. ASSUME NEW o \in Ops, DestroyEnd(o) PROVE TypeOK'
  BY <1>7 DEF DestroyEnd, chanVars, handles, TypeOK, PCs, Callback, Agents, Ops
<1>8. ASSUME NEW s \in SendOps, SendStopped(s) PROVE TypeOK'
  BY <1>8 DEF SendStopped, Decide, handles, stopVars, TypeOK, PCs, Outcomes, Agents, Ops
<1>9. ASSUME NEW s \in SendOps, SendClosed(s) PROVE TypeOK'
  BY <1>9 DEF SendClosed, Decide, handles, stopVars, TypeOK, PCs, Outcomes, Agents, Ops
<1>10. ASSUME NEW s \in SendOps, SendDirect(s) PROVE TypeOK'
  BY <1>10 DEF SendDirect, Decide, handles, stopVars, TypeOK, Stages, PCs, Outcomes, Agents, Ops
<1>11. ASSUME NEW s \in SendOps, SendBuffered(s) PROVE TypeOK'
  BY <1>11, Constants, AppendProperties DEF SendBuffered, Decide, Full, TypeOK, chanVars, handles, stopVars, Stages, PCs, Outcomes, Callback, Signals, Agents, Ops
<1>12. ASSUME NEW s \in SendOps, SendParked(s) PROVE TypeOK'
  BY <1>12 DEF SendParked, QueueSend, handles, stopVars, TypeOK, Stages, PCs, Outcomes, Agents, Ops
<1>13. ASSUME NEW r \in RecvOps, RecvStopped(r) PROVE TypeOK'
  BY <1>13 DEF RecvStopped, Decide, handles, stopVars, TypeOK, PCs, Outcomes, Agents, Ops
<1>14. ASSUME NEW r \in RecvOps, RecvValue(r) PROVE TypeOK'
  <2>1. Take(r)
    BY <1>14 DEF RecvValue
  <2>2. QED BY <2>1, <1>14, TakeType DEF RecvValue, Decide, handles, stopVars, TypeOK, PCs, Outcomes, Agents, Ops
<1>15. ASSUME NEW r \in RecvOps, RecvClosed(r) PROVE TypeOK'
  BY <1>15 DEF RecvClosed, Decide, handles, stopVars, TypeOK, PCs, Outcomes, Agents, Ops
<1>16. ASSUME NEW r \in RecvOps, RecvViolation(r) PROVE TypeOK'
  BY <1>16 DEF RecvViolation, Decide, handles, stopVars, TypeOK, PCs, Outcomes, Agents, Ops
<1>17. ASSUME NEW r \in RecvOps, RecvParked(r) PROVE TypeOK'
  BY <1>17 DEF RecvParked, handles, stopVars, TypeOK, Stages, PCs, Outcomes, Agents, Ops
<1>18. ASSUME NEW p \in Polls, PollValue(p) PROVE TypeOK'
  <2>1. Take(p)
    BY <1>18 DEF PollValue
  <2>2. QED BY <2>1, <1>18, TakeType DEF PollValue, Decide, handles, stopVars, TypeOK, PCs, Outcomes, Agents, Ops
<1>19. ASSUME NEW p \in Polls, PollEmpty(p) PROVE TypeOK'
  BY <1>19 DEF PollEmpty, Decide, handles, stopVars, TypeOK, PCs, Outcomes, Agents, Ops
<1>20. ASSUME NEW a \in Agents, CompletePartner(a) PROVE TypeOK'
  BY <1>20 DEF CompletePartner, Complete, chanVars, handles, PartnerSignal, TypeOK, Callback, Signals, Agents, Ops
<1>21. ASSUME NEW a \in Agents, Finish(a) PROVE TypeOK'
  BY <1>21 DEF Finish, chanVars, handles, stopVars, OwnSignal, TypeOK, PCs, Signals, Agents, Ops
<1>22. ASSUME CloseNext PROVE TypeOK'
  BY <1>22, HeadOfCloseList DEF CloseNext, Complete, handles, PartnerSignal, TypeOK, Callback, Signals, Agents, Ops
<1>23. ASSUME CloneSender PROVE TypeOK'
  BY <1>23, Constants DEF CloneSender, chanVars, stopVars, TypeOK, Agents, Ops
<1>24. ASSUME DropSender PROVE TypeOK'
  BY <1>24, Constants DEF DropSender, chanVars, stopVars, TypeOK, Agents, Ops
<1>25. ASSUME LastSenderClose PROVE TypeOK'
  BY <1>25, CloseType DEF LastSenderClose, TypeOK, handles, stopVars
<1>26. ASSUME SenderClose PROVE TypeOK'
  BY <1>26, CloseType DEF SenderClose, TypeOK, handles, stopVars
<1>27. ASSUME DropReceiver PROVE TypeOK'
  <2>1. CASE closed
    BY <2>1, <1>27 DEF DropReceiver, chanVars, stopVars, TypeOK, Agents, Ops
  <2>2. CASE ~closed
    <3>1. CloseLocked /\ rx' = FALSE /\ senders' = senders
      BY <2>2, <1>27 DEF DropReceiver
    <3>2. QED BY <3>1, CloseType DEF TypeOK, stopVars
  <2>3. QED BY <2>1, <2>2 DEF TypeOK
<1>28. CASE UNCHANGED vars
  BY <1>28 DEF vars, TypeOK
<1>29. QED
  BY <1>1, <1>2, <1>3, <1>4, <1>5, <1>6, <1>7, <1>8, <1>9, <1>10, <1>11, <1>12, <1>13, <1>14, <1>15, <1>16, <1>17, <1>18, <1>19, <1>20, <1>21, <1>22, <1>23, <1>24, <1>25, <1>26, <1>27, <1>28 DEF Next, SendStep, RecvStep, Quiescent

\* The inductive invariant.
IInv == /\ TypeOK
        /\ OwnThread
        /\ ParkedIsLinked
        /\ CompletionOwed
        /\ CompletesAtMostOnce
        /\ NoLostWakeup

\* The send s is on the wait list.
Linked(s) == \E i \in DOMAIN ws : ws[i] = s

\* Unlinking o removes o, and nothing else, from the wait list or the slot.
LEMMA UnlinkEffect ==
  ASSUME TypeOK, ParkedIsLinked, NEW o \in Ops, stage[o] = "kQueued", Unlink(o)
  PROVE  /\ \A s \in SendOps : Linked(s)' <=> Linked(s) /\ s # o
         /\ \A i, j \in DOMAIN ws' : ws'[i] = ws'[j] => i = j
         /\ slot' = IF slot = o THEN None ELSE slot
         /\ ws' # <<>> => ws # <<>>
<1>1. CASE o \in SendOps
  <2>1. PICK i \in 1..Len(ws) : ws[i] = o /\ ws' = RemoveAt(ws, i) /\ slot' = slot
    BY <1>1 DEF Unlink
  <2>2. slot # o
    BY <1>1, Constants DEF TypeOK, Agents, Ops
  <2>3. /\ ws \in Seq(SendOps) /\ ws' \in Seq(SendOps) /\ Len(ws') = Len(ws) - 1
        /\ \A j \in 1..(Len(ws) - 1) : ws'[j] = IF j < i THEN ws[j] ELSE ws[j + 1]
    BY <2>1, RemoveAtProperties DEF TypeOK
  <2>4. /\ DOMAIN ws = 1..Len(ws) /\ DOMAIN ws' = 1..(Len(ws) - 1) /\ Len(ws) \in Nat
    BY <2>3
  <2>5. \A j, k \in DOMAIN ws : ws[j] = ws[k] => j = k
    BY DEF ParkedIsLinked
  <2>6. \A j, k \in DOMAIN ws' : ws'[j] = ws'[k] => j = k
    <3> DEFINE old(j) == IF j < i THEN j ELSE j + 1
    <3>1. \A j \in DOMAIN ws' : old(j) \in DOMAIN ws /\ ws'[j] = ws[old(j)]
      BY <2>1, <2>3, <2>4
    <3>2. \A j, k \in DOMAIN ws' : old(j) = old(k) => j = k
      BY <2>1, <2>4
    <3> HIDE DEF old
    <3>3. QED BY <3>1, <3>2, <2>5
  <2>7. ASSUME NEW s \in SendOps
        PROVE  Linked(s)' <=> Linked(s) /\ s # o
    <3>1. ASSUME NEW j \in DOMAIN ws', ws'[j] = s PROVE Linked(s) /\ s # o
      BY <3>1, <2>1, <2>3, <2>4, <2>5 DEF Linked
    <3>2. ASSUME NEW j \in DOMAIN ws, ws[j] = s, s # o PROVE Linked(s)'
      <4>1. CASE j < i
        BY <4>1, <3>2, <2>1, <2>3, <2>4 DEF Linked
      <4>2. CASE j > i
        <5>1. j - 1 \in DOMAIN ws' /\ ws'[j - 1] = ws[j]
          BY <4>2, <2>1, <2>3, <2>4
        <5>2. QED BY <5>1, <3>2 DEF Linked
      <4>3. QED BY <4>1, <4>2, <3>2, <2>1, <2>4
    <3>3. QED BY <3>1, <3>2 DEF Linked
  <2>8. QED BY <2>1, <2>2, <2>3, <2>4, <2>6, <2>7
<1>2. CASE o \notin SendOps
  <2>1. slot = o /\ slot' = None /\ ws' = ws
    BY <1>2 DEF Unlink, ParkedIsLinked, Ops
  <2>2. QED BY <2>1, <1>2 DEF Linked, ParkedIsLinked
<1>3. QED BY <1>1, <1>2

\* The head of the wait list is a queued send, and the tail links all the others.
LEMMA HeadEffect ==
  ASSUME TypeOK, ParkedIsLinked, ws # <<>>
  PROVE  /\ Head(ws) \in SendOps /\ stage[Head(ws)] = "kQueued"
         /\ \A s \in SendOps : (\E i \in DOMAIN Tail(ws) : Tail(ws)[i] = s)
                                 <=> Linked(s) /\ s # Head(ws)
         /\ \A i, j \in DOMAIN Tail(ws) : Tail(ws)[i] = Tail(ws)[j] => i = j
<1>1. /\ Head(ws) \in SendOps /\ Head(ws) = ws[1] /\ Len(ws) \in Nat \ {0}
      /\ DOMAIN ws = 1..Len(ws) /\ DOMAIN Tail(ws) = 1..(Len(ws) - 1)
      /\ \A i \in 1..(Len(ws) - 1) : Tail(ws)[i] = ws[i + 1]
  BY HeadTailProperties DEF TypeOK
<1>2. \A j, k \in DOMAIN ws : ws[j] = ws[k] => j = k
  BY DEF ParkedIsLinked
<1>3. stage[Head(ws)] = "kQueued"
  BY <1>1 DEF ParkedIsLinked
<1>4. \A i, j \in DOMAIN Tail(ws) : Tail(ws)[i] = Tail(ws)[j] => i = j
  BY <1>1, <1>2
<1>5. ASSUME NEW s \in SendOps
      PROVE (\E i \in DOMAIN Tail(ws) : Tail(ws)[i] = s) <=> Linked(s) /\ s # Head(ws)
  <2>1. ASSUME NEW i \in DOMAIN Tail(ws), Tail(ws)[i] = s PROVE Linked(s) /\ s # Head(ws)
    BY <2>1, <1>1, <1>2 DEF Linked
  <2>2. ASSUME NEW j \in DOMAIN ws, ws[j] = s, s # Head(ws)
        PROVE \E i \in DOMAIN Tail(ws) : Tail(ws)[i] = s
    <3>1. j - 1 \in DOMAIN Tail(ws) /\ Tail(ws)[j - 1] = ws[j]
      BY <2>2, <1>1
    <3>2. QED BY <3>1, <2>2
  <2>3. QED BY <2>1, <2>2 DEF Linked
<1>6. QED BY <1>1, <1>3, <1>4, <1>5

\* Taking a value claims the oldest parked send, if there is one, and nothing else.
LEMMA TakeEffect ==
  ASSUME TypeOK, ParkedIsLinked, NEW a \in RecvOps \cup Polls, Take(a)
  PROVE  /\ slot' = slot
         /\ \/ /\ ws = <<>> /\ buf # <<>> /\ buf' = Tail(buf)
               /\ ws' = ws /\ stage' = stage /\ owes' = owes
            \/ /\ ws # <<>> /\ Head(ws) \in SendOps /\ stage[Head(ws)] = "kQueued"
               /\ stage' = [stage EXCEPT ![Head(ws)] = "kClaimed"]
               /\ owes' = [owes EXCEPT ![a] = Head(ws)]
               /\ buf' = IF buf = <<>> THEN buf ELSE Append(Tail(buf), Head(ws))
               /\ \A s \in SendOps : Linked(s)' <=> Linked(s) /\ s # Head(ws)
               /\ \A i, j \in DOMAIN ws' : ws'[i] = ws'[j] => i = j
<1>1. CASE ws = <<>>
  BY <1>1 DEF Take, Available
<1>2. CASE ws # <<>>
  <2>1. /\ stage' = [stage EXCEPT ![Head(ws)] = "kClaimed"]
        /\ owes' = [owes EXCEPT ![a] = Head(ws)]
        /\ buf' = IF buf = <<>> THEN buf ELSE Append(Tail(buf), Head(ws))
        /\ ws' = Tail(ws) /\ slot' = slot
    BY <1>2 DEF Take
  <2>2. QED BY <1>2, <2>1, HeadEffect DEF Linked
<1>3. QED BY <1>1, <1>2

\* close() moves exactly the queued operations to its list, each of them once.
LEMMA CloseEffect ==
  ASSUME TypeOK, ParkedIsLinked, CloseLocked
  PROVE  /\ \A o \in Ops : stage'[o] = IF stage[o] = "kQueued" THEN "kClosed" ELSE stage[o]
         /\ \A o \in Ops : (\E i \in DOMAIN closeList' : closeList'[i] = o)
                           <=> stage[o] = "kQueued"
         /\ \A i, j \in DOMAIN closeList' : closeList'[i] = closeList'[j] => i = j
<1> DEFINE front == IF slot = None THEN <<>> ELSE <<slot>>
<1>1. /\ front \in Seq(Ops) /\ Len(front) = (IF slot = None THEN 0 ELSE 1)
      /\ slot # None => front[1] = slot
  <2>1. CASE slot = None
    BY <2>1
  <2>2. CASE slot # None
    <3>1. slot \in Ops
      BY <2>2 DEF TypeOK, Ops
    <3>2. <<slot>> \in Seq(Ops) /\ Len(<<slot>>) = 1 /\ <<slot>>[1] = slot
      BY <3>1
    <3>3. QED BY <2>2, <3>2
  <2>3. QED BY <2>1, <2>2
<1>2. ws \in Seq(Ops) /\ Len(ws) \in Nat /\ DOMAIN ws = 1..Len(ws)
  BY SeqMonotonic DEF TypeOK, Ops
<1>3. /\ closeList' = front \o ws
      /\ \A o \in Ops : stage'[o] = IF o = slot \/ o \in ToSet(ws) THEN "kClosed" ELSE stage[o]
  BY DEF CloseLocked
<1> HIDE DEF front
<1>4. /\ Len(closeList') = Len(front) + Len(ws) /\ closeList' \in Seq(Ops)
      /\ \A i \in 1..(Len(front) + Len(ws)) :
           closeList'[i] = IF i <= Len(front) THEN front[i] ELSE ws[i - Len(front)]
  BY <1>1, <1>2, <1>3, ConcatProperties
<1>5. DOMAIN closeList' = 1..(Len(front) + Len(ws))
  BY <1>4, <1>1, <1>2
<1>6. \A o \in Ops : stage[o] = "kQueued" <=> (o = slot \/ \E i \in DOMAIN ws : ws[i] = o)
  BY Constants DEF ParkedIsLinked, TypeOK, Ops, Agents
<1>7. \A o \in Ops : stage'[o] = IF stage[o] = "kQueued" THEN "kClosed" ELSE stage[o]
  BY <1>3, <1>6 DEF ToSet
<1>8. ASSUME NEW o \in Ops
      PROVE (\E i \in DOMAIN closeList' : closeList'[i] = o) <=> stage[o] = "kQueued"
  <2>1. ASSUME NEW i \in DOMAIN closeList', closeList'[i] = o PROVE stage[o] = "kQueued"
    <3>1. CASE i <= Len(front)
      BY <3>1, <2>1, <1>1, <1>4, <1>5, <1>6
    <3>2. CASE i > Len(front)
      <4>1. i - Len(front) \in DOMAIN ws /\ ws[i - Len(front)] = o
        BY <3>2, <2>1, <1>1, <1>2, <1>4, <1>5
      <4>2. QED BY <4>1, <1>6
    <3>3. QED BY <3>1, <3>2, <1>1, <1>2, <1>5
  <2>2. ASSUME o = slot PROVE \E i \in DOMAIN closeList' : closeList'[i] = o
    <3>1. slot # None
      BY <2>2, Constants DEF Agents
    <3>2. 1 \in DOMAIN closeList' /\ closeList'[1] = o
      BY <3>1, <2>2, <1>1, <1>2, <1>4, <1>5
    <3>3. QED BY <3>2
  <2>3. ASSUME NEW j \in DOMAIN ws, ws[j] = o
        PROVE  \E i \in DOMAIN closeList' : closeList'[i] = o
    <3>1. Len(front) + j \in DOMAIN closeList' /\ closeList'[Len(front) + j] = o
      BY <2>3, <1>1, <1>2, <1>4, <1>5
    <3>2. QED BY <3>1
  <2>4. QED BY <2>1, <2>2, <2>3, <1>6
<1>9. ASSUME NEW i \in DOMAIN closeList', NEW j \in DOMAIN closeList',
             closeList'[i] = closeList'[j]
      PROVE  i = j
  <2>1. \A k \in DOMAIN ws : ws[k] # slot
    BY <1>2, Constants DEF TypeOK, Agents, Ops
  <2>2. \A k, l \in DOMAIN ws : ws[k] = ws[l] => k = l
    BY DEF ParkedIsLinked
  <2>3. ASSUME NEW k \in DOMAIN closeList', k > Len(front)
        PROVE  k - Len(front) \in DOMAIN ws /\ closeList'[k] = ws[k - Len(front)]
    BY <2>3, <1>1, <1>2, <1>4, <1>5
  <2>4. ASSUME NEW k \in DOMAIN closeList', k <= Len(front)
        PROVE  k = 1 /\ closeList'[k] = slot
    BY <2>4, <1>1, <1>2, <1>4, <1>5
  <2>5. Len(front) \in Nat /\ i \in Nat /\ j \in Nat
    BY <1>1, <1>2, <1>5
  <2>6. CASE i > Len(front) /\ j > Len(front)
    <3>1. i - Len(front) = j - Len(front)
      BY <2>6, <2>3, <2>2, <1>9
    <3>2. QED BY <3>1, <2>5
  <2>7. CASE i <= Len(front) /\ j <= Len(front)
    BY <2>7, <2>4
  <2>8. CASE i <= Len(front) /\ j > Len(front)
    BY <2>8, <2>3, <2>4, <2>1, <1>9
  <2>9. CASE i > Len(front) /\ j <= Len(front)
    BY <2>9, <2>3, <2>4, <2>1, <1>9
  <2>10. QED BY <2>5, <2>6, <2>7, <2>8, <2>9
<1>10. QED BY <1>7, <1>8, <1>9

\* Taking a value changes the stage of a queued operation only.
LEMMA TakeStages ==
  ASSUME IInv, NEW a \in RecvOps \cup Polls, Take(a)
  PROVE  \A o \in Ops : stage'[o] = stage[o] \/ (stage[o] = "kQueued" /\ stage'[o] = "kClaimed")
<1>1. TypeOK /\ ParkedIsLinked
  BY DEF IInv
<1>2. \/ stage' = stage
      \/ (stage[Head(ws)] = "kQueued" /\ stage' = [stage EXCEPT ![Head(ws)] = "kClaimed"])
  BY <1>1, TakeEffect
<1>3. CASE stage' = stage
  BY <1>3
<1>4. CASE stage[Head(ws)] = "kQueued" /\ stage' = [stage EXCEPT ![Head(ws)] = "kClaimed"]
  <2>1. stage \in [Ops -> Stages]
    BY <1>1 DEF TypeOK
  <2>2. QED BY <2>1, <1>4
<1>5. QED BY <1>2, <1>3, <1>4

\* close() disturbs no operation whose start() is still deciding.
LEMMA CloseKeepsOwnThread ==
  ASSUME IInv, CloseLocked PROVE OwnThread'
<1>1. \A o \in Ops : stage'[o] = IF stage[o] = "kQueued" THEN "kClosed" ELSE stage[o]
  BY CloseEffect DEF IInv
<1>2. pc' = pc /\ signals' = signals /\ cb' = cb
  BY DEF CloseLocked, stopVars
<1>3. QED BY <1>1, <1>2 DEF IInv, OwnThread

\* Every step keeps OwnThread.
LEMMA OwnThreadStep ==
  ASSUME IInv, [Next]_vars PROVE OwnThread'
<1> USE Constants DEF IInv, TypeOK, Agents, Ops
<1>1. ASSUME NEW o \in Ops, Register(o) PROVE OwnThread'
  BY <1>1 DEF Register, chanVars, OwnThread
<1>2. ASSUME NEW o \in Ops, Unregister(o) PROVE OwnThread'
  BY <1>2 DEF Unregister, chanVars, OwnThread
<1>3. ASSUME NEW o \in Ops, RequestStop(o) PROVE OwnThread'
  BY <1>3 DEF RequestStop, chanVars, OwnThread
<1>4. ASSUME NEW o \in Ops, OnStop(o) PROVE OwnThread'
  <2>1. pc' = pc /\ signals' = signals
    BY <1>4 DEF OnStop
  <2>2. CASE stage[o] = "kQueued"
    <3>1. stage' = [stage EXCEPT ![o] = "kStopped"] /\ cb' = [cb EXCEPT ![o] = "firing"]
      BY <2>2, <1>4 DEF OnStop
    <3>2. QED BY <2>1, <2>2, <3>1 DEF OwnThread
  <2>3. CASE stage[o] # "kQueued"
    <3>1. stage' = stage /\ cb' = [cb EXCEPT ![o] = "ran"] /\ cb[o] = "running"
      BY <2>3, <1>4 DEF OnStop
    <3>2. QED BY <2>1, <3>1 DEF OwnThread
  <2>4. QED BY <2>2, <2>3
<1>5. ASSUME NEW o \in Ops, FireStopped(o) PROVE OwnThread'
  BY <1>5 DEF FireStopped, chanVars, OwnThread, CompletionOwed, Owing
<1>6. ASSUME NEW o \in Ops, Destroy(o) PROVE OwnThread'
  BY <1>6, UnlinkEffect DEF Destroy, stopVars, OwnThread
<1>7. ASSUME NEW o \in Ops, DestroyEnd(o) PROVE OwnThread'
  BY <1>7 DEF DestroyEnd, chanVars, OwnThread
<1>8. ASSUME NEW s \in SendOps, SendStopped(s) PROVE OwnThread'
  BY <1>8 DEF SendStopped, Decide, stopVars, AtSend, AtLock, OwnThread
<1>9. ASSUME NEW s \in SendOps, SendClosed(s) PROVE OwnThread'
  BY <1>9 DEF SendClosed, Decide, stopVars, AtSend, AtLock, OwnThread
<1>10. ASSUME NEW s \in SendOps, SendDirect(s) PROVE OwnThread'
  BY <1>10 DEF SendDirect, AtSend, AtLock, Decide, stopVars, OwnThread, CallbackIdle, CompletionOwed, Owing, ParkedIsLinked
<1>11. ASSUME NEW s \in SendOps, SendBuffered(s) PROVE OwnThread'
  BY <1>11, AppendProperties DEF SendBuffered, Decide, stopVars, AtSend, AtLock, OwnThread
<1>12. ASSUME NEW s \in SendOps, SendParked(s) PROVE OwnThread'
  BY <1>12, AppendProperties DEF SendParked, QueueSend, stopVars, AtSend, AtLock, OwnThread
<1>13. ASSUME NEW r \in RecvOps, RecvStopped(r) PROVE OwnThread'
  BY <1>13 DEF RecvStopped, Decide, stopVars, AtLock, OwnThread
<1>14. ASSUME NEW r \in RecvOps, RecvValue(r) PROVE OwnThread'
  <2>1. Take(r)
    BY <1>14 DEF RecvValue
  <2>2. /\ stage[r] = "kInit" /\ signals[r] = <<>> /\ pc'[r] \in {"decided", "unregistered"}
        /\ pc[r] = "registered" \/ (pc[r] = "idle" /\ pc'[r] = "unregistered")
        /\ pc[r] = "registered" => pc'[r] = "decided"
        /\ \A o \in Ops : o # r => pc'[o] = pc[o]
        /\ signals' = signals /\ cb' = cb
    BY <1>14 DEF RecvValue, AtLock, Decide, stopVars, OwnThread
  <2>3. \A o \in Ops : stage'[o] = stage[o] \/ (stage[o] = "kQueued" /\ stage'[o] = "kClaimed")
    BY <2>1, TakeStages
  <2>4. QED BY <2>2, <2>3 DEF OwnThread
<1>15. ASSUME NEW r \in RecvOps, RecvClosed(r) PROVE OwnThread'
  BY <1>15 DEF RecvClosed, Decide, stopVars, AtLock, OwnThread
<1>16. ASSUME NEW r \in RecvOps, RecvViolation(r) PROVE OwnThread'
  BY <1>16 DEF RecvViolation, Decide, stopVars, AtLock, OwnThread
<1>17. ASSUME NEW r \in RecvOps, RecvParked(r) PROVE OwnThread'
  BY <1>17 DEF RecvParked, stopVars, AtLock, OwnThread
<1>18. ASSUME NEW p \in Polls, PollValue(p) PROVE OwnThread'
  <2>1. Take(p) /\ p \notin Ops
    BY <1>18 DEF PollValue
  <2>2. \A o \in Ops : pc'[o] = pc[o] /\ signals'[o] = signals[o] /\ cb'[o] = cb[o]
    BY <1>18, <2>1 DEF PollValue, Decide, stopVars
  <2>3. \A o \in Ops : stage'[o] = stage[o] \/ (stage[o] = "kQueued" /\ stage'[o] = "kClaimed")
    BY <2>1, TakeStages
  <2>4. QED BY <2>2, <2>3 DEF OwnThread
<1>19. ASSUME NEW p \in Polls, PollEmpty(p) PROVE OwnThread'
  BY <1>19 DEF PollEmpty, Decide, stopVars, OwnThread
<1>20. ASSUME NEW a \in Agents, CompletePartner(a) PROVE OwnThread'
  BY <1>20 DEF CompletePartner, Complete, chanVars, OwnThread, CompletionOwed, Owing
<1>21. ASSUME NEW a \in Agents, Finish(a) PROVE OwnThread'
  BY <1>21 DEF Finish, chanVars, stopVars, OwnThread
<1>22. ASSUME CloseNext PROVE OwnThread'
  <2> DEFINE h == Head(closeList)
  <2>1. closeList # <<>> /\ h = closeList[1] /\ 1 \in DOMAIN closeList /\ h \in Ops
    BY <1>22, HeadTailProperties DEF CloseNext
  <2>2. Owing(h, "kClosed")
    BY <2>1 DEF CompletionOwed
  <2>3. /\ pc' = pc /\ stage' = stage
        /\ cb' = [cb EXCEPT ![h] = "off"]
        /\ \A o \in Ops \ {h} : signals'[o] = signals[o]
    BY <1>22, <2>1 DEF CloseNext, Complete
  <2> HIDE DEF h
  <2>4. \A o \in Ops \ {h} : cb'[o] = cb[o]
    BY <2>3
  <2>5. pc'[h] = "parked" /\ stage'[h] = "kClosed" /\ cb'[h] = "off"
    BY <2>1, <2>2, <2>3 DEF Owing
  <2>6. QED BY <2>1, <2>3, <2>4, <2>5 DEF OwnThread
<1>23. ASSUME CloneSender PROVE OwnThread'
  BY <1>23 DEF CloneSender, chanVars, stopVars, OwnThread
<1>24. ASSUME DropSender PROVE OwnThread'
  BY <1>24 DEF DropSender, chanVars, stopVars, OwnThread
<1>25. ASSUME LastSenderClose PROVE OwnThread'
  BY <1>25, CloseKeepsOwnThread DEF LastSenderClose
<1>26. ASSUME SenderClose PROVE OwnThread'
  BY <1>26, CloseKeepsOwnThread DEF SenderClose
<1>27. ASSUME DropReceiver PROVE OwnThread'
  <2>1. CASE closed
    BY <2>1, <1>27 DEF DropReceiver, chanVars, stopVars, OwnThread
  <2>2. CASE ~closed
    BY <2>2, <1>27, CloseKeepsOwnThread DEF DropReceiver
  <2>3. QED BY <2>1, <2>2
<1>28. CASE UNCHANGED vars
  BY <1>28 DEF vars, OwnThread, CallbackIdle, CompletionOwed, Owing, ParkedIsLinked
<1>29. QED
  BY <1>1, <1>2, <1>3, <1>4, <1>5, <1>6, <1>7, <1>8, <1>9, <1>10, <1>11, <1>12, <1>13, <1>14, <1>15, <1>16, <1>17, <1>18, <1>19, <1>20, <1>21, <1>22, <1>23, <1>24, <1>25, <1>26, <1>27, <1>28 DEF Next, SendStep, RecvStep, Quiescent

\* ParkedIsLinked in terms of Linked.
LEMMA ParkedForm ==
  ParkedIsLinked <=>
    /\ \A r \in RecvOps : stage[r] = "kQueued" <=> slot = r
    /\ \A s \in SendOps : stage[s] = "kQueued" <=> Linked(s)
    /\ \A i, j \in DOMAIN ws : ws[i] = ws[j] => i = j
    /\ closed => slot = None /\ ws = <<>>
BY DEF ParkedIsLinked, Linked

\* Withdrawing or destroying a queued operation keeps ParkedIsLinked.
LEMMA UnlinkKeepsLinked ==
  ASSUME IInv, NEW o \in Ops, stage[o] = "kQueued", Unlink(o), closed' = closed,
         NEW st \in {"kStopped", "kGone"}, stage' = [stage EXCEPT ![o] = st]
  PROVE  ParkedIsLinked'
<1>1. TypeOK /\ ParkedIsLinked /\ stage \in [Ops -> Stages]
  BY DEF IInv, TypeOK
<1>2. /\ \A s \in SendOps : Linked(s)' <=> Linked(s) /\ s # o
      /\ \A i, j \in DOMAIN ws' : ws'[i] = ws'[j] => i = j
      /\ slot' = IF slot = o THEN None ELSE slot
      /\ ws' # <<>> => ws # <<>>
  BY <1>1, UnlinkEffect
<1>3. \A q \in Ops : stage'[q] = "kQueued" <=> stage[q] = "kQueued" /\ q # o
  BY <1>1
<1>4. \A r \in RecvOps : stage'[r] = "kQueued" <=> slot' = r
  BY <1>1, <1>2, <1>3, ParkedForm, Constants DEF Ops, Agents
<1>5. \A s \in SendOps : stage'[s] = "kQueued" <=> Linked(s)'
  BY <1>1, <1>2, <1>3, ParkedForm DEF Ops
<1>6. closed' => slot' = None /\ ws' = <<>>
  BY <1>1, <1>2 DEF ParkedIsLinked
<1>7. QED BY <1>2, <1>4, <1>5, <1>6 DEF ParkedIsLinked, Linked

\* Taking a value keeps ParkedIsLinked.
LEMMA TakeKeepsLinked ==
  ASSUME IInv, NEW a \in RecvOps \cup Polls, Take(a), closed' = closed
  PROVE  ParkedIsLinked'
<1>1. TypeOK /\ ParkedIsLinked /\ stage \in [Ops -> Stages]
  BY DEF IInv, TypeOK
<1>2. slot' = slot
  BY <1>1, TakeEffect
<1>3. CASE ws = <<>>
  <2>1. ws' = ws /\ stage' = stage
    BY <1>3 DEF Take
  <2>2. QED BY <2>1, <1>1, <1>2 DEF ParkedIsLinked
<1>4. CASE ws # <<>>
  <2>1. /\ Head(ws) \in SendOps /\ stage[Head(ws)] = "kQueued"
        /\ stage' = [stage EXCEPT ![Head(ws)] = "kClaimed"]
        /\ \A s \in SendOps : Linked(s)' <=> Linked(s) /\ s # Head(ws)
        /\ \A i, j \in DOMAIN ws' : ws'[i] = ws'[j] => i = j
    BY <1>1, <1>4, TakeEffect
  <2>2. \A q \in Ops : stage'[q] = "kQueued" <=> stage[q] = "kQueued" /\ q # Head(ws)
    BY <1>1, <2>1
  <2>3. \A r \in RecvOps : stage'[r] = "kQueued" <=> slot' = r
    BY <1>1, <1>2, <2>1, <2>2, ParkedForm, Constants DEF Ops
  <2>4. \A s \in SendOps : stage'[s] = "kQueued" <=> Linked(s)'
    BY <1>1, <2>1, <2>2, ParkedForm DEF Ops
  <2>5. ~closed
    BY <1>1, <1>4 DEF ParkedIsLinked
  <2>6. QED BY <2>1, <2>3, <2>4, <2>5 DEF ParkedIsLinked, Linked
<1>5. QED BY <1>3, <1>4

\* close() keeps ParkedIsLinked.
LEMMA CloseKeepsLinked ==
  ASSUME IInv, CloseLocked
  PROVE  ParkedIsLinked'
<1>1. /\ \A o \in Ops : stage'[o] = IF stage[o] = "kQueued" THEN "kClosed" ELSE stage[o]
      /\ ws' = <<>> /\ slot' = None
  BY CloseEffect, CloseType DEF IInv
<1>2. \A o \in Ops : stage'[o] # "kQueued"
  BY <1>1
<1>3. DOMAIN ws' = {}
  BY <1>1
<1>4. None \notin RecvOps
  BY Constants DEF Agents, Ops
<1>5. QED BY <1>1, <1>2, <1>3, <1>4 DEF ParkedIsLinked, Ops

\* A position of Append(q, e) is one of q or the new last one.
LEMMA AppendPositions ==
  ASSUME NEW S, NEW q \in Seq(S), NEW e \in S, NEW i \in DOMAIN Append(q, e)
  PROVE  \/ i \in DOMAIN q /\ Append(q, e)[i] = q[i]
         \/ i = Len(q) + 1 /\ Append(q, e)[i] = e
<1>1. /\ Len(q) \in Nat /\ DOMAIN q = 1..Len(q) /\ DOMAIN Append(q, e) = 1..(Len(q) + 1)
      /\ \A j \in 1..Len(q) : Append(q, e)[j] = q[j]
      /\ Append(q, e)[Len(q) + 1] = e
  BY AppendProperties
<1>2. i \in 1..Len(q) \/ i = Len(q) + 1
  BY <1>1
<1>3. QED BY <1>1, <1>2

\* Every step keeps ParkedIsLinked.
LEMMA LinkedStep ==
  ASSUME IInv, [Next]_vars PROVE ParkedIsLinked'
<1> USE Constants DEF IInv, TypeOK, Agents, Ops
<1>1. ASSUME NEW o \in Ops, Register(o) PROVE ParkedIsLinked'
  BY <1>1 DEF Register, chanVars, ParkedIsLinked
<1>2. ASSUME NEW o \in Ops, Unregister(o) PROVE ParkedIsLinked'
  BY <1>2 DEF Unregister, chanVars, ParkedIsLinked
<1>3. ASSUME NEW o \in Ops, RequestStop(o) PROVE ParkedIsLinked'
  BY <1>3 DEF RequestStop, chanVars, ParkedIsLinked
<1>4. ASSUME NEW o \in Ops, OnStop(o) PROVE ParkedIsLinked'
  <2>1. CASE stage[o] = "kQueued"
    BY <1>4, <2>1, UnlinkKeepsLinked DEF OnStop
  <2>2. CASE stage[o] # "kQueued"
    BY <1>4, <2>2 DEF OnStop, ParkedIsLinked
  <2>3. QED BY <2>1, <2>2
<1>5. ASSUME NEW o \in Ops, FireStopped(o) PROVE ParkedIsLinked'
  BY <1>5 DEF FireStopped, chanVars, ParkedIsLinked
<1>6. ASSUME NEW o \in Ops, Destroy(o) PROVE ParkedIsLinked'
  BY <1>6, UnlinkKeepsLinked DEF Destroy
<1>7. ASSUME NEW o \in Ops, DestroyEnd(o) PROVE ParkedIsLinked'
  BY <1>7 DEF DestroyEnd, chanVars, ParkedIsLinked
<1>8. ASSUME NEW s \in SendOps, SendStopped(s) PROVE ParkedIsLinked'
  BY <1>8 DEF SendStopped, Decide, stopVars, ParkedIsLinked
<1>9. ASSUME NEW s \in SendOps, SendClosed(s) PROVE ParkedIsLinked'
  BY <1>9 DEF SendClosed, Decide, stopVars, ParkedIsLinked
<1>10. ASSUME NEW s \in SendOps, SendDirect(s) PROVE ParkedIsLinked'
  BY <1>10 DEF SendDirect, Decide, stopVars, ParkedIsLinked
<1>11. ASSUME NEW s \in SendOps, SendBuffered(s) PROVE ParkedIsLinked'
  BY <1>11, AppendProperties DEF SendBuffered, Decide, stopVars, ParkedIsLinked
<1>12. ASSUME NEW s \in SendOps, SendParked(s) PROVE ParkedIsLinked'
  <2>1. /\ ws' = Append(ws, s) /\ stage' = [stage EXCEPT ![s] = "kQueued"] /\ slot' = slot
        /\ ~closed /\ closed' = closed /\ stage[s] = "kInit"
    BY <1>12 DEF SendParked, QueueSend, AtSend, AtLock, OwnThread
  <2>2. /\ DOMAIN ws = 1..Len(ws) /\ DOMAIN ws' = 1..(Len(ws) + 1) /\ Len(ws) \in Nat
        /\ \A i \in 1..Len(ws) : ws'[i] = ws[i]
        /\ ws'[Len(ws) + 1] = s
    BY <2>1, AppendProperties
  <2>3. \A i \in DOMAIN ws : ws[i] # s
    BY <2>1 DEF ParkedIsLinked
  <2>4. \A i, j \in DOMAIN ws' : ws'[i] = ws'[j] => i = j
    <3>1. \A j, k \in DOMAIN ws : ws[j] = ws[k] => j = k
      BY DEF ParkedIsLinked
    <3>2. \A i \in DOMAIN ws' : (i \in DOMAIN ws /\ ws'[i] = ws[i]) \/ (i = Len(ws) + 1 /\ ws'[i] = s)
      BY <2>1, AppendPositions
    <3>3. QED BY <3>1, <3>2, <2>3
  <2>5. \A q \in SendOps : Linked(q)' <=> (Linked(q) \/ q = s)
    <3>1. \A i \in DOMAIN ws' : (i \in DOMAIN ws /\ ws'[i] = ws[i]) \/ (i = Len(ws) + 1 /\ ws'[i] = s)
      BY <2>1, AppendPositions
    <3>2. \A i \in DOMAIN ws : i \in DOMAIN ws' /\ ws'[i] = ws[i]
      BY <2>2
    <3>3. Len(ws) + 1 \in DOMAIN ws'
      BY <2>2
    <3>4. QED BY <3>1, <3>2, <3>3, <2>2 DEF Linked
  <2>6. \A q \in Ops : stage'[q] = "kQueued" <=> (stage[q] = "kQueued" \/ q = s)
    BY <2>1
  <2>7. \A r \in RecvOps : stage'[r] = "kQueued" <=> slot' = r
    BY <2>1, <2>6, ParkedForm
  <2>8. \A q \in SendOps : stage'[q] = "kQueued" <=> Linked(q)'
    BY <2>5, <2>6, ParkedForm
  <2>9. QED BY <2>1, <2>4, <2>7, <2>8 DEF ParkedIsLinked, Linked
<1>13. ASSUME NEW r \in RecvOps, RecvStopped(r) PROVE ParkedIsLinked'
  BY <1>13 DEF RecvStopped, Decide, stopVars, ParkedIsLinked
<1>14. ASSUME NEW r \in RecvOps, RecvValue(r) PROVE ParkedIsLinked'
  <2>1. Take(r)
    BY <1>14 DEF RecvValue
  <2>2. QED BY <1>14, <2>1, TakeKeepsLinked DEF RecvValue, Decide
<1>15. ASSUME NEW r \in RecvOps, RecvClosed(r) PROVE ParkedIsLinked'
  BY <1>15 DEF RecvClosed, Decide, stopVars, ParkedIsLinked
<1>16. ASSUME NEW r \in RecvOps, RecvViolation(r) PROVE ParkedIsLinked'
  BY <1>16 DEF RecvViolation, Decide, stopVars, ParkedIsLinked
<1>17. ASSUME NEW r \in RecvOps, RecvParked(r) PROVE ParkedIsLinked'
  BY <1>17 DEF RecvParked, stopVars, ParkedIsLinked
<1>18. ASSUME NEW p \in Polls, PollValue(p) PROVE ParkedIsLinked'
  <2>1. Take(p)
    BY <1>18 DEF PollValue
  <2>2. QED BY <1>18, <2>1, TakeKeepsLinked DEF PollValue, Decide
<1>19. ASSUME NEW p \in Polls, PollEmpty(p) PROVE ParkedIsLinked'
  BY <1>19 DEF PollEmpty, Decide, stopVars, ParkedIsLinked
<1>20. ASSUME NEW a \in Agents, CompletePartner(a) PROVE ParkedIsLinked'
  BY <1>20 DEF CompletePartner, Complete, chanVars, ParkedIsLinked
<1>21. ASSUME NEW a \in Agents, Finish(a) PROVE ParkedIsLinked'
  BY <1>21 DEF Finish, chanVars, stopVars, ParkedIsLinked
<1>22. ASSUME CloseNext PROVE ParkedIsLinked'
  BY <1>22, HeadTailProperties DEF CloseNext, Complete, ParkedIsLinked
<1>23. ASSUME CloneSender PROVE ParkedIsLinked'
  BY <1>23 DEF CloneSender, chanVars, stopVars, ParkedIsLinked
<1>24. ASSUME DropSender PROVE ParkedIsLinked'
  BY <1>24 DEF DropSender, chanVars, stopVars, ParkedIsLinked
<1>25. ASSUME LastSenderClose PROVE ParkedIsLinked'
  BY <1>25, CloseKeepsLinked DEF LastSenderClose
<1>26. ASSUME SenderClose PROVE ParkedIsLinked'
  BY <1>26, CloseKeepsLinked DEF SenderClose
<1>27. ASSUME DropReceiver PROVE ParkedIsLinked'
  <2>1. CASE closed
    BY <2>1, <1>27 DEF DropReceiver, chanVars, ParkedIsLinked
  <2>2. CASE ~closed
    BY <2>2, <1>27, CloseKeepsLinked DEF DropReceiver
  <2>3. QED BY <2>1, <2>2
<1>28. CASE UNCHANGED vars
  BY <1>28 DEF vars, Linked, ParkedIsLinked, OwnThread
<1>29. QED
  BY <1>1, <1>2, <1>3, <1>4, <1>5, <1>6, <1>7, <1>8, <1>9, <1>10, <1>11, <1>12, <1>13, <1>14, <1>15, <1>16, <1>17, <1>18, <1>19, <1>20, <1>21, <1>22, <1>23, <1>24, <1>25, <1>26, <1>27, <1>28 DEF Next, SendStep, RecvStep, Quiescent

\* Every step keeps NoLostWakeup.
LEMMA WakeupStep ==
  ASSUME IInv, [Next]_vars PROVE NoLostWakeup'
<1> USE Constants DEF IInv, TypeOK, Agents, Ops
<1>1. ASSUME NEW o \in Ops, Register(o) PROVE NoLostWakeup'
  BY <1>1 DEF Register, chanVars, NoLostWakeup
<1>2. ASSUME NEW o \in Ops, Unregister(o) PROVE NoLostWakeup'
  BY <1>2 DEF Unregister, chanVars, NoLostWakeup
<1>3. ASSUME NEW o \in Ops, RequestStop(o) PROVE NoLostWakeup'
  BY <1>3 DEF RequestStop, chanVars, NoLostWakeup
<1>4. ASSUME NEW o \in Ops, OnStop(o) PROVE NoLostWakeup'
  BY <1>4, UnlinkEffect DEF OnStop, NoLostWakeup, ParkedIsLinked
<1>5. ASSUME NEW o \in Ops, FireStopped(o) PROVE NoLostWakeup'
  BY <1>5 DEF FireStopped, chanVars, NoLostWakeup
<1>6. ASSUME NEW o \in Ops, Destroy(o) PROVE NoLostWakeup'
  BY <1>6, UnlinkEffect DEF Destroy, stopVars, NoLostWakeup
<1>7. ASSUME NEW o \in Ops, DestroyEnd(o) PROVE NoLostWakeup'
  BY <1>7 DEF DestroyEnd, chanVars, NoLostWakeup
<1>8. ASSUME NEW s \in SendOps, SendStopped(s) PROVE NoLostWakeup'
  BY <1>8 DEF SendStopped, Decide, stopVars, NoLostWakeup
<1>9. ASSUME NEW s \in SendOps, SendClosed(s) PROVE NoLostWakeup'
  BY <1>9 DEF SendClosed, Decide, stopVars, NoLostWakeup
<1>10. ASSUME NEW s \in SendOps, SendDirect(s) PROVE NoLostWakeup'
  BY <1>10 DEF SendDirect, Decide, stopVars, NoLostWakeup
<1>11. ASSUME NEW s \in SendOps, SendBuffered(s) PROVE NoLostWakeup'
  BY <1>11, AppendProperties DEF SendBuffered, Decide, stopVars, Full, NoLostWakeup
<1>12. ASSUME NEW s \in SendOps, SendParked(s) PROVE NoLostWakeup'
  BY <1>12, AppendProperties DEF SendParked, QueueSend, stopVars, Full, NoLostWakeup
<1>13. ASSUME NEW r \in RecvOps, RecvStopped(r) PROVE NoLostWakeup'
  BY <1>13 DEF RecvStopped, Decide, stopVars, NoLostWakeup
<1>14. ASSUME NEW r \in RecvOps, RecvValue(r) PROVE NoLostWakeup'
  <2>1. Take(r)
    BY <1>14 DEF RecvValue
  <2>2. QED BY <1>14, <2>1, TakeEffect DEF RecvValue, Decide, stopVars, NoLostWakeup
<1>15. ASSUME NEW r \in RecvOps, RecvClosed(r) PROVE NoLostWakeup'
  BY <1>15 DEF RecvClosed, Decide, stopVars, NoLostWakeup
<1>16. ASSUME NEW r \in RecvOps, RecvViolation(r) PROVE NoLostWakeup'
  BY <1>16 DEF RecvViolation, Decide, stopVars, NoLostWakeup
<1>17. ASSUME NEW r \in RecvOps, RecvParked(r) PROVE NoLostWakeup'
  BY <1>17 DEF RecvParked, stopVars, Available, NoLostWakeup
<1>18. ASSUME NEW p \in Polls, PollValue(p) PROVE NoLostWakeup'
  <2>1. Take(p)
    BY <1>18 DEF PollValue
  <2>2. QED BY <1>18, <2>1, TakeEffect DEF PollValue, Decide, stopVars, NoLostWakeup
<1>19. ASSUME NEW p \in Polls, PollEmpty(p) PROVE NoLostWakeup'
  BY <1>19 DEF PollEmpty, Decide, stopVars, NoLostWakeup
<1>20. ASSUME NEW a \in Agents, CompletePartner(a) PROVE NoLostWakeup'
  BY <1>20 DEF CompletePartner, Complete, chanVars, NoLostWakeup
<1>21. ASSUME NEW a \in Agents, Finish(a) PROVE NoLostWakeup'
  BY <1>21 DEF Finish, chanVars, stopVars, NoLostWakeup
<1>22. ASSUME CloseNext PROVE NoLostWakeup'
  BY <1>22, HeadTailProperties DEF CloseNext, Complete, NoLostWakeup
<1>23. ASSUME CloneSender PROVE NoLostWakeup'
  BY <1>23 DEF CloneSender, chanVars, stopVars, NoLostWakeup
<1>24. ASSUME DropSender PROVE NoLostWakeup'
  BY <1>24 DEF DropSender, chanVars, stopVars, NoLostWakeup
<1>25. ASSUME LastSenderClose PROVE NoLostWakeup'
  BY <1>25, CloseEffect, CloseType DEF LastSenderClose, NoLostWakeup
<1>26. ASSUME SenderClose PROVE NoLostWakeup'
  BY <1>26, CloseEffect, CloseType DEF SenderClose, NoLostWakeup
<1>27. ASSUME DropReceiver PROVE NoLostWakeup'
  BY <1>27, CloseEffect, CloseType DEF DropReceiver, chanVars, stopVars, NoLostWakeup
<1>28. CASE UNCHANGED vars
  BY <1>28 DEF vars, NoLostWakeup, ParkedIsLinked
<1>29. QED
  BY <1>1, <1>2, <1>3, <1>4, <1>5, <1>6, <1>7, <1>8, <1>9, <1>10, <1>11, <1>12, <1>13, <1>14, <1>15, <1>16, <1>17, <1>18, <1>19, <1>20, <1>21, <1>22, <1>23, <1>24, <1>25, <1>26, <1>27, <1>28 DEF Next, SendStep, RecvStep, Quiescent

\* A stop callback that withdraws a queued operation owes its completion.
LEMMA WithdrawKeepsOwed ==
  ASSUME IInv, NEW o \in Ops, stage[o] = "kQueued",
         stage' = [stage EXCEPT ![o] = "kStopped"], cb' = [cb EXCEPT ![o] = "firing"],
         UNCHANGED <<pc, signals, owes, closeList, closed>>
  PROVE  CompletionOwed'
<1>1. /\ stage \in [Ops -> Stages] /\ cb \in [Ops -> Callback] /\ closeList \in Seq(Ops)
      /\ owes \in [Agents -> Ops \cup {None}]
  BY DEF IInv, TypeOK
<1>2. pc[o] = "parked" /\ signals[o] = <<>>
  BY DEF IInv, OwnThread
<1>3. /\ \A a \in Agents : owes[a] # None => owes[a] # o
      /\ \A i \in DOMAIN closeList : closeList[i] # o
  BY DEF IInv, CompletionOwed, Owing
<1>4. /\ \A q \in Ops : q # o => stage'[q] = stage[q] /\ cb'[q] = cb[q]
      /\ stage'[o] = "kStopped" /\ cb'[o] = "firing"
  BY <1>1
<1>5. \A i \in DOMAIN closeList : closeList[i] \in Ops
  BY <1>1
<1>6. \A a \in Agents : owes[a] # None => owes[a] \in Ops
  BY <1>1
<1>7. QED BY <1>2, <1>3, <1>4, <1>5, <1>6 DEF IInv, CompletionOwed, Owing

\* The stop callback that withdrew an operation is the one to complete it.
LEMMA FireKeepsOwed ==
  ASSUME IInv, NEW o \in Ops, FireStopped(o)
  PROVE  CompletionOwed'
<1>1. /\ stage \in [Ops -> Stages] /\ cb \in [Ops -> Callback] /\ closeList \in Seq(Ops)
      /\ owes \in [Agents -> Ops \cup {None}] /\ signals \in [Agents -> Seq(Signals)]
  BY DEF IInv, TypeOK
<1>2. /\ cb[o] = "firing" /\ cb' = [cb EXCEPT ![o] = "ran"]
      /\ signals' = [signals EXCEPT ![o] = Append(@, "stopped")]
      /\ UNCHANGED <<stage, pc, owes, closeList, closed>>
  BY DEF FireStopped, chanVars
<1>3. stage[o] = "kStopped"
  BY <1>2 DEF IInv, CompletionOwed, Owing
<1>4. /\ \A a \in Agents : owes[a] # None => owes[a] # o
      /\ \A i \in DOMAIN closeList : closeList[i] # o
  BY <1>3 DEF IInv, CompletionOwed, Owing
<1>5. /\ \A q \in Ops : q # o => signals'[q] = signals[q] /\ cb'[q] = cb[q]
      /\ signals'[o] # <<>> /\ cb'[o] = "ran"
  BY <1>1, <1>2, AppendProperties DEF Agents
<1>6. \A i \in DOMAIN closeList : closeList[i] \in Ops
  BY <1>1
<1>7. \A a \in Agents : owes[a] # None => owes[a] \in Ops
  BY <1>1
<1>8. QED BY <1>2, <1>4, <1>5, <1>6, <1>7 DEF IInv, CompletionOwed, Owing

\* Claiming a queued operation makes the claiming thread, which owed nothing, owe it.
LEMMA ClaimKeepsOwed ==
  ASSUME IInv, NEW a \in Agents, NEW o \in Ops,
         stage[o] = "kQueued", stage' = [stage EXCEPT ![o] = "kClaimed"],
         owes' = [owes EXCEPT ![a] = o], pc[a] \in {"idle", "registered"},
         pc' = [pc EXCEPT ![a] = IF pc[a] = "registered" THEN "decided" ELSE "unregistered"],
         UNCHANGED <<signals, cb, closeList, closed>>
  PROVE  CompletionOwed'
<1>1. /\ stage \in [Ops -> Stages] /\ closeList \in Seq(Ops) /\ pc \in [Agents -> PCs]
      /\ owes \in [Agents -> Ops \cup {None}] /\ Ops \subseteq Agents /\ None \notin Agents
  BY Constants DEF IInv, TypeOK, Agents
<1>2. pc[o] = "parked" /\ signals[o] = <<>> /\ o # a
  BY DEF IInv, OwnThread
<1>3. /\ owes[a] = None
      /\ \A b \in Agents : owes[b] # None => owes[b] \in Ops \ {a, o}
      /\ \A i \in DOMAIN closeList : closeList[i] \in Ops \ {a, o}
      /\ \A q \in Ops : cb[q] = "firing" => q \notin {a, o}
  BY <1>1 DEF IInv, CompletionOwed, Owing
<1>4. /\ \A q \in Ops : q # o => stage'[q] = stage[q]
      /\ \A b \in Agents : b # a => owes'[b] = owes[b] /\ pc'[b] = pc[b]
      /\ stage'[o] = "kClaimed" /\ owes'[a] = o /\ pc'[a] \in {"decided", "unregistered"}
  BY <1>1
<1>5. \A b \in Agents : owes'[b] # None =>
        /\ pc'[b] \in {"decided", "unregistered"} /\ Owing(owes[b], "kClaimed")' 
        /\ \A c \in Agents : owes'[c] = owes'[b] => c = b
  <2>1. ASSUME NEW b \in Agents, owes'[b] # None, b # a
        PROVE  /\ pc'[b] \in {"decided", "unregistered"} /\ Owing(owes[b], "kClaimed")'
               /\ \A c \in Agents : owes'[c] = owes'[b] => c = b
    BY <2>1, <1>1, <1>3, <1>4 DEF IInv, CompletionOwed, Owing
  <2>2. /\ Owing(owes[a], "kClaimed")'
        /\ \A c \in Agents : owes'[c] = owes'[a] => c = a
    BY <1>1, <1>2, <1>3, <1>4 DEF Owing
  <2>3. QED BY <2>1, <2>2, <1>4
<1>6. \A i \in DOMAIN closeList : Owing(closeList[i], "kClosed")'
  BY <1>1, <1>3, <1>4 DEF IInv, CompletionOwed, Owing
<1>7. \A q \in Ops : cb'[q] = "firing" => Owing(q, "kStopped")'
  BY <1>1, <1>3, <1>4 DEF IInv, CompletionOwed, Owing
<1>8. ASSUME NEW q \in Ops, pc'[q] = "parked", signals'[q] = <<>>
      PROVE  \/ stage'[q] \in {"kQueued", "kGone"}
             \/ stage'[q] = "kClaimed" /\ \E b \in Agents : owes'[b] = q
             \/ stage'[q] = "kClosed" /\ \E i \in DOMAIN closeList : closeList[i] = q
             \/ stage'[q] = "kStopped" /\ cb'[q] = "firing"
  <2>1. CASE q = o
    BY <2>1, <1>4
  <2>2. CASE q # o
    <3>1. pc[q] = "parked" /\ signals[q] = <<>> /\ stage'[q] = stage[q]
      BY <2>2, <1>1, <1>4, <1>8
    <3>2. ASSUME NEW b \in Agents, owes[b] = q PROVE owes'[b] = q
      BY <3>2, <1>1, <1>3, <1>4
    <3>3. QED BY <3>1, <3>2 DEF IInv, CompletionOwed
  <2>3. QED BY <2>1, <2>2
<1>9. QED BY <1>5, <1>6, <1>7, <1>8 DEF IInv, CompletionOwed, Owing

\* Taking a value keeps CompletionOwed.
LEMMA TakeKeepsOwed ==
  ASSUME IInv, NEW a \in RecvOps \cup Polls, Take(a), pc[a] \in {"idle", "registered"},
         pc' = [pc EXCEPT ![a] = IF pc[a] = "registered" THEN "decided" ELSE "unregistered"],
         UNCHANGED <<signals, cb, closeList, closed>>
  PROVE  CompletionOwed'
<1>1. TypeOK /\ ParkedIsLinked /\ a \in Agents
  BY DEF IInv, Agents, Ops
<1>2. CASE ws = <<>>
  <2>1. stage' = stage /\ owes' = owes
    BY <1>2 DEF Take
  <2>2. pc \in [Agents -> PCs] /\ Ops \subseteq Agents /\ owes \in [Agents -> Ops \cup {None}]
        /\ closeList \in Seq(Ops)
    BY <1>1 DEF TypeOK, Agents
  <2>3. /\ owes[a] = None /\ pc'[a] # "parked"
        /\ \A b \in Agents : b # a => pc'[b] = pc[b]
        /\ \A i \in DOMAIN closeList : closeList[i] \in Ops \ {a}
        /\ \A b \in Agents : owes[b] # None => owes[b] \in Ops \ {a}
    BY <1>1, <2>2 DEF IInv, CompletionOwed, Owing
  <2>4. QED BY <2>1, <2>2, <2>3, <1>1 DEF IInv, CompletionOwed, Owing
<1>3. CASE ws # <<>>
  <2>1. /\ Head(ws) \in Ops /\ stage[Head(ws)] = "kQueued"
        /\ stage' = [stage EXCEPT ![Head(ws)] = "kClaimed"]
        /\ owes' = [owes EXCEPT ![a] = Head(ws)]
    BY <1>1, <1>3, TakeEffect DEF Ops
  <2>2. QED BY <2>1, <1>1, ClaimKeepsOwed
<1>4. QED BY <1>2, <1>3

\* Completing an operation signals it, drops its stop callback and touches no other.
LEMMA CompleteEffect ==
  ASSUME TypeOK, NEW o \in Ops, Complete(o)
  PROVE  /\ signals'[o] # <<>> /\ cb'[o] = "off" /\ cb[o] # "firing"
         /\ \A q \in Ops : q # o => signals'[q] = signals[q] /\ cb'[q] = cb[q]
<1>1. /\ cb \in [Ops -> Callback] /\ signals \in [Agents -> Seq(Signals)] /\ o \in Agents
      /\ Ops \subseteq Agents
  BY DEF TypeOK, Agents
<1>2. Append(signals[o], PartnerSignal(o)) # <<>>
  BY <1>1
<1>3. QED BY <1>1, <1>2 DEF Complete, CallbackIdle

\* Completing a claimed partner pays exactly that debt.
LEMMA PartnerKeepsOwed ==
  ASSUME IInv, NEW a \in Agents, CompletePartner(a)
  PROVE  CompletionOwed'
<1> DEFINE o == owes[a]
<1>1. /\ stage \in [Ops -> Stages] /\ closeList \in Seq(Ops)
      /\ owes \in [Agents -> Ops \cup {None}] /\ Ops \subseteq Agents /\ None \notin Agents
      /\ TypeOK
  BY Constants DEF IInv, TypeOK, Agents
<1>2. /\ o # None /\ o \in Ops /\ Complete(o) /\ owes' = [owes EXCEPT ![a] = None]
      /\ UNCHANGED <<stage, pc, closeList, closed>>
  BY <1>1 DEF CompletePartner, chanVars
<1>3. /\ stage[o] = "kClaimed"
      /\ \A b \in Agents : owes[b] = o => b = a
  BY <1>2 DEF IInv, CompletionOwed, Owing
<1> HIDE DEF o
<1>4. /\ signals'[o] # <<>> /\ cb'[o] = "off"
      /\ \A q \in Ops : q # o => signals'[q] = signals[q] /\ cb'[q] = cb[q]
  BY <1>1, <1>2, CompleteEffect
<1>5. \A b \in Agents : owes'[b] = IF b = a THEN None ELSE owes[b]
  BY <1>1, <1>2
<1>6. \A i \in DOMAIN closeList : closeList[i] \in Ops /\ closeList[i] # o
  BY <1>1, <1>3 DEF IInv, CompletionOwed, Owing
<1>7. \A b \in Agents : owes'[b] # None => owes[b] = owes'[b] /\ owes[b] \in Ops /\ owes[b] # o
  BY <1>1, <1>3, <1>5
<1>8. \A q \in Ops : q # o /\ (\E b \in Agents : owes[b] = q) => \E b \in Agents : owes'[b] = q
  BY <1>5 DEF o
<1>9. /\ \A b \in Agents : owes'[b] # None =>
           /\ pc'[b] \in {"decided", "unregistered"} /\ Owing(owes[b], "kClaimed")'
           /\ \A c \in Agents : owes'[c] = owes'[b] => c = b
  BY <1>2, <1>4, <1>7 DEF IInv, CompletionOwed, Owing
<1>10. \A i \in DOMAIN closeList : Owing(closeList[i], "kClosed")'
  BY <1>2, <1>4, <1>6 DEF IInv, CompletionOwed, Owing
<1>11. \A q \in Ops : cb'[q] = "firing" => Owing(q, "kStopped")'
  BY <1>2, <1>4 DEF IInv, CompletionOwed, Owing
<1>12. \A q \in Ops : pc'[q] = "parked" /\ signals'[q] = <<>> => q # o /\ pc[q] = "parked" /\ signals[q] = <<>>
  BY <1>2, <1>4
<1>13. QED BY <1>2, <1>4, <1>8, <1>9, <1>10, <1>11, <1>12 DEF IInv, CompletionOwed, Owing

\* Completing the head of the close list pays exactly that debt.
LEMMA CloseNextKeepsOwed ==
  ASSUME IInv, CloseNext
  PROVE  CompletionOwed'
<1> DEFINE o == Head(closeList)
<1>1. /\ closeList \in Seq(Ops) /\ owes \in [Agents -> Ops \cup {None}] /\ TypeOK
      /\ closeList # <<>> /\ closeList' = Tail(closeList) /\ Complete(o)
      /\ UNCHANGED <<stage, pc, owes, closed>>
  BY DEF IInv, TypeOK, CloseNext
<1>2. /\ o \in Ops /\ o = closeList[1] /\ Len(closeList) \in Nat \ {0}
      /\ DOMAIN closeList = 1..Len(closeList)
      /\ DOMAIN closeList' = 1..(Len(closeList) - 1)
      /\ \A i \in 1..(Len(closeList) - 1) : closeList'[i] = closeList[i + 1]
  BY <1>1, HeadTailProperties
<1> HIDE DEF o
<1>3. stage[o] = "kClosed"
  BY <1>2 DEF IInv, CompletionOwed, Owing
<1>4. /\ signals'[o] # <<>> /\ cb'[o] = "off"
      /\ \A q \in Ops : q # o => signals'[q] = signals[q] /\ cb'[q] = cb[q]
  BY <1>1, <1>2, CompleteEffect
<1>5. \A i \in DOMAIN closeList' :
        /\ i + 1 \in DOMAIN closeList /\ closeList'[i] = closeList[i + 1]
        /\ closeList'[i] \in Ops
  BY <1>1, <1>2
<1>6. \A i, j \in DOMAIN closeList : closeList[i] = closeList[j] => i = j
  BY DEF IInv, CompletionOwed
<1>7. \A i \in DOMAIN closeList' : closeList'[i] # o
  BY <1>2, <1>5, <1>6
<1>8. \A i, j \in DOMAIN closeList' : closeList'[i] = closeList'[j] => i = j
  BY <1>2, <1>5, <1>6
<1>9. \A i \in DOMAIN closeList' : Owing(closeList[i], "kClosed")'
  <2>1. ASSUME NEW i \in DOMAIN closeList' PROVE Owing(closeList[i], "kClosed")'
    <3>1. Owing(closeList[i + 1], "kClosed")
      BY <1>5 DEF IInv, CompletionOwed
    <3>2. QED BY <3>1, <1>1, <1>4, <1>5, <1>7 DEF Owing
  <2>2. QED BY <2>1
<1>10. ASSUME NEW q \in Ops, q # o, NEW j \in DOMAIN closeList, closeList[j] = q
       PROVE  \E i \in DOMAIN closeList' : closeList'[i] = q
  <2>1. j - 1 \in DOMAIN closeList' /\ closeList'[j - 1] = q
    BY <1>10, <1>2
  <2>2. QED BY <2>1
<1>11. \A b \in Agents : owes[b] # None => owes[b] \in Ops /\ owes[b] # o
  BY <1>1, <1>3 DEF IInv, CompletionOwed, Owing
<1>12. /\ \A b \in Agents : owes'[b] # None =>
           /\ pc'[b] \in {"decided", "unregistered"} /\ Owing(owes[b], "kClaimed")'
           /\ \A c \in Agents : owes'[c] = owes'[b] => c = b
  BY <1>1, <1>4, <1>11 DEF IInv, CompletionOwed, Owing
<1>13. \A q \in Ops : cb'[q] = "firing" => Owing(q, "kStopped")'
  BY <1>1, <1>4 DEF IInv, CompletionOwed, Owing
<1>14. \A q \in Ops : pc'[q] = "parked" /\ signals'[q] = <<>> => q # o /\ pc[q] = "parked" /\ signals[q] = <<>>
  BY <1>1, <1>4
<1>15. closeList' # <<>> => closed'
  BY <1>1 DEF IInv, CompletionOwed
<1>16. QED BY <1>1, <1>4, <1>8, <1>9, <1>10, <1>12, <1>13, <1>14, <1>15 DEF IInv, CompletionOwed, Owing

\* The successful close() owes every operation that was queued.
LEMMA CloseKeepsOwed ==
  ASSUME IInv, CloseLocked, ~closed
  PROVE  CompletionOwed'
<1>1. /\ \A o \in Ops : stage'[o] = IF stage[o] = "kQueued" THEN "kClosed" ELSE stage[o]
      /\ \A o \in Ops : (\E i \in DOMAIN closeList' : closeList'[i] = o) <=> stage[o] = "kQueued"
      /\ \A i, j \in DOMAIN closeList' : closeList'[i] = closeList'[j] => i = j
  BY CloseEffect DEF IInv
<1>2. /\ closeList' \in Seq(Ops) /\ closed' = TRUE /\ owes \in [Agents -> Ops \cup {None}]
      /\ UNCHANGED <<pc, owes, cb, signals>>
  BY CloseType DEF IInv, TypeOK, stopVars
<1>3. closeList = <<>>
  BY DEF IInv, CompletionOwed
<1>4. \A i \in DOMAIN closeList' : closeList'[i] \in Ops
  BY <1>2
<1>5. \A i \in DOMAIN closeList' : Owing(closeList[i], "kClosed")'
  BY <1>1, <1>2, <1>4 DEF IInv, OwnThread, Owing
<1>6. \A b \in Agents : owes[b] # None => owes[b] \in Ops
  BY <1>2
<1>7. /\ \A b \in Agents : owes'[b] # None =>
           /\ pc'[b] \in {"decided", "unregistered"} /\ Owing(owes[b], "kClaimed")'
           /\ \A c \in Agents : owes'[c] = owes'[b] => c = b
  BY <1>1, <1>2, <1>6 DEF IInv, CompletionOwed, Owing
<1>8. \A q \in Ops : cb'[q] = "firing" => Owing(q, "kStopped")'
  BY <1>1, <1>2 DEF IInv, CompletionOwed, Owing
<1>9. ASSUME NEW q \in Ops, pc'[q] = "parked", signals'[q] = <<>>
      PROVE  \/ stage'[q] \in {"kQueued", "kGone"}
             \/ stage'[q] = "kClaimed" /\ \E b \in Agents : owes'[b] = q
             \/ stage'[q] = "kClosed" /\ \E i \in DOMAIN closeList' : closeList'[i] = q
             \/ stage'[q] = "kStopped" /\ cb'[q] = "firing"
  <2>1. ~(stage[q] = "kClosed" /\ \E i \in DOMAIN closeList : closeList[i] = q)
    BY <1>3
  <2>2. QED BY <2>1, <1>1, <1>2, <1>9 DEF IInv, CompletionOwed
<1>10. QED BY <1>1, <1>2, <1>5, <1>7, <1>8, <1>9 DEF CompletionOwed, Owing

\* An operation that decides at its lock disturbs no debt: nobody owes it anything yet.
LEMMA DecideKeepsOwed ==
  ASSUME IInv, NEW o \in Ops, pc[o] \in {"idle", "registered"},
         pc' = [pc EXCEPT ![o] = IF pc[o] = "registered" THEN "decided" ELSE "unregistered"],
         UNCHANGED <<stage, signals, cb, owes, closeList, closed>>
  PROVE  CompletionOwed'
<1>1. pc \in [Agents -> PCs] /\ closeList \in Seq(Ops) /\ Ops \subseteq Agents
  BY DEF IInv, TypeOK, Agents, Ops
<1>2. /\ pc'[o] \in {"decided", "unregistered"}
      /\ \A a \in Agents : a # o => pc'[a] = pc[a]
  BY <1>1
<1>3. \A q \in Ops : \A st : Owing(q, st) => q # o /\ Owing(q, st)'
  BY <1>1, <1>2 DEF Owing
<1>4. \A a \in Agents : pc[a] \in {"decided", "unregistered"} => pc'[a] = pc[a]
  BY <1>2
<1>5. \A a \in Agents : owes[a] # None => owes[a] \in Ops
  BY DEF IInv, TypeOK
<1>6. \A i \in DOMAIN closeList : closeList[i] \in Ops
  BY <1>1
<1>7. \A q \in Ops : pc'[q] = "parked" => pc[q] = "parked"
  BY <1>1, <1>2
<1>8. QED BY <1>3, <1>4, <1>5, <1>6, <1>7 DEF IInv, CompletionOwed

\* Every step keeps CompletionOwed.
LEMMA OwedStep ==
  ASSUME IInv, [Next]_vars PROVE CompletionOwed'
<1> USE Constants DEF IInv, TypeOK, Agents, Ops
<1>1. ASSUME NEW o \in Ops, Register(o) PROVE CompletionOwed'
  BY <1>1 DEF Register, chanVars, CompletionOwed, Owing
<1>2. ASSUME NEW o \in Ops, Unregister(o) PROVE CompletionOwed'
  BY <1>2 DEF Unregister, chanVars, CompletionOwed, Owing
<1>3. ASSUME NEW o \in Ops, RequestStop(o) PROVE CompletionOwed'
  BY <1>3 DEF RequestStop, chanVars, CompletionOwed, Owing
<1>4. ASSUME NEW o \in Ops, OnStop(o) PROVE CompletionOwed'
  <2>1. CASE stage[o] = "kQueued"
    BY <1>4, <2>1, WithdrawKeepsOwed DEF OnStop
  <2>2. CASE stage[o] # "kQueued"
    <3>1. /\ stage' = stage /\ cb' = [cb EXCEPT ![o] = "ran"] /\ cb[o] = "running"
          /\ UNCHANGED <<pc, signals, owes, closeList, closed>>
      BY <2>2, <1>4 DEF OnStop
    <3>2. QED BY <3>1 DEF CompletionOwed, Owing
  <2>3. QED BY <2>1, <2>2
<1>5. ASSUME NEW o \in Ops, FireStopped(o) PROVE CompletionOwed'
  BY <1>5, FireKeepsOwed
<1>6. ASSUME NEW o \in Ops, Destroy(o) PROVE CompletionOwed'
  BY <1>6, UnlinkEffect DEF Destroy, stopVars, CompletionOwed, Owing
<1>7. ASSUME NEW o \in Ops, DestroyEnd(o) PROVE CompletionOwed'
  BY <1>7 DEF DestroyEnd, chanVars, CompletionOwed, Owing, OwnThread
<1>8. ASSUME NEW s \in SendOps, SendStopped(s) PROVE CompletionOwed'
  <2>1. /\ pc[s] \in {"idle", "registered"}
        /\ pc' = [pc EXCEPT ![s] = IF pc[s] = "registered" THEN "decided" ELSE "unregistered"]
        /\ UNCHANGED <<stage, signals, cb, owes, closeList, closed>>
    BY <1>8 DEF SendStopped, Decide, stopVars, AtSend, AtLock
  <2>2. QED BY <2>1, DecideKeepsOwed
<1>9. ASSUME NEW s \in SendOps, SendClosed(s) PROVE CompletionOwed'
  <2>1. /\ pc[s] \in {"idle", "registered"}
        /\ pc' = [pc EXCEPT ![s] = IF pc[s] = "registered" THEN "decided" ELSE "unregistered"]
        /\ UNCHANGED <<stage, signals, cb, owes, closeList, closed>>
    BY <1>9 DEF SendClosed, Decide, stopVars, AtSend, AtLock
  <2>2. QED BY <2>1, DecideKeepsOwed
<1>10. ASSUME NEW s \in SendOps, SendDirect(s) PROVE CompletionOwed'
  <2>1. /\ stage' = [stage EXCEPT ![slot] = "kClaimed"] /\ owes' = [owes EXCEPT ![s] = slot]
        /\ slot \in Ops /\ stage[slot] = "kQueued" /\ pc[s] \in {"idle", "registered"}
        /\ pc' = [pc EXCEPT ![s] = IF pc[s] = "registered" THEN "decided" ELSE "unregistered"]
        /\ UNCHANGED <<signals, cb, closeList, closed>>
    BY <1>10 DEF SendDirect, AtSend, AtLock, Decide, stopVars, ParkedIsLinked
  <2>2. QED BY <2>1, ClaimKeepsOwed
<1>11. ASSUME NEW s \in SendOps, SendBuffered(s) PROVE CompletionOwed'
  BY <1>11, AppendProperties DEF SendBuffered, Decide, stopVars, AtSend, AtLock, CompletionOwed, Owing, OwnThread
<1>12. ASSUME NEW s \in SendOps, SendParked(s) PROVE CompletionOwed'
  <2>1. /\ stage' = [stage EXCEPT ![s] = "kQueued"] /\ pc' = [pc EXCEPT ![s] = "parked"]
        /\ stage[s] = "kInit" /\ pc[s] \in {"idle", "registered"}
        /\ UNCHANGED <<signals, cb, owes, closeList, closed>>
    BY <1>12 DEF SendParked, AtSend, AtLock, stopVars, OwnThread
  <2>2. stage[s] # "kClaimed" /\ stage[s] # "kClosed" /\ stage[s] # "kStopped"
    BY <2>1
  <2>3. owes[s] = None /\ cb[s] # "firing"
    BY <2>1, <2>2 DEF CompletionOwed, Owing
  <2>4. \A b \in Agents : owes[b] # None => owes[b] \in Ops \ {s}
    BY <2>2 DEF CompletionOwed, Owing
  <2>5. \A i \in DOMAIN closeList : closeList[i] \in Ops \ {s}
    <3>1. \A i \in DOMAIN closeList : closeList[i] \in Ops
      OBVIOUS
    <3>2. QED BY <2>2, <3>1 DEF CompletionOwed, Owing
  <2>6. QED BY <2>1, <2>3, <2>4, <2>5 DEF CompletionOwed, Owing
<1>13. ASSUME NEW r \in RecvOps, RecvStopped(r) PROVE CompletionOwed'
  <2>1. /\ pc[r] \in {"idle", "registered"}
        /\ pc' = [pc EXCEPT ![r] = IF pc[r] = "registered" THEN "decided" ELSE "unregistered"]
        /\ UNCHANGED <<stage, signals, cb, owes, closeList, closed>>
    BY <1>13 DEF RecvStopped, Decide, stopVars, AtLock
  <2>2. QED BY <2>1, DecideKeepsOwed
<1>14. ASSUME NEW r \in RecvOps, RecvValue(r) PROVE CompletionOwed'
  <2>1. /\ Take(r) /\ pc[r] \in {"idle", "registered"}
        /\ pc' = [pc EXCEPT ![r] = IF pc[r] = "registered" THEN "decided" ELSE "unregistered"]
        /\ UNCHANGED <<signals, cb, closeList, closed>>
    BY <1>14 DEF RecvValue, AtLock, Decide, stopVars
  <2>2. QED BY <2>1, TakeKeepsOwed
<1>15. ASSUME NEW r \in RecvOps, RecvClosed(r) PROVE CompletionOwed'
  <2>1. /\ pc[r] \in {"idle", "registered"}
        /\ pc' = [pc EXCEPT ![r] = IF pc[r] = "registered" THEN "decided" ELSE "unregistered"]
        /\ UNCHANGED <<stage, signals, cb, owes, closeList, closed>>
    BY <1>15 DEF RecvClosed, Decide, stopVars, AtLock
  <2>2. QED BY <2>1, DecideKeepsOwed
<1>16. ASSUME NEW r \in RecvOps, RecvViolation(r) PROVE CompletionOwed'
  <2>1. /\ pc[r] \in {"idle", "registered"}
        /\ pc' = [pc EXCEPT ![r] = IF pc[r] = "registered" THEN "decided" ELSE "unregistered"]
        /\ UNCHANGED <<stage, signals, cb, owes, closeList, closed>>
    BY <1>16 DEF RecvViolation, Decide, stopVars, AtLock
  <2>2. QED BY <2>1, DecideKeepsOwed
<1>17. ASSUME NEW r \in RecvOps, RecvParked(r) PROVE CompletionOwed'
  BY <1>17 DEF RecvParked, stopVars, AtLock, CompletionOwed, Owing, OwnThread
<1>18. ASSUME NEW p \in Polls, PollValue(p) PROVE CompletionOwed'
  <2>1. /\ Take(p) /\ pc[p] \in {"idle", "registered"}
        /\ pc' = [pc EXCEPT ![p] = IF pc[p] = "registered" THEN "decided" ELSE "unregistered"]
        /\ UNCHANGED <<signals, cb, closeList, closed>>
    BY <1>18 DEF PollValue, Decide, stopVars
  <2>2. QED BY <2>1, TakeKeepsOwed
<1>19. ASSUME NEW p \in Polls, PollEmpty(p) PROVE CompletionOwed'
  BY <1>19 DEF PollEmpty, Decide, stopVars, CompletionOwed, Owing
<1>20. ASSUME NEW a \in Agents, CompletePartner(a) PROVE CompletionOwed'
  BY <1>20, PartnerKeepsOwed
<1>21. ASSUME NEW a \in Agents, Finish(a) PROVE CompletionOwed'
  BY <1>21 DEF Finish, chanVars, stopVars, CompletionOwed, Owing
<1>22. ASSUME CloseNext PROVE CompletionOwed'
  BY <1>22, CloseNextKeepsOwed
<1>23. ASSUME CloneSender PROVE CompletionOwed'
  BY <1>23 DEF CloneSender, chanVars, stopVars, CompletionOwed, Owing
<1>24. ASSUME DropSender PROVE CompletionOwed'
  BY <1>24 DEF DropSender, chanVars, stopVars, CompletionOwed, Owing
<1>25. ASSUME LastSenderClose PROVE CompletionOwed'
  BY <1>25, CloseKeepsOwed DEF LastSenderClose
<1>26. ASSUME SenderClose PROVE CompletionOwed'
  BY <1>26, CloseKeepsOwed DEF SenderClose
<1>27. ASSUME DropReceiver PROVE CompletionOwed'
  <2>1. CASE closed
    BY <2>1, <1>27 DEF DropReceiver, chanVars, stopVars, CompletionOwed, Owing
  <2>2. CASE ~closed
    BY <2>2, <1>27, CloseKeepsOwed DEF DropReceiver
  <2>3. QED BY <2>1, <2>2
<1>28. CASE UNCHANGED vars
  BY <1>28 DEF vars, CompletionOwed, Owing, OwnThread, ParkedIsLinked
<1>29. QED
  BY <1>1, <1>2, <1>3, <1>4, <1>5, <1>6, <1>7, <1>8, <1>9, <1>10, <1>11, <1>12, <1>13, <1>14, <1>15, <1>16, <1>17, <1>18, <1>19, <1>20, <1>21, <1>22, <1>23, <1>24, <1>25, <1>26, <1>27, <1>28 DEF Next, SendStep, RecvStep, Quiescent

\* One signal to an operation that had none, and that is not destroyed, is its first.
LEMMA SignalledOnce ==
  ASSUME IInv, NEW o \in Agents, NEW x \in Signals,
         o \in Ops => signals[o] = <<>> /\ stage[o] # "kGone",
         signals' = [signals EXCEPT ![o] = Append(@, x)], stage' = stage
  PROVE  CompletesAtMostOnce'
<1>1. /\ signals \in [Agents -> Seq(Signals)] /\ Ops \subseteq Agents
  BY DEF IInv, TypeOK, Agents
<1>2. ASSUME NEW q \in Ops
      PROVE  Len(signals'[q]) <= 1 /\ (stage'[q] = "kGone" => signals'[q] = <<>>)
  <2>1. CASE q = o
    <3>1. Len(Append(<<>>, x)) = 1
      OBVIOUS
    <3>2. signals'[q] = Append(<<>>, x) /\ stage'[q] # "kGone"
      BY <2>1, <1>1
    <3>3. QED BY <3>1, <3>2
  <2>2. CASE q # o
    <3>1. signals'[q] = signals[q]
      BY <2>2, <1>1
    <3>2. QED BY <3>1 DEF IInv, CompletesAtMostOnce
  <2>3. QED BY <2>1, <2>2
<1>3. QED BY <1>2 DEF CompletesAtMostOnce

\* Without a new signal only a queued operation, which has none, may be destroyed.
LEMMA StagesKeepOnce ==
  ASSUME IInv, signals' = signals,
         \A o \in Ops : stage'[o] = "kGone" => stage[o] = "kGone" \/ stage[o] = "kQueued"
  PROVE  CompletesAtMostOnce'
BY DEF IInv, CompletesAtMostOnce, OwnThread

\* Only completion signals are delivered.
LEMMA PartnerSignalType ==
  ASSUME NEW o PROVE PartnerSignal(o) \in Signals /\ OwnSignal(o) \in Signals
BY DEF PartnerSignal, OwnSignal, Signals

\* Every step keeps CompletesAtMostOnce.
LEMMA OnceStep ==
  ASSUME IInv, [Next]_vars PROVE CompletesAtMostOnce'
<1> USE Constants DEF IInv, TypeOK, Agents, Ops
<1>1. ASSUME NEW o \in Ops, Register(o) PROVE CompletesAtMostOnce'
  BY <1>1 DEF Register, chanVars, CompletesAtMostOnce
<1>2. ASSUME NEW o \in Ops, Unregister(o) PROVE CompletesAtMostOnce'
  BY <1>2 DEF Unregister, chanVars, CompletesAtMostOnce
<1>3. ASSUME NEW o \in Ops, RequestStop(o) PROVE CompletesAtMostOnce'
  BY <1>3 DEF RequestStop, chanVars, CompletesAtMostOnce
<1>4. ASSUME NEW o \in Ops, OnStop(o) PROVE CompletesAtMostOnce'
  BY <1>4, StagesKeepOnce DEF OnStop
<1>5. ASSUME NEW o \in Ops, FireStopped(o) PROVE CompletesAtMostOnce'
  <2>1. signals[o] = <<>> /\ stage[o] # "kGone" /\ o \in Agents
    BY <1>5 DEF FireStopped, CompletionOwed, Owing
  <2>2. "stopped" \in Signals
    BY DEF Signals
  <2>3. stage' = stage /\ signals' = [signals EXCEPT ![o] = Append(@, "stopped")]
    BY <1>5 DEF FireStopped, chanVars
  <2>4. QED BY <2>1, <2>2, <2>3, SignalledOnce
<1>6. ASSUME NEW o \in Ops, Destroy(o) PROVE CompletesAtMostOnce'
  BY <1>6, StagesKeepOnce DEF Destroy
<1>7. ASSUME NEW o \in Ops, DestroyEnd(o) PROVE CompletesAtMostOnce'
  BY <1>7 DEF DestroyEnd, chanVars, CompletesAtMostOnce
<1>8. ASSUME NEW s \in SendOps, SendStopped(s) PROVE CompletesAtMostOnce'
  BY <1>8 DEF SendStopped, Decide, stopVars, CompletesAtMostOnce
<1>9. ASSUME NEW s \in SendOps, SendClosed(s) PROVE CompletesAtMostOnce'
  BY <1>9 DEF SendClosed, Decide, stopVars, CompletesAtMostOnce
<1>10. ASSUME NEW s \in SendOps, SendDirect(s) PROVE CompletesAtMostOnce'
  BY <1>10, StagesKeepOnce DEF SendDirect, Decide
<1>11. ASSUME NEW s \in SendOps, SendBuffered(s) PROVE CompletesAtMostOnce'
  BY <1>11, AppendProperties DEF SendBuffered, Decide, stopVars, CompletesAtMostOnce
<1>12. ASSUME NEW s \in SendOps, SendParked(s) PROVE CompletesAtMostOnce'
  BY <1>12, AppendProperties DEF SendParked, QueueSend, stopVars, CompletesAtMostOnce
<1>13. ASSUME NEW r \in RecvOps, RecvStopped(r) PROVE CompletesAtMostOnce'
  BY <1>13 DEF RecvStopped, Decide, stopVars, CompletesAtMostOnce
<1>14. ASSUME NEW r \in RecvOps, RecvValue(r) PROVE CompletesAtMostOnce'
  <2>1. Take(r) /\ signals' = signals
    BY <1>14 DEF RecvValue, Decide
  <2>2. QED BY <2>1, TakeStages, StagesKeepOnce
<1>15. ASSUME NEW r \in RecvOps, RecvClosed(r) PROVE CompletesAtMostOnce'
  BY <1>15 DEF RecvClosed, Decide, stopVars, CompletesAtMostOnce
<1>16. ASSUME NEW r \in RecvOps, RecvViolation(r) PROVE CompletesAtMostOnce'
  BY <1>16 DEF RecvViolation, Decide, stopVars, CompletesAtMostOnce
<1>17. ASSUME NEW r \in RecvOps, RecvParked(r) PROVE CompletesAtMostOnce'
  BY <1>17 DEF RecvParked, stopVars, CompletesAtMostOnce
<1>18. ASSUME NEW p \in Polls, PollValue(p) PROVE CompletesAtMostOnce'
  <2>1. Take(p) /\ signals' = signals
    BY <1>18 DEF PollValue, Decide
  <2>2. QED BY <2>1, TakeStages, StagesKeepOnce
<1>19. ASSUME NEW p \in Polls, PollEmpty(p) PROVE CompletesAtMostOnce'
  BY <1>19 DEF PollEmpty, Decide, stopVars, CompletesAtMostOnce
<1>20. ASSUME NEW a \in Agents, CompletePartner(a) PROVE CompletesAtMostOnce'
  <2>1. /\ owes[a] \in Ops /\ owes[a] \in Agents /\ stage' = stage
        /\ signals' = [signals EXCEPT ![owes[a]] = Append(@, PartnerSignal(owes[a]))]
    BY <1>20 DEF CompletePartner, Complete, chanVars
  <2>2. signals[owes[a]] = <<>> /\ stage[owes[a]] # "kGone"
    BY <1>20 DEF CompletePartner, CompletionOwed, Owing
  <2>3. QED BY <2>1, <2>2, PartnerSignalType, SignalledOnce
<1>21. ASSUME NEW a \in Agents, Finish(a) PROVE CompletesAtMostOnce'
  <2>1. /\ stage' = stage /\ signals' = [signals EXCEPT ![a] = Append(@, OwnSignal(a))]
        /\ pc[a] = "unregistered"
    BY <1>21 DEF Finish, chanVars
  <2>2. a \in Ops => signals[a] = <<>> /\ stage[a] # "kGone"
    BY <2>1 DEF OwnThread
  <2>3. QED BY <2>1, <2>2, PartnerSignalType, SignalledOnce
<1>22. ASSUME CloseNext PROVE CompletesAtMostOnce'
  <2>1. closeList # <<>> /\ stage' = stage
    BY <1>22 DEF CloseNext
  <2>2. /\ Head(closeList) \in Ops /\ 1 \in DOMAIN closeList /\ Head(closeList) = closeList[1]
    BY <2>1, HeadTailProperties
  <2>3. signals[Head(closeList)] = <<>> /\ stage[Head(closeList)] # "kGone"
    BY <2>2 DEF CompletionOwed, Owing
  <2>4. signals' = [signals EXCEPT ![Head(closeList)] = Append(@, PartnerSignal(Head(closeList)))]
    BY <1>22 DEF CloseNext, Complete
  <2>5. QED BY <2>1, <2>2, <2>3, <2>4, PartnerSignalType, SignalledOnce
<1>23. ASSUME CloneSender PROVE CompletesAtMostOnce'
  BY <1>23 DEF CloneSender, chanVars, stopVars, CompletesAtMostOnce
<1>24. ASSUME DropSender PROVE CompletesAtMostOnce'
  BY <1>24 DEF DropSender, chanVars, stopVars, CompletesAtMostOnce
<1>25. ASSUME LastSenderClose PROVE CompletesAtMostOnce'
  BY <1>25, CloseEffect, StagesKeepOnce DEF LastSenderClose, CloseLocked
<1>26. ASSUME SenderClose PROVE CompletesAtMostOnce'
  BY <1>26, CloseEffect, StagesKeepOnce DEF SenderClose, CloseLocked
<1>27. ASSUME DropReceiver PROVE CompletesAtMostOnce'
  <2>1. CASE closed
    BY <2>1, <1>27 DEF DropReceiver, chanVars, CompletesAtMostOnce
  <2>2. CASE ~closed
    <3>1. CloseLocked /\ signals' = signals
      BY <2>2, <1>27 DEF DropReceiver, CloseLocked
    <3>2. QED BY <3>1, CloseEffect, StagesKeepOnce
  <2>3. QED BY <2>1, <2>2
<1>28. CASE UNCHANGED vars
  BY <1>28 DEF vars, CompletesAtMostOnce, OwnThread
<1>29. QED
  BY <1>1, <1>2, <1>3, <1>4, <1>5, <1>6, <1>7, <1>8, <1>9, <1>10, <1>11, <1>12, <1>13, <1>14, <1>15, <1>16, <1>17, <1>18, <1>19, <1>20, <1>21, <1>22, <1>23, <1>24, <1>25, <1>26, <1>27, <1>28 DEF Next, SendStep, RecvStep, Quiescent

\* The inductive invariant holds of a fresh State.
LEMMA InitInv == Init => IInv
<1> SUFFICES ASSUME Init PROVE IInv
  OBVIOUS
<1>1. TypeOK
  BY InitType
<1>2. ParkedIsLinked /\ NoLostWakeup
  BY Constants DEF Init, ParkedIsLinked, NoLostWakeup, Agents, Ops
<1>3. OwnThread /\ CompletesAtMostOnce
  BY DEF Init, OwnThread, CompletesAtMostOnce, Agents
<1>4. CompletionOwed
  BY DEF Init, CompletionOwed, Owing, Agents
<1>5. QED BY <1>1, <1>2, <1>3, <1>4 DEF IInv

\* The inductive invariant is kept by every step.
LEMMA StepInv == IInv /\ [Next]_vars => IInv'
<1>1. IInv => TypeOK
  BY DEF IInv
<1>2. QED
  BY <1>1, TypeStep, OwnThreadStep, LinkedStep, OwedStep, OnceStep, WakeupStep DEF IInv

\* IInv is an invariant of the channel, whatever the numbers of operations, the
\* capacity and the operations that may be stopped or destroyed.
THEOREM Inductive == Spec => []IInv
<1>1. Init => IInv
  BY InitInv
<1>2. IInv /\ [Next]_vars => IInv'
  BY StepInv
<1>3. QED BY <1>1, <1>2, PTL DEF Spec

\* Every variable keeps its type, and no bounded channel exceeds its capacity.
THEOREM TypeCorrect == Spec => []TypeOK
<1>1. IInv => TypeOK
  BY DEF IInv
<1>2. QED BY <1>1, Inductive, PTL

\* The wait list and recv_slot hold exactly the queued operations.
THEOREM ParkedNodesAreLinked == Spec => []ParkedIsLinked
<1>1. IInv => ParkedIsLinked
  BY DEF IInv
<1>2. QED BY <1>1, Inductive, PTL

\* No wake-up is lost, whatever is cancelled, destroyed or closed on the way.
THEOREM NoWakeupIsLost == Spec => []NoLostWakeup
<1>1. IInv => NoLostWakeup
  BY DEF IInv
<1>2. QED BY <1>1, Inductive, PTL

\* Every operation taken off the channel has exactly one party that will complete it.
THEOREM EveryClaimIsOwed == Spec => []CompletionOwed
<1>1. IInv => CompletionOwed
  BY DEF IInv
<1>2. QED BY <1>1, Inductive, PTL

\* No operation is completed twice, and none that was destroyed is completed.
THEOREM AtMostOneCompletion == Spec => []CompletesAtMostOnce
<1>1. IInv => CompletesAtMostOnce
  BY DEF IInv
<1>2. QED BY <1>1, Inductive, PTL

\* A settled operation is referred to by nothing: its own thread, a partner, the
\* closing thread and its stop callback are all done with it.
LEMMA SettledIsUnreferenced == IInv => NoDanglingNode
<1> SUFFICES ASSUME IInv, NEW o \in Ops, Settled(o)
             PROVE  /\ o # slot
                    /\ \A i \in DOMAIN ws : ws[i] # o
                    /\ \A i \in DOMAIN closeList : closeList[i] # o
                    /\ \A a \in Agents : owes[a] # o
                    /\ CallbackIdle(o)
                    /\ pc[o] \in {"parked", "done"}
  BY DEF NoDanglingNode
<1>1. /\ stage[o] # "kQueued" /\ pc[o] \in {"parked", "done"}
      /\ signals[o] # <<>> \/ stage[o] = "kGone"
  BY DEF IInv, OwnThread, Settled
<1>2. o # slot /\ \A i \in DOMAIN ws : ws[i] # o
  <2>1. o # None /\ (o \in SendOps \/ o \in RecvOps) /\ SendOps \cap RecvOps = {}
    BY Constants DEF Agents, Ops
  <2>2. slot \in RecvOps \cup {None} /\ \A i \in DOMAIN ws : ws[i] \in SendOps
    BY DEF IInv, TypeOK
  <2>3. QED BY <1>1, <2>1, <2>2 DEF IInv, ParkedIsLinked
<1>3. \A i \in DOMAIN closeList : closeList[i] # o
  BY <1>1 DEF IInv, CompletionOwed, Owing
<1>4. \A a \in Agents : owes[a] # o
  BY <1>1, Constants DEF IInv, CompletionOwed, Owing, Agents
<1>5. CallbackIdle(o)
  BY DEF IInv, OwnThread, Settled, CallbackIdle
<1>6. QED BY <1>1, <1>2, <1>3, <1>4, <1>5

\* Once an operation has completed or its destructor has returned, nothing dangles.
THEOREM NothingDangles == Spec => []NoDanglingNode
<1>1. QED BY SettledIsUnreferenced, Inductive, PTL

\* The intrusive nodes are sound, whatever is stopped, destroyed or closed.
THEOREM NodesAreSound == Spec => []NodesSound
BY ParkedNodesAreLinked, NothingDangles, PTL DEF NodesSound

\* Every operation is completed by the one party that owes it, and once.
THEOREM CompletionsAreExact == Spec => []CompletedOnce
BY EveryClaimIsOwed, AtMostOneCompletion, PTL DEF CompletedOnce

-----------------------------------------------------------------------------
(* The values.                                                             *)

\* Appending a new element: the elements are one more, and still distinct.
LEMMA AppendElements ==
  ASSUME NEW S, NEW q \in Seq(S), NEW e \in S
  PROVE  /\ ToSet(Append(q, e)) = ToSet(q) \cup {e}
         /\ IsInjective(q) /\ e \notin ToSet(q) => IsInjective(Append(q, e))
<1>1. /\ Len(q) \in Nat /\ DOMAIN q = 1..Len(q) /\ DOMAIN Append(q, e) = 1..(Len(q) + 1)
      /\ \A j \in 1..Len(q) : Append(q, e)[j] = q[j]
      /\ Append(q, e)[Len(q) + 1] = e
  BY AppendProperties
<1>2. \A i \in DOMAIN Append(q, e) : \/ i \in DOMAIN q /\ Append(q, e)[i] = q[i]
                                     \/ i = Len(q) + 1 /\ Append(q, e)[i] = e
  BY AppendPositions
<1>3. \A i \in DOMAIN q : i \in DOMAIN Append(q, e) /\ Append(q, e)[i] = q[i]
  BY <1>1
<1>4. Len(q) + 1 \in DOMAIN Append(q, e)
  BY <1>1
<1>5. ToSet(Append(q, e)) = ToSet(q) \cup {e}
  BY <1>1, <1>2, <1>3, <1>4 DEF ToSet
<1>6. IsInjective(q) /\ e \notin ToSet(q) => IsInjective(Append(q, e))
  BY <1>2 DEF IsInjective, ToSet
<1>7. QED BY <1>5, <1>6

\* The head and the tail of a sequence without repetitions.
LEMMA TailElements ==
  ASSUME NEW S, NEW q \in Seq(S), q # <<>>
  PROVE  /\ ToSet(q) = {Head(q)} \cup ToSet(Tail(q)) /\ Head(q) \in S
         /\ Tail(q) \in Seq(S)
         /\ IsInjective(q) => IsInjective(Tail(q)) /\ Head(q) \notin ToSet(Tail(q))
<1>1. /\ Len(q) \in Nat \ {0} /\ DOMAIN q = 1..Len(q) /\ DOMAIN Tail(q) = 1..(Len(q) - 1)
      /\ \A j \in 1..(Len(q) - 1) : Tail(q)[j] = q[j + 1]
      /\ Head(q) = q[1] /\ Head(q) \in S /\ Tail(q) \in Seq(S)
  BY HeadTailProperties
<1>2. \A j \in DOMAIN Tail(q) : j + 1 \in DOMAIN q /\ Tail(q)[j] = q[j + 1] /\ j + 1 # 1
  BY <1>1
<1>3. ASSUME NEW i \in DOMAIN q
      PROVE  i = 1 \/ (i - 1 \in DOMAIN Tail(q) /\ Tail(q)[i - 1] = q[i])
  BY <1>1
<1>4. 1 \in DOMAIN q
  BY <1>1
<1>5. ToSet(q) = {Head(q)} \cup ToSet(Tail(q))
  BY <1>1, <1>2, <1>3, <1>4 DEF ToSet
<1>6. ASSUME IsInjective(q) PROVE Head(q) \notin ToSet(Tail(q))
  BY <1>1, <1>2, <1>4, <1>6 DEF ToSet, IsInjective
<1>7. ASSUME IsInjective(q) PROVE IsInjective(Tail(q))
  <2>1. \A i, j \in DOMAIN Tail(q) : i + 1 = j + 1 => i = j
    BY <1>1
  <2>2. QED BY <1>2, <1>7, <2>1 DEF IsInjective
<1>8. QED BY <1>1, <1>5, <1>6, <1>7

\* Joining two sequences.
LEMMA JoinElements ==
  ASSUME NEW S, NEW p \in Seq(S), NEW q \in Seq(S)
  PROVE  /\ ToSet(p \o q) = ToSet(p) \cup ToSet(q)
         /\ IsInjective(p) /\ IsInjective(q) /\ ToSet(p) \cap ToSet(q) = {}
              => IsInjective(p \o q)
<1>1. /\ Len(p) \in Nat /\ Len(q) \in Nat /\ DOMAIN p = 1..Len(p) /\ DOMAIN q = 1..Len(q)
      /\ DOMAIN (p \o q) = 1..(Len(p) + Len(q))
      /\ \A i \in 1..(Len(p) + Len(q)) :
           (p \o q)[i] = IF i <= Len(p) THEN p[i] ELSE q[i - Len(p)]
  BY ConcatProperties
<1>2. ASSUME NEW i \in DOMAIN (p \o q)
      PROVE  \/ i \in DOMAIN p /\ (p \o q)[i] = p[i]
             \/ i - Len(p) \in DOMAIN q /\ (p \o q)[i] = q[i - Len(p)]
  BY <1>1
<1>3. \A i \in DOMAIN p : i \in DOMAIN (p \o q) /\ (p \o q)[i] = p[i]
  BY <1>1
<1>4. \A i \in DOMAIN q : Len(p) + i \in DOMAIN (p \o q) /\ (p \o q)[Len(p) + i] = q[i]
  BY <1>1
<1>5. ToSet(p \o q) = ToSet(p) \cup ToSet(q)
  <2>1. \A x \in ToSet(p \o q) : x \in ToSet(p) \cup ToSet(q)
    BY <1>2 DEF ToSet
  <2>2. \A x \in ToSet(p) : x \in ToSet(p \o q)
    BY <1>3 DEF ToSet
  <2>3. ASSUME NEW i \in DOMAIN q PROVE q[i] \in ToSet(p \o q)
    BY <1>4 DEF ToSet
  <2>4. \A x \in ToSet(q) : x \in ToSet(p \o q)
    BY <2>3 DEF ToSet
  <2>5. QED BY <2>1, <2>2, <2>4
<1>6. ASSUME IsInjective(p), IsInjective(q), ToSet(p) \cap ToSet(q) = {},
             NEW i \in DOMAIN (p \o q), NEW j \in DOMAIN (p \o q), (p \o q)[i] = (p \o q)[j]
      PROVE  i = j
  <2>1. \A k \in DOMAIN p, l \in DOMAIN q : p[k] # q[l]
    BY <1>6 DEF ToSet
  <2>2. CASE i \in DOMAIN p /\ (p \o q)[i] = p[i] /\ j \in DOMAIN p /\ (p \o q)[j] = p[j]
    BY <2>2, <1>6 DEF IsInjective
  <2>3. CASE /\ i - Len(p) \in DOMAIN q /\ (p \o q)[i] = q[i - Len(p)]
             /\ j - Len(p) \in DOMAIN q /\ (p \o q)[j] = q[j - Len(p)]
    <3>1. i - Len(p) = j - Len(p)
      BY <2>3, <1>6 DEF IsInjective
    <3>2. QED BY <3>1, <1>1
  <2>4. QED BY <1>2, <1>6, <2>1, <2>2, <2>3
<1>7. QED BY <1>5, <1>6 DEF IsInjective

\* A step does nothing to the values and the stages, or it is one of these.
values == <<buf, ws, slot, closed, stage, outcome, held, got>>

LEMMA StepCases ==
  ASSUME [Next]_vars
  PROVE  \/ UNCHANGED values
         \/ \E o \in Ops : OnStop(o) \/ Destroy(o)
         \/ \E s \in SendOps : SendStep(s)
         \/ \E r \in RecvOps : RecvStep(r)
         \/ \E p \in Polls : PollValue(p) \/ PollEmpty(p)
         \/ ~closed /\ CloseLocked
<1>1. ASSUME NEW o \in Ops, \/ Register(o) \/ Unregister(o) \/ RequestStop(o)
                            \/ FireStopped(o) \/ DestroyEnd(o)
      PROVE  UNCHANGED values
  BY <1>1 DEF Register, Unregister, RequestStop, FireStopped, DestroyEnd, chanVars, values
<1>2. ASSUME NEW a \in Agents, CompletePartner(a) \/ Finish(a)
      PROVE  UNCHANGED values
  BY <1>2 DEF CompletePartner, Finish, chanVars, values
<1>3. ASSUME CloseNext \/ CloneSender \/ DropSender
      PROVE  UNCHANGED values
  BY <1>3 DEF CloseNext, CloneSender, DropSender, chanVars, values
<1>4. ASSUME LastSenderClose \/ SenderClose PROVE ~closed /\ CloseLocked
  BY <1>4 DEF LastSenderClose, SenderClose
<1>5. ASSUME DropReceiver PROVE UNCHANGED values \/ (~closed /\ CloseLocked)
  BY <1>5 DEF DropReceiver, chanVars, values
<1>6. ASSUME UNCHANGED vars \/ Quiescent PROVE UNCHANGED values
  BY <1>6 DEF vars, Quiescent, values
<1>7. QED BY <1>1, <1>2, <1>3, <1>4, <1>5, <1>6 DEF Next

\* A value is buffered or taken once.
ValuesOnce == IsInjective(got) /\ IsInjective(buf) /\ ToSet(got) \cap ToSet(buf) = {}

\* The values in the channel or taken out of it are those whose send was accepted,
\* by its own lock section or by the one that claimed it.
PlacedIsAccepted ==
  \A s \in SendOps : s \in ToSet(buf) \cup ToSet(got)
                       <=> outcome[s] \in {"kDirect", "kAccepted"} \/ stage[s] = "kClaimed"

\* What a lock section decided: nothing before it, the node's stage once it parked.
OutcomeShape ==
  /\ \A a \in Agents : outcome[a] = "none" <=> pc[a] \in {"idle", "registered"}
  /\ \A o \in Ops : outcome[o] = "kQueued" <=> stage[o] # "kInit"
  /\ \A s \in SendOps : outcome[s] \in {"none", "kStopped", "kClosed", "kDirect", "kAccepted", "kQueued"}
  /\ \A r \in RecvOps : outcome[r] \in {"none", "kStopped", "kClosed", "kValue", "kViolation", "kQueued"}
  /\ \A p \in Polls : outcome[p] \in {"none", "kValue", "kEmpty"}

\* The receives that hold a value are those that took one; each value has one holder.
HeldIsTaken ==
  /\ \A a \in RecvOps \cup Polls :
       held[a] # None <=> outcome[a] = "kValue" \/ (a \in RecvOps /\ stage[a] = "kClaimed")
  /\ \A a \in RecvOps \cup Polls : held[a] # None => held[a] \in ToSet(got)
  /\ \A a, b \in RecvOps \cup Polls : held[a] = held[b] /\ held[a] # None => a = b

\* A completion says what the lock section, the stage or the stop callback decided.
Told ==
  \A a \in Agents : signals[a] # <<>> =>
    \/ /\ pc[a] = "done" /\ outcome[a] \notin {"none", "kQueued"}
       /\ signals[a] = <<OwnSignal(a)>>
    \/ /\ a \in Ops /\ stage[a] = "kStopped" /\ signals[a] = <<"stopped">>
    \/ /\ a \in Ops /\ stage[a] \in {"kClaimed", "kClosed"}
       /\ signals[a] = <<PartnerSignal(a)>>

Ledger == ValuesOnce /\ PlacedIsAccepted /\ OutcomeShape /\ HeldIsTaken /\ Told

\* An operation at its lock has decided nothing and is linked nowhere.
LEMMA FreshAtLock ==
  ASSUME IInv, OutcomeShape, NEW o \in Ops, AtLock(o)
  PROVE  /\ stage[o] = "kInit" /\ outcome[o] = "none" /\ signals[o] = <<>>
         /\ pc[o] \in {"idle", "registered"}
<1>1. pc[o] \in {"idle", "registered"}
  BY DEF AtLock
<1>2. QED BY <1>1 DEF IInv, OwnThread, OutcomeShape, Agents

\* A decision changes the outcome and the place of one agent.
LEMMA DecideEffect ==
  ASSUME TypeOK, NEW a \in Agents, NEW result, Decide(a, result)
  PROVE  /\ outcome' = [outcome EXCEPT ![a] = result] /\ outcome'[a] = result
         /\ pc'[a] \in {"decided", "unregistered"}
         /\ \A b \in Agents : b # a => pc'[b] = pc[b] /\ outcome'[b] = outcome[b]
         /\ closed' = closed /\ signals' = signals
<1>1. pc \in [Agents -> PCs] /\ outcome \in [Agents -> Outcomes]
  BY DEF TypeOK
<1>2. QED BY <1>1 DEF Decide

\* A value that is taken was not taken before, and the claimed send's value is placed.
LEMMA TakePlaces ==
  ASSUME IInv, ValuesOnce, PlacedIsAccepted, OutcomeShape,
         NEW a \in RecvOps \cup Polls, Take(a)
  PROVE  /\ ValuesOnce'
         /\ (ToSet(buf) \cup ToSet(got))' = ToSet(buf) \cup ToSet(got) \cup
               (IF ws = <<>> THEN {} ELSE {Head(ws)})
         /\ \E v \in SendOps : /\ v \notin ToSet(got) /\ ToSet(got') = ToSet(got) \cup {v}
                               /\ held' = [held EXCEPT ![a] = v]
<1>0. TypeOK /\ ParkedIsLinked /\ buf \in Seq(SendOps) /\ got \in Seq(SendOps) /\ ws \in Seq(SendOps)
  BY DEF IInv, TypeOK
<1>1. ASSUME ws # <<>>
      PROVE  Head(ws) \in SendOps /\ Head(ws) \notin ToSet(buf) \cup ToSet(got)
  <2>1. Head(ws) \in SendOps /\ stage[Head(ws)] = "kQueued"
    BY <1>0, <1>1, HeadEffect
  <2>2. outcome[Head(ws)] = "kQueued"
    BY <2>1 DEF OutcomeShape, Ops
  <2>3. QED BY <2>1, <2>2 DEF PlacedIsAccepted
<1>2. CASE ws = <<>>
  <2>1. /\ buf # <<>> /\ buf' = Tail(buf) /\ got' = Append(got, Head(buf))
        /\ held' = [held EXCEPT ![a] = Head(buf)]
    BY <1>2 DEF Take, Available
  <2>2. /\ ToSet(buf) = {Head(buf)} \cup ToSet(Tail(buf)) /\ Head(buf) \in SendOps
        /\ IsInjective(Tail(buf)) /\ Head(buf) \notin ToSet(Tail(buf))
    BY <1>0, <2>1, TailElements DEF ValuesOnce
  <2>3. Head(buf) \notin ToSet(got)
    BY <2>2 DEF ValuesOnce
  <2>4. ToSet(got') = ToSet(got) \cup {Head(buf)} /\ IsInjective(got')
    BY <1>0, <2>1, <2>2, <2>3, AppendElements DEF ValuesOnce
  <2>5. IsInjective(buf') /\ ToSet(buf') = ToSet(Tail(buf))
    BY <2>1, <2>2
  <2>6. ValuesOnce'
    BY <2>2, <2>3, <2>4, <2>5 DEF ValuesOnce
  <2>7. QED BY <1>2, <2>1, <2>2, <2>3, <2>4, <2>5, <2>6
<1>3. CASE ws # <<>> /\ buf = <<>>
  <2>1. buf' = buf /\ got' = Append(got, Head(ws)) /\ held' = [held EXCEPT ![a] = Head(ws)]
    BY <1>3 DEF Take
  <2>2. ToSet(got') = ToSet(got) \cup {Head(ws)} /\ IsInjective(got')
    BY <1>0, <1>1, <1>3, <2>1, AppendElements DEF ValuesOnce
  <2>3. ValuesOnce'
    BY <1>1, <1>3, <2>1, <2>2 DEF ValuesOnce
  <2>4. QED BY <1>1, <1>3, <2>1, <2>2, <2>3
<1>4. CASE ws # <<>> /\ buf # <<>>
  <2>1. /\ buf' = Append(Tail(buf), Head(ws)) /\ got' = Append(got, Head(buf))
        /\ held' = [held EXCEPT ![a] = Head(buf)]
    BY <1>4 DEF Take
  <2>2. /\ ToSet(buf) = {Head(buf)} \cup ToSet(Tail(buf)) /\ Head(buf) \in SendOps
        /\ IsInjective(Tail(buf)) /\ Head(buf) \notin ToSet(Tail(buf))
        /\ Tail(buf) \in Seq(SendOps)
    BY <1>0, <1>4, TailElements DEF ValuesOnce
  <2>3. Head(buf) \notin ToSet(got) /\ Head(buf) # Head(ws)
    BY <1>1, <1>4, <2>2 DEF ValuesOnce
  <2>4. ToSet(got') = ToSet(got) \cup {Head(buf)} /\ IsInjective(got')
    BY <1>0, <2>1, <2>2, <2>3, AppendElements DEF ValuesOnce
  <2>5. ToSet(buf') = ToSet(Tail(buf)) \cup {Head(ws)} /\ IsInjective(buf')
    <3>1. Head(ws) \notin ToSet(Tail(buf)) /\ Head(ws) \in SendOps
      BY <1>1, <1>4, <2>2
    <3>2. \A t \in Seq(SendOps), e \in SendOps :
            /\ ToSet(Append(t, e)) = ToSet(t) \cup {e}
            /\ IsInjective(t) /\ e \notin ToSet(t) => IsInjective(Append(t, e))
      BY AppendElements
    <3> DEFINE t == Tail(buf)
               h == Head(ws)
    <3>3. /\ t \in Seq(SendOps) /\ h \in SendOps /\ h \notin ToSet(t) /\ IsInjective(t)
          /\ buf' = Append(t, h)
      BY <3>1, <2>1, <2>2
    <3> HIDE DEF t, h
    <3>4. ToSet(buf') = ToSet(t) \cup {h} /\ IsInjective(buf')
      BY <3>2, <3>3
    <3>5. QED BY <3>4 DEF t, h
  <2>6. ValuesOnce'
    BY <1>1, <1>4, <2>2, <2>3, <2>4, <2>5 DEF ValuesOnce
  <2>7. QED BY <1>1, <1>4, <2>1, <2>2, <2>3, <2>4, <2>5, <2>6
<1>5. QED BY <1>2, <1>3, <1>4

\* A stop or a destruction changes the stage of the queued operation it withdraws.
LEMMA WithdrawEffect ==
  ASSUME TypeOK, NEW o \in Ops, OnStop(o) \/ Destroy(o)
  PROVE  /\ UNCHANGED <<buf, got, held, outcome, closed, pc, signals>>
         /\ \A q \in Ops : \/ stage'[q] = stage[q]
                           \/ q = o /\ stage[q] = "kQueued" /\ stage'[q] \in {"kStopped", "kGone"}
<1>1. stage \in [Ops -> Stages]
  BY DEF TypeOK
<1>2. CASE OnStop(o)
  BY <1>1, <1>2 DEF OnStop
<1>3. CASE Destroy(o)
  BY <1>1, <1>3 DEF Destroy
<1>4. QED BY <1>2, <1>3

\* Ending parked operations without taking their values leaves the accounts as they are.
LEMMA StagesKeepValues ==
  ASSUME ValuesOnce, PlacedIsAccepted, HeldIsTaken,
         UNCHANGED <<buf, got, held, outcome>>,
         \A o \in Ops : \/ stage'[o] = stage[o]
                        \/ stage[o] = "kQueued" /\ stage'[o] \in {"kStopped", "kGone", "kClosed"}
  PROVE  ValuesOnce' /\ PlacedIsAccepted' /\ HeldIsTaken'
<1>1. ValuesOnce'
  BY DEF ValuesOnce
<1>2. \A o \in Ops : stage'[o] = "kClaimed" <=> stage[o] = "kClaimed"
  OBVIOUS
<1>3. PlacedIsAccepted'
  BY <1>2 DEF PlacedIsAccepted, Ops
<1>4. HeldIsTaken'
  BY <1>2 DEF HeldIsTaken, Ops
<1>5. QED BY <1>1, <1>3, <1>4

\* A decision that takes and places nothing leaves the accounts as they are.
LEMMA RefusalKeepsValues ==
  ASSUME IInv, OutcomeShape, ValuesOnce, PlacedIsAccepted, HeldIsTaken,
         NEW a \in Agents, NEW result \in {"kStopped", "kClosed", "kViolation", "kEmpty", "kQueued"},
         outcome[a] = "none", outcome' = [outcome EXCEPT ![a] = result],
         UNCHANGED <<buf, got, held>>,
         \A o \in Ops : \/ stage'[o] = stage[o]
                        \/ stage[o] = "kInit" /\ stage'[o] = "kQueued"
  PROVE  ValuesOnce' /\ PlacedIsAccepted' /\ HeldIsTaken'
<1>1. ValuesOnce'
  BY DEF ValuesOnce
<1>2. outcome \in [Agents -> Outcomes]
  BY DEF IInv, TypeOK
<1>3. \A b \in Agents : /\ outcome'[b] \in {"kDirect", "kAccepted"} <=> outcome[b] \in {"kDirect", "kAccepted"}
                        /\ outcome'[b] = "kValue" <=> outcome[b] = "kValue"
  BY <1>2
<1>4. \A o \in Ops : stage'[o] = "kClaimed" <=> stage[o] = "kClaimed"
  OBVIOUS
<1>5. PlacedIsAccepted'
  BY <1>3, <1>4 DEF PlacedIsAccepted, Ops, Agents
<1>6. HeldIsTaken'
  BY <1>3, <1>4 DEF HeldIsTaken, Ops, Agents
<1>7. QED BY <1>1, <1>5, <1>6

\* A send that reaches its lock.
LEMMA SendKeepsValues ==
  ASSUME IInv, OutcomeShape, ValuesOnce, PlacedIsAccepted, HeldIsTaken,
         NEW s \in SendOps, SendStep(s)
  PROVE  ValuesOnce' /\ PlacedIsAccepted' /\ HeldIsTaken'
<1>0. /\ TypeOK /\ buf \in Seq(SendOps) /\ got \in Seq(SendOps) /\ s \in Ops /\ s \in Agents
      /\ stage \in [Ops -> Stages] /\ outcome \in [Agents -> Outcomes]
      /\ held \in [RecvOps \cup Polls -> SendOps \cup {None}]
      /\ SendOps \cap RecvOps = {} /\ SendOps \cap Polls = {} /\ None \notin SendOps
  BY Constants DEF IInv, TypeOK, Ops, Agents
<1>1. stage[s] = "kInit" /\ outcome[s] = "none"
  BY <1>0, FreshAtLock DEF SendStep, SendStopped, SendClosed, SendDirect, SendBuffered, SendParked, AtSend
<1>2. s \notin ToSet(buf) \cup ToSet(got)
  BY <1>1 DEF PlacedIsAccepted
<1>3. CASE SendStopped(s)
  BY <1>0, <1>1, <1>3, RefusalKeepsValues DEF SendStopped, Decide
<1>4. CASE SendClosed(s)
  BY <1>0, <1>1, <1>4, RefusalKeepsValues DEF SendClosed, Decide
<1>5. CASE SendParked(s)
  BY <1>0, <1>1, <1>5, RefusalKeepsValues DEF SendParked
<1>6. CASE SendBuffered(s)
  <2>1. /\ buf' = Append(buf, s) /\ got' = got /\ held' = held /\ stage' = stage
        /\ outcome' = [outcome EXCEPT ![s] = "kAccepted"]
    BY <1>6 DEF SendBuffered, Decide
  <2>2. ToSet(buf') = ToSet(buf) \cup {s} /\ IsInjective(buf')
    BY <1>0, <1>2, <2>1, AppendElements DEF ValuesOnce
  <2>3. ValuesOnce'
    BY <1>2, <2>1, <2>2 DEF ValuesOnce
  <2>4. PlacedIsAccepted'
    BY <1>0, <2>1, <2>2 DEF PlacedIsAccepted, Agents, Ops
  <2>5. HeldIsTaken'
    BY <1>0, <2>1 DEF HeldIsTaken, Agents, Ops
  <2>6. QED BY <2>3, <2>4, <2>5
<1>7. CASE SendDirect(s)
  <2>1. /\ slot # None /\ slot \in RecvOps /\ buf' = buf
        /\ stage' = [stage EXCEPT ![slot] = "kClaimed"]
        /\ held' = [held EXCEPT ![slot] = s] /\ got' = Append(got, s)
        /\ outcome' = [outcome EXCEPT ![s] = "kDirect"]
    BY <1>0, <1>7 DEF SendDirect, Decide, TypeOK
  <2>2. ToSet(got') = ToSet(got) \cup {s} /\ IsInjective(got')
    BY <1>0, <1>2, <2>1, AppendElements DEF ValuesOnce
  <2>3. ValuesOnce'
    BY <1>2, <2>1, <2>2 DEF ValuesOnce
  <2>4. PlacedIsAccepted'
    <3>1. \A q \in SendOps : stage'[q] = stage[q] /\ (q # s => outcome'[q] = outcome[q])
      BY <1>0, <2>1 DEF Ops, Agents
    <3>2. outcome'[s] = "kDirect"
      BY <1>0, <2>1
    <3>3. QED BY <2>1, <2>2, <3>1, <3>2 DEF PlacedIsAccepted
  <2>5. HeldIsTaken'
    <3>1. \A a \in RecvOps \cup Polls : outcome'[a] = outcome[a]
      BY <1>0, <2>1 DEF Agents, Ops
    <3>2. \A a \in RecvOps : stage'[a] = IF a = slot THEN "kClaimed" ELSE stage[a]
      BY <1>0, <2>1 DEF Ops
    <3>3. \A a \in RecvOps \cup Polls : held'[a] = IF a = slot THEN s ELSE held[a]
      BY <1>0, <2>1
    <3>4. \A a \in RecvOps \cup Polls : held[a] # s
      BY <1>0, <1>2 DEF HeldIsTaken
    <3>5. \A a \in RecvOps \cup Polls :
            held'[a] # None <=> outcome'[a] = "kValue" \/ (a \in RecvOps /\ stage'[a] = "kClaimed")
      BY <1>0, <2>1, <3>1, <3>2, <3>3 DEF HeldIsTaken
    <3>6. \A a \in RecvOps \cup Polls : held'[a] # None => held'[a] \in ToSet(got')
      BY <2>2, <3>3 DEF HeldIsTaken
    <3>7. \A a, b \in RecvOps \cup Polls : held'[a] = held'[b] /\ held'[a] # None => a = b
      BY <3>3, <3>4 DEF HeldIsTaken
    <3>8. QED BY <3>5, <3>6, <3>7 DEF HeldIsTaken
  <2>6. QED BY <2>3, <2>4, <2>5
<1>8. QED BY <1>3, <1>4, <1>5, <1>6, <1>7 DEF SendStep

\* A receive or a poll that takes a value.
LEMMA TakeKeepsValues ==
  ASSUME IInv, OutcomeShape, ValuesOnce, PlacedIsAccepted, HeldIsTaken,
         NEW a \in RecvOps \cup Polls, Take(a), outcome[a] = "none",
         outcome' = [outcome EXCEPT ![a] = "kValue"]
  PROVE  ValuesOnce' /\ PlacedIsAccepted' /\ HeldIsTaken'
<1>0. /\ TypeOK /\ ParkedIsLinked /\ a \in Agents
      /\ stage \in [Ops -> Stages] /\ outcome \in [Agents -> Outcomes]
      /\ held \in [RecvOps \cup Polls -> SendOps \cup {None}]
      /\ SendOps \cap RecvOps = {} /\ SendOps \cap Polls = {} /\ None \notin SendOps
  BY Constants DEF IInv, TypeOK, Ops, Agents
<1>1. /\ ValuesOnce'
      /\ (ToSet(buf) \cup ToSet(got))' = ToSet(buf) \cup ToSet(got) \cup
            (IF ws = <<>> THEN {} ELSE {Head(ws)})
  BY TakePlaces
<1>2. PICK v \in SendOps : /\ v \notin ToSet(got) /\ ToSet(got') = ToSet(got) \cup {v}
                           /\ held' = [held EXCEPT ![a] = v]
  BY TakePlaces
<1>3. \A b \in Agents : outcome'[b] = IF b = a THEN "kValue" ELSE outcome[b]
  BY <1>0
<1>4. \A q \in SendOps : outcome'[q] = outcome[q]
  BY <1>0, <1>3 DEF Agents, Ops
<1>5. \A q \in Ops : stage'[q] = "kClaimed" <=> stage[q] = "kClaimed" \/ (ws # <<>> /\ q = Head(ws))
  <2>1. CASE ws = <<>>
    BY <2>1 DEF Take
  <2>2. CASE ws # <<>>
    BY <1>0, <2>2 DEF Take
  <2>3. QED BY <2>1, <2>2
<1>6. ws # <<>> => Head(ws) \in SendOps
  BY <1>0, HeadEffect
<1>7. PlacedIsAccepted'
  BY <1>1, <1>4, <1>5 DEF PlacedIsAccepted, Ops
<1>8. HeldIsTaken'
  <2>1. \A b \in RecvOps \cup Polls : held'[b] = IF b = a THEN v ELSE held[b]
    BY <1>0, <1>2
  <2>2. \A b \in RecvOps \cup Polls : held[b] # v
    BY <1>0, <1>2 DEF HeldIsTaken
  <2>3. \A b \in RecvOps : stage'[b] = "kClaimed" <=> stage[b] = "kClaimed"
    BY <1>0, <1>5, <1>6 DEF Ops
  <2>4. \A b \in RecvOps \cup Polls : outcome'[b] = IF b = a THEN "kValue" ELSE outcome[b]
    BY <1>3 DEF Agents, Ops
  <2>5. \A b \in RecvOps \cup Polls :
          held'[b] # None <=> outcome'[b] = "kValue" \/ (b \in RecvOps /\ stage'[b] = "kClaimed")
    BY <1>0, <2>1, <2>3, <2>4 DEF HeldIsTaken
  <2>6. \A b \in RecvOps \cup Polls : held'[b] # None => held'[b] \in ToSet(got')
    BY <1>2, <2>1 DEF HeldIsTaken
  <2>7. \A b, c \in RecvOps \cup Polls : held'[b] = held'[c] /\ held'[b] # None => b = c
    BY <2>1, <2>2 DEF HeldIsTaken
  <2>8. QED BY <2>5, <2>6, <2>7 DEF HeldIsTaken
<1>9. QED BY <1>1, <1>7, <1>8

\* Every step keeps the accounts of the values and of their holders.
LEMMA ValuesStep ==
  ASSUME IInv, Ledger, [Next]_vars
  PROVE  ValuesOnce' /\ PlacedIsAccepted' /\ HeldIsTaken'
<1> USE DEF Ledger
<1>0. TypeOK /\ ParkedIsLinked /\ SendOps \cap RecvOps = {}
  BY Constants DEF IInv
<1>1. CASE UNCHANGED values
  BY <1>1, StagesKeepValues DEF values
<1>2. ASSUME NEW o \in Ops, OnStop(o) \/ Destroy(o)
      PROVE  ValuesOnce' /\ PlacedIsAccepted' /\ HeldIsTaken'
  BY <1>0, <1>2, WithdrawEffect, StagesKeepValues
<1>3. ASSUME NEW s \in SendOps, SendStep(s)
      PROVE  ValuesOnce' /\ PlacedIsAccepted' /\ HeldIsTaken'
  BY <1>3, SendKeepsValues
<1>4. ASSUME NEW r \in RecvOps, RecvStep(r)
      PROVE  ValuesOnce' /\ PlacedIsAccepted' /\ HeldIsTaken'
  <2>1. r \in Ops /\ r \in Agents /\ stage \in [Ops -> Stages]
    BY <1>0 DEF TypeOK, Ops, Agents
  <2>2. stage[r] = "kInit" /\ outcome[r] = "none"
    BY <1>4, <2>1, FreshAtLock
       DEF RecvStep, RecvStopped, RecvValue, RecvClosed, RecvViolation, RecvParked
  <2>3. CASE RecvStopped(r)
    BY <2>1, <2>2, <2>3, RefusalKeepsValues DEF RecvStopped, Decide
  <2>4. CASE RecvClosed(r)
    BY <2>1, <2>2, <2>4, RefusalKeepsValues DEF RecvClosed, Decide
  <2>5. CASE RecvViolation(r)
    BY <2>1, <2>2, <2>5, RefusalKeepsValues DEF RecvViolation, Decide
  <2>6. CASE RecvParked(r)
    BY <2>1, <2>2, <2>6, RefusalKeepsValues DEF RecvParked
  <2>7. CASE RecvValue(r)
    BY <2>2, <2>7, TakeKeepsValues DEF RecvValue, Decide
  <2>8. QED BY <1>4, <2>3, <2>4, <2>5, <2>6, <2>7 DEF RecvStep
<1>5. ASSUME NEW p \in Polls, PollValue(p) \/ PollEmpty(p)
      PROVE  ValuesOnce' /\ PlacedIsAccepted' /\ HeldIsTaken'
  <2>1. p \in Agents /\ outcome[p] = "none"
    BY <1>5 DEF PollValue, PollEmpty, OutcomeShape, Agents
  <2>2. CASE PollValue(p)
    BY <2>1, <2>2, TakeKeepsValues DEF PollValue, Decide
  <2>3. CASE PollEmpty(p)
    BY <2>1, <2>3, RefusalKeepsValues DEF PollEmpty, Decide
  <2>4. QED BY <1>5, <2>2, <2>3
<1>6. CASE CloseLocked
  <2>1. \A o \in Ops : stage'[o] = IF stage[o] = "kQueued" THEN "kClosed" ELSE stage[o]
    BY <1>0, <1>6, CloseEffect
  <2>2. UNCHANGED <<buf, got, held, outcome>>
    BY <1>6 DEF CloseLocked
  <2>3. QED BY <2>1, <2>2, StagesKeepValues
<1>7. QED BY <1>1, <1>2, <1>3, <1>4, <1>5, <1>6, StepCases

\* A decision keeps the shape of the outcomes.
LEMMA DecideKeepsShape ==
  ASSUME IInv, OutcomeShape, NEW a \in Agents, NEW result, Decide(a, result),
         outcome[a] = "none", result \notin {"none", "kQueued"},
         a \in SendOps => result \in {"kStopped", "kClosed", "kDirect", "kAccepted"},
         a \in RecvOps => result \in {"kStopped", "kClosed", "kValue", "kViolation"},
         a \in Polls => result \in {"kValue", "kEmpty"},
         \A o \in Ops : stage'[o] = stage[o] \/ (stage[o] = "kQueued" /\ stage'[o] = "kClaimed")
  PROVE  OutcomeShape'
<1>1. /\ outcome'[a] = result /\ pc'[a] \in {"decided", "unregistered"}
      /\ \A b \in Agents : b # a => pc'[b] = pc[b] /\ outcome'[b] = outcome[b]
  BY DecideEffect DEF IInv
<1>2. SendOps \cap RecvOps = {} /\ SendOps \cap Polls = {} /\ RecvOps \cap Polls = {}
  BY Constants
<1>3. \A b \in Agents : outcome'[b] = "none" <=> pc'[b] \in {"idle", "registered"}
  BY <1>1 DEF OutcomeShape
<1>4. \A o \in Ops : outcome'[o] = "kQueued" <=> stage'[o] # "kInit"
  <2>1. \A o \in Ops : stage'[o] = "kInit" <=> stage[o] = "kInit"
    OBVIOUS
  <2>2. \A o \in Ops : outcome'[o] = "kQueued" <=> outcome[o] = "kQueued"
    BY <1>1 DEF Agents
  <2>3. QED BY <2>1, <2>2 DEF OutcomeShape
<1>5. QED BY <1>1, <1>2, <1>3, <1>4 DEF OutcomeShape, Agents, Ops

\* Parking an operation keeps the shape of the outcomes.
LEMMA ParkKeepsShape ==
  ASSUME IInv, OutcomeShape, NEW o \in Ops, outcome[o] = "none",
         outcome' = [outcome EXCEPT ![o] = "kQueued"], pc' = [pc EXCEPT ![o] = "parked"],
         stage' = [stage EXCEPT ![o] = "kQueued"]
  PROVE  OutcomeShape'
<1>1. /\ pc \in [Agents -> PCs] /\ outcome \in [Agents -> Outcomes]
      /\ stage \in [Ops -> Stages] /\ o \in Agents
  BY DEF IInv, TypeOK, Agents
<1>2. /\ outcome'[o] = "kQueued" /\ pc'[o] = "parked" /\ stage'[o] = "kQueued"
      /\ \A b \in Agents : b # o => pc'[b] = pc[b] /\ outcome'[b] = outcome[b]
      /\ \A q \in Ops : q # o => stage'[q] = stage[q]
  BY <1>1
<1>3. o \notin Polls
  BY Constants DEF Ops
<1>4. QED BY <1>2, <1>3 DEF OutcomeShape, Agents, Ops

\* Ending operations that had parked keeps the shape of the outcomes.
LEMMA StagesKeepShape ==
  ASSUME OutcomeShape, UNCHANGED <<outcome, pc>>,
         \A o \in Ops : stage'[o] = stage[o] \/ (stage[o] = "kQueued" /\ stage'[o] # "kInit")
  PROVE  OutcomeShape'
<1>1. \A o \in Ops : stage'[o] = "kInit" <=> stage[o] = "kInit"
  OBVIOUS
<1>2. QED BY <1>1 DEF OutcomeShape

\* An agent's thread that walks on after its decision keeps the shape of the outcomes.
LEMMA WalkKeepsShape ==
  ASSUME IInv, OutcomeShape, NEW a \in Agents, NEW to, UNCHANGED <<outcome, stage>>,
         pc' = [pc EXCEPT ![a] = to],
         to \in {"idle", "registered"} <=> pc[a] \in {"idle", "registered"}
  PROVE  OutcomeShape'
<1>1. pc \in [Agents -> PCs]
  BY DEF IInv, TypeOK
<1>2. \A b \in Agents : pc'[b] \in {"idle", "registered"} <=> pc[b] \in {"idle", "registered"}
  BY <1>1
<1>3. QED BY <1>2 DEF OutcomeShape

\* Every step keeps OutcomeShape.
LEMMA ShapeStep ==
  ASSUME IInv, Ledger, [Next]_vars PROVE OutcomeShape'
<1> USE DEF Ledger
<1>0. TypeOK /\ ParkedIsLinked
  BY DEF IInv
<1>1. ASSUME NEW o \in Ops, Register(o) \/ Unregister(o) \/ DestroyEnd(o) PROVE OutcomeShape'
  <2>1. o \in Agents
    BY DEF Agents
  <2>2. CASE Register(o)
    BY <2>1, <2>2, WalkKeepsShape DEF Register, chanVars
  <2>3. CASE Unregister(o)
    BY <2>1, <2>3, WalkKeepsShape DEF Unregister, chanVars
  <2>4. CASE DestroyEnd(o)
    <3>1. outcome[o] = "kQueued"
      BY <2>4 DEF DestroyEnd, OutcomeShape
    <3>2. pc[o] \notin {"idle", "registered"}
      BY <2>1, <3>1 DEF OutcomeShape
    <3>3. QED BY <2>1, <2>4, <3>2, WalkKeepsShape DEF DestroyEnd, chanVars
  <2>5. QED BY <1>1, <2>2, <2>3, <2>4
<1>2. ASSUME NEW o \in Ops, RequestStop(o) \/ FireStopped(o) PROVE OutcomeShape'
  BY <1>2, StagesKeepShape DEF RequestStop, FireStopped, chanVars
<1>3. ASSUME NEW o \in Ops, OnStop(o) \/ Destroy(o) PROVE OutcomeShape'
  BY <1>0, <1>3, WithdrawEffect, StagesKeepShape
<1>4. ASSUME NEW s \in SendOps, SendStep(s) PROVE OutcomeShape'
  <2>1. s \in Ops /\ s \in Agents /\ s \notin RecvOps /\ s \notin Polls
    BY Constants DEF Ops, Agents
  <2>2. stage[s] = "kInit" /\ outcome[s] = "none"
    BY <1>4, <2>1, FreshAtLock
       DEF SendStep, SendStopped, SendClosed, SendDirect, SendBuffered, SendParked, AtSend
  <2>3. CASE SendStopped(s)
    BY <2>1, <2>2, <2>3, DecideKeepsShape DEF SendStopped
  <2>4. CASE SendClosed(s)
    BY <2>1, <2>2, <2>4, DecideKeepsShape DEF SendClosed
  <2>5. CASE SendDirect(s)
    <3>1. slot \in RecvOps /\ stage[slot] = "kQueued"
      BY <1>0, <2>5 DEF SendDirect, TypeOK, ParkedIsLinked
    <3>2. \A o \in Ops : stage'[o] = stage[o] \/ (stage[o] = "kQueued" /\ stage'[o] = "kClaimed")
      BY <1>0, <2>5, <3>1 DEF SendDirect, TypeOK
    <3>3. QED BY <2>1, <2>2, <2>5, <3>2, DecideKeepsShape DEF SendDirect
  <2>6. CASE SendBuffered(s)
    BY <2>1, <2>2, <2>6, DecideKeepsShape DEF SendBuffered
  <2>7. CASE SendParked(s)
    BY <2>1, <2>2, <2>7, ParkKeepsShape DEF SendParked
  <2>8. QED BY <1>4, <2>3, <2>4, <2>5, <2>6, <2>7 DEF SendStep
<1>5. ASSUME NEW r \in RecvOps, RecvStep(r) PROVE OutcomeShape'
  <2>1. r \in Ops /\ r \in Agents /\ r \notin SendOps /\ r \notin Polls
    BY Constants DEF Ops, Agents
  <2>2. stage[r] = "kInit" /\ outcome[r] = "none"
    BY <1>5, <2>1, FreshAtLock
       DEF RecvStep, RecvStopped, RecvValue, RecvClosed, RecvViolation, RecvParked
  <2>3. CASE RecvStopped(r)
    BY <2>1, <2>2, <2>3, DecideKeepsShape DEF RecvStopped
  <2>4. CASE RecvClosed(r)
    BY <2>1, <2>2, <2>4, DecideKeepsShape DEF RecvClosed
  <2>5. CASE RecvViolation(r)
    BY <2>1, <2>2, <2>5, DecideKeepsShape DEF RecvViolation
  <2>6. CASE RecvParked(r)
    BY <2>1, <2>2, <2>6, ParkKeepsShape DEF RecvParked
  <2>7. CASE RecvValue(r)
    <3>1. \A o \in Ops : stage'[o] = stage[o] \/ (stage[o] = "kQueued" /\ stage'[o] = "kClaimed")
      BY <2>7, TakeStages DEF RecvValue
    <3>2. QED BY <2>1, <2>2, <2>7, <3>1, DecideKeepsShape DEF RecvValue
  <2>8. QED BY <1>5, <2>3, <2>4, <2>5, <2>6, <2>7 DEF RecvStep
<1>6. ASSUME NEW p \in Polls, PollValue(p) \/ PollEmpty(p) PROVE OutcomeShape'
  <2>1. p \in Agents /\ p \notin SendOps /\ p \notin RecvOps /\ outcome[p] = "none"
    BY <1>6, Constants DEF PollValue, PollEmpty, OutcomeShape, Agents
  <2>2. CASE PollValue(p)
    <3>1. \A o \in Ops : stage'[o] = stage[o] \/ (stage[o] = "kQueued" /\ stage'[o] = "kClaimed")
      BY <2>2, TakeStages DEF PollValue
    <3>2. QED BY <2>1, <2>2, <3>1, DecideKeepsShape DEF PollValue
  <2>3. CASE PollEmpty(p)
    BY <2>1, <2>3, DecideKeepsShape DEF PollEmpty
  <2>4. QED BY <1>6, <2>2, <2>3
<1>7. ASSUME NEW a \in Agents, CompletePartner(a) \/ Finish(a) PROVE OutcomeShape'
  <2>1. CASE CompletePartner(a)
    BY <2>1, StagesKeepShape DEF CompletePartner, chanVars
  <2>2. CASE Finish(a)
    BY <2>2, WalkKeepsShape DEF Finish, chanVars
  <2>3. QED BY <1>7, <2>1, <2>2
<1>8. ASSUME CloseNext \/ CloneSender \/ DropSender PROVE OutcomeShape'
  BY <1>8, StagesKeepShape DEF CloseNext, CloneSender, DropSender, chanVars
<1>9. ASSUME CloseLocked PROVE OutcomeShape'
  <2>1. \A o \in Ops : stage'[o] = IF stage[o] = "kQueued" THEN "kClosed" ELSE stage[o]
    BY <1>0, <1>9, CloseEffect
  <2>2. QED BY <1>9, <2>1, StagesKeepShape DEF CloseLocked
<1>10. ASSUME LastSenderClose \/ SenderClose \/ DropReceiver PROVE OutcomeShape'
  <2>1. CloseLocked \/ UNCHANGED <<stage, outcome, pc>>
    BY <1>10 DEF LastSenderClose, SenderClose, DropReceiver, chanVars
  <2>2. QED BY <1>9, <2>1, StagesKeepShape
<1>11. CASE UNCHANGED vars
  BY <1>11, StagesKeepShape DEF vars
<1>12. QED
  BY <1>1, <1>2, <1>3, <1>4, <1>5, <1>6, <1>7, <1>8, <1>10, <1>11 DEF Next, Quiescent

\* An agent that was told something is left as it is by every step that tells nothing.
LEMMA SilenceKeepsTold ==
  ASSUME Told, UNCHANGED signals,
         \A a \in Agents : signals[a] # <<>> => pc'[a] = pc[a] /\ outcome'[a] = outcome[a],
         \A o \in Ops : signals[o] # <<>> => stage'[o] = stage[o]
  PROVE  Told'
<1> SUFFICES ASSUME NEW a \in Agents, signals[a] # <<>>
             PROVE  \/ /\ pc'[a] = "done" /\ outcome'[a] \notin {"none", "kQueued"}
                       /\ signals[a] = <<OwnSignal(a)'>>
                    \/ /\ a \in Ops /\ stage'[a] = "kStopped" /\ signals[a] = <<"stopped">>
                    \/ /\ a \in Ops /\ stage'[a] \in {"kClaimed", "kClosed"}
                       /\ signals[a] = <<PartnerSignal(a)'>>
  BY DEF Told
<1>1. pc'[a] = pc[a] /\ outcome'[a] = outcome[a] /\ (a \in Ops => stage'[a] = stage[a])
  OBVIOUS
<1>2. OwnSignal(a)' = OwnSignal(a)
  BY <1>1 DEF OwnSignal
<1>3. a \in Ops => PartnerSignal(a)' = PartnerSignal(a)
  BY <1>1 DEF PartnerSignal
<1>4. QED BY <1>1, <1>2, <1>3 DEF Told

\* Telling an agent for the first time what it is owed.
LEMMA TellingKeepsTold ==
  ASSUME IInv, Told, NEW a \in Agents, NEW what, signals[a] = <<>>,
         signals' = [signals EXCEPT ![a] = Append(@, what)], UNCHANGED <<outcome, stage>>,
         \A b \in Agents : b # a => pc'[b] = pc[b],
         \/ pc'[a] = "done" /\ outcome[a] \notin {"none", "kQueued"} /\ what = OwnSignal(a)
         \/ a \in Ops /\ stage[a] = "kStopped" /\ what = "stopped"
         \/ a \in Ops /\ stage[a] \in {"kClaimed", "kClosed"} /\ what = PartnerSignal(a)
  PROVE  Told'
<1>1. /\ \A b \in Agents : OwnSignal(b)' = OwnSignal(b)
      /\ \A b \in Agents : PartnerSignal(b)' = PartnerSignal(b)
  BY DEF OwnSignal, PartnerSignal
<1>2. signals'[a] = <<what>> /\ \A b \in Agents : b # a => signals'[b] = signals[b]
  <2>1. signals \in [Agents -> Seq(Signals)] /\ Append(<<>>, what) = <<what>>
    BY DEF IInv, TypeOK
  <2>2. QED BY <2>1
<1>3. ASSUME NEW b \in Agents, signals'[b] # <<>>
      PROVE  \/ /\ pc'[b] = "done" /\ outcome'[b] \notin {"none", "kQueued"}
                /\ signals'[b] = <<OwnSignal(b)'>>
             \/ /\ b \in Ops /\ stage'[b] = "kStopped" /\ signals'[b] = <<"stopped">>
             \/ /\ b \in Ops /\ stage'[b] \in {"kClaimed", "kClosed"}
                /\ signals'[b] = <<PartnerSignal(b)'>>
  <2>1. CASE b = a
    BY <1>1, <1>2, <2>1
  <2>2. CASE b # a
    BY <1>1, <1>2, <1>3, <2>2 DEF Told
  <2>3. QED BY <2>1, <2>2
<1>4. QED BY <1>3 DEF Told

\* A lock section that did not park tells nobody.
LEMMA DecideKeepsTold ==
  ASSUME IInv, Ledger, NEW a \in Agents, NEW result, Decide(a, result),
         pc[a] \in {"idle", "registered"},
         \A o \in Ops : stage'[o] = stage[o] \/ stage[o] = "kQueued"
  PROVE  Told'
<1>1. /\ \A b \in Agents : b # a => pc'[b] = pc[b] /\ outcome'[b] = outcome[b]
      /\ signals' = signals
  BY DecideEffect DEF IInv
<1>2. signals[a] = <<>>
  <2>1. CASE a \in Ops
    BY <2>1 DEF IInv, OwnThread
  <2>2. CASE a \notin Ops
    BY <2>2 DEF Ledger, Told
  <2>3. QED BY <2>1, <2>2
<1>3. \A o \in Ops : stage[o] = "kQueued" => signals[o] = <<>>
  BY DEF IInv, OwnThread
<1>4. QED BY <1>1, <1>2, <1>3, SilenceKeepsTold DEF Ledger

\* Parking an operation tells nobody.
LEMMA ParkKeepsTold ==
  ASSUME IInv, Ledger, NEW o \in Ops, pc[o] \in {"idle", "registered"},
         pc' = [pc EXCEPT ![o] = "parked"], outcome' = [outcome EXCEPT ![o] = "kQueued"],
         stage' = [stage EXCEPT ![o] = "kQueued"], UNCHANGED signals
  PROVE  Told'
<1>1. signals[o] = <<>> /\ o \in Agents
  BY DEF IInv, OwnThread, Agents
<1>2. /\ \A a \in Agents : a # o => pc'[a] = pc[a] /\ outcome'[a] = outcome[a]
      /\ \A q \in Ops : q # o => stage'[q] = stage[q]
  BY DEF IInv, TypeOK
<1>3. QED BY <1>1, <1>2, SilenceKeepsTold DEF Ledger

\* Every step keeps Told.
LEMMA ToldStep ==
  ASSUME IInv, Ledger, [Next]_vars PROVE Told'
<1> USE DEF Ledger
<1>0. /\ TypeOK /\ ParkedIsLinked /\ pc \in [Agents -> PCs]
      /\ \A o \in Ops : o \in Agents /\ (stage[o] = "kQueued" => signals[o] = <<>>)
  BY DEF IInv, TypeOK, OwnThread, Agents
<1>1. ASSUME NEW o \in Ops, Register(o) \/ Unregister(o) PROVE Told'
  <2>1. signals[o] = <<>>
    BY <1>1 DEF Register, Unregister, IInv, OwnThread
  <2>2. /\ \A a \in Agents : a # o => pc'[a] = pc[a]
        /\ UNCHANGED <<signals, outcome, stage>>
    BY <1>0, <1>1 DEF Register, Unregister, chanVars
  <2>3. QED BY <2>1, <2>2, SilenceKeepsTold
<1>2. ASSUME NEW o \in Ops, DestroyEnd(o) PROVE Told'
  <2>1. signals[o] = <<>>
    BY <1>2 DEF DestroyEnd, IInv, CompletesAtMostOnce
  <2>2. /\ \A a \in Agents : a # o => pc'[a] = pc[a]
        /\ UNCHANGED <<signals, outcome, stage>>
    BY <1>0, <1>2 DEF DestroyEnd, chanVars
  <2>3. QED BY <2>1, <2>2, SilenceKeepsTold
<1>3. ASSUME NEW o \in Ops, RequestStop(o) PROVE Told'
  BY <1>3, SilenceKeepsTold DEF RequestStop, chanVars
<1>4. ASSUME NEW o \in Ops, FireStopped(o) PROVE Told'
  <2>1. Owing(o, "kStopped")
    BY <1>4 DEF FireStopped, IInv, CompletionOwed
  <2>2. QED BY <1>0, <1>4, <2>1, TellingKeepsTold DEF FireStopped, chanVars, Owing
<1>5. ASSUME NEW o \in Ops, OnStop(o) \/ Destroy(o) PROVE Told'
  BY <1>0, <1>5, WithdrawEffect, SilenceKeepsTold
<1>6. ASSUME NEW s \in SendOps, SendStep(s) PROVE Told'
  <2>1. s \in Ops /\ s \in Agents
    BY DEF Ops, Agents
  <2>2. pc[s] \in {"idle", "registered"}
    BY <1>6, <2>1, FreshAtLock
       DEF SendStep, SendStopped, SendClosed, SendDirect, SendBuffered, SendParked, AtSend
  <2>3. CASE SendStopped(s) \/ SendClosed(s) \/ SendBuffered(s)
    BY <2>1, <2>2, <2>3, DecideKeepsTold DEF SendStopped, SendClosed, SendBuffered
  <2>4. CASE SendDirect(s)
    <3>1. stage[slot] = "kQueued"
      BY <1>0, <2>4 DEF SendDirect, TypeOK, ParkedIsLinked
    <3>2. \A o \in Ops : stage'[o] = stage[o] \/ stage[o] = "kQueued"
      BY <1>0, <2>4, <3>1 DEF SendDirect, TypeOK
    <3>3. QED BY <2>1, <2>2, <2>4, <3>2, DecideKeepsTold DEF SendDirect
  <2>5. CASE SendParked(s)
    BY <2>1, <2>2, <2>5, ParkKeepsTold DEF SendParked
  <2>6. QED BY <1>6, <2>3, <2>4, <2>5 DEF SendStep
<1>7. ASSUME NEW r \in RecvOps, RecvStep(r) PROVE Told'
  <2>1. r \in Ops /\ r \in Agents
    BY DEF Ops, Agents
  <2>2. pc[r] \in {"idle", "registered"}
    BY <1>7, <2>1, FreshAtLock
       DEF RecvStep, RecvStopped, RecvValue, RecvClosed, RecvViolation, RecvParked
  <2>3. CASE RecvStopped(r) \/ RecvClosed(r) \/ RecvViolation(r)
    BY <2>1, <2>2, <2>3, DecideKeepsTold DEF RecvStopped, RecvClosed, RecvViolation
  <2>4. CASE RecvValue(r)
    <3>1. \A o \in Ops : stage'[o] = stage[o] \/ stage[o] = "kQueued"
      BY <2>4, TakeStages DEF RecvValue
    <3>2. QED BY <2>1, <2>2, <2>4, <3>1, DecideKeepsTold DEF RecvValue
  <2>5. CASE RecvParked(r)
    BY <2>1, <2>2, <2>5, ParkKeepsTold DEF RecvParked
  <2>6. QED BY <1>7, <2>3, <2>4, <2>5 DEF RecvStep
<1>8. ASSUME NEW p \in Polls, PollValue(p) \/ PollEmpty(p) PROVE Told'
  <2>1. p \in Agents /\ pc[p] = "idle"
    BY <1>8 DEF PollValue, PollEmpty, Agents
  <2>2. \A o \in Ops : stage'[o] = stage[o] \/ stage[o] = "kQueued"
    BY <1>8, TakeStages DEF PollValue, PollEmpty
  <2>3. QED BY <1>8, <2>1, <2>2, DecideKeepsTold DEF PollValue, PollEmpty
<1>9. ASSUME NEW a \in Agents, CompletePartner(a) PROVE Told'
  <2>1. owes[a] \in Ops /\ Owing(owes[a], "kClaimed")
    BY <1>0, <1>9 DEF CompletePartner, IInv, CompletionOwed, TypeOK
  <2>2. QED BY <1>0, <1>9, <2>1, TellingKeepsTold DEF CompletePartner, Complete, chanVars, Owing
<1>10. ASSUME NEW a \in Agents, Finish(a) PROVE Told'
  <2>1. pc[a] = "unregistered" /\ pc' = [pc EXCEPT ![a] = "done"]
        /\ signals' = [signals EXCEPT ![a] = Append(@, OwnSignal(a))]
        /\ UNCHANGED <<outcome, stage>>
    BY <1>10 DEF Finish, chanVars
  <2>2. signals[a] = <<>> /\ outcome[a] \notin {"none", "kQueued"}
    <3>1. outcome[a] # "none"
      BY <2>1 DEF OutcomeShape
    <3>2. CASE a \in Ops
      BY <2>1, <3>1, <3>2 DEF IInv, OwnThread, OutcomeShape
    <3>3. CASE a \in Polls
      <4>1. a \notin Ops
        BY <3>3, Constants DEF Ops
      <4>2. QED BY <2>1, <3>1, <3>3, <4>1 DEF Told, OutcomeShape
    <3>4. QED BY <3>2, <3>3 DEF Agents
  <2>3. pc'[a] = "done" /\ \A b \in Agents : b # a => pc'[b] = pc[b]
    BY <1>0, <2>1
  <2>4. QED BY <2>1, <2>2, <2>3, TellingKeepsTold
<1>11. ASSUME CloseNext PROVE Told'
  <2>1. /\ closeList # <<>> /\ Complete(Head(closeList))
        /\ UNCHANGED <<pc, outcome, stage>>
    BY <1>11 DEF CloseNext
  <2>2. /\ Head(closeList) \in Ops /\ 1 \in DOMAIN closeList /\ Head(closeList) = closeList[1]
    BY <1>0, <2>1, HeadTailProperties DEF TypeOK
  <2>3. Owing(Head(closeList), "kClosed")
    BY <2>2 DEF IInv, CompletionOwed
  <2>4. QED BY <1>0, <2>1, <2>2, <2>3, TellingKeepsTold DEF Complete, Owing
<1>12. ASSUME CloneSender \/ DropSender PROVE Told'
  BY <1>12, SilenceKeepsTold DEF CloneSender, DropSender, chanVars
<1>13. ASSUME CloseLocked PROVE Told'
  <2>1. \A o \in Ops : stage'[o] = IF stage[o] = "kQueued" THEN "kClosed" ELSE stage[o]
    BY <1>0, <1>13, CloseEffect
  <2>2. QED BY <1>0, <1>13, <2>1, SilenceKeepsTold DEF CloseLocked
<1>14. ASSUME LastSenderClose \/ SenderClose \/ DropReceiver PROVE Told'
  <2>1. CloseLocked \/ UNCHANGED <<stage, outcome, pc, signals>>
    BY <1>14 DEF LastSenderClose, SenderClose, DropReceiver, chanVars
  <2>2. QED BY <1>13, <2>1, SilenceKeepsTold
<1>15. CASE UNCHANGED vars
  BY <1>15, SilenceKeepsTold DEF vars
<1>16. QED
  BY <1>1, <1>2, <1>3, <1>4, <1>5, <1>6, <1>7, <1>8, <1>9, <1>10, <1>11, <1>12, <1>14, <1>15 DEF Next, Quiescent

\* The ledger of a fresh State is empty.
LEMMA InitLedger == Init => Ledger
<1> SUFFICES ASSUME Init PROVE Ledger
  OBVIOUS
<1>1. ToSet(got) = {} /\ ToSet(buf) = {} /\ IsInjective(got) /\ IsInjective(buf)
  BY DEF Init, ToSet, IsInjective
<1>2. ValuesOnce /\ PlacedIsAccepted
  BY <1>1 DEF Init, ValuesOnce, PlacedIsAccepted, Agents, Ops
<1>3. OutcomeShape
  BY DEF Init, OutcomeShape, Agents, Ops
<1>4. HeldIsTaken
  BY DEF Init, HeldIsTaken, Agents, Ops
<1>5. Told
  BY DEF Init, Told
<1>6. QED BY <1>2, <1>3, <1>4, <1>5 DEF Ledger

\* The ledger is kept in every behaviour.
THEOREM LedgerIsKept == Spec => []Ledger
<1>1. IInv /\ Ledger /\ [Next]_vars => Ledger'
  BY ValuesStep, ShapeStep, ToldStep DEF Ledger
<1>2. QED BY <1>1, InitLedger, Inductive, PTL DEF Spec

\* The channel and its history hold every value once, and what is said is true of it.
LEMMA LedgerIsTruthful == IInv /\ Ledger => TellsTruth
<1> SUFFICES ASSUME IInv, Ledger PROVE TellsTruth
  OBVIOUS
<1>0. /\ TypeOK /\ ParkedIsLinked /\ buf \in Seq(SendOps) /\ got \in Seq(SendOps) /\ ws \in Seq(SendOps)
      /\ ValuesOnce /\ PlacedIsAccepted /\ OutcomeShape /\ HeldIsTaken /\ Told
      /\ SendOps \cap RecvOps = {} /\ SendOps \cap Polls = {} /\ RecvOps \cap Polls = {}
      /\ \A s \in SendOps : s \in Ops /\ s \in Agents
  BY Constants DEF IInv, TypeOK, Ledger, Agents, Ops
<1>1. Placed = ToSet(buf) \cup ToSet(got)
  BY DEF Placed, ToSet
<1>2. \A s \in SendOps : s \in ToSet(ws) <=> stage[s] = "kQueued"
  BY <1>0 DEF ParkedIsLinked, ToSet
<1>3. \A s \in SendOps : s \in ToSet(ws) => s \notin Placed
  BY <1>0, <1>1, <1>2 DEF PlacedIsAccepted, OutcomeShape
<1>4. IsInjective(got \o buf \o ws)
  <2>1. IsInjective(ws)
    BY <1>0 DEF ParkedIsLinked, IsInjective
  <2>2. /\ got \o buf \in Seq(SendOps) /\ IsInjective(got \o buf)
        /\ ToSet(got \o buf) = ToSet(got) \cup ToSet(buf)
    BY <1>0, JoinElements, ConcatProperties DEF ValuesOnce
  <2>3. ToSet(ws) \subseteq SendOps
    BY <1>0 DEF ToSet
  <2>4. ToSet(got \o buf) \cap ToSet(ws) = {}
    BY <1>1, <1>3, <2>2, <2>3
  <2>5. QED BY <1>0, <2>1, <2>2, <2>4, JoinElements
<1>5. ASSUME NEW s \in SendOps, signals[s] = <<"true">> PROVE s \in Placed
  <2>1. s \in Agents /\ signals[s] # <<>> /\ "true" # "false" /\ "true" # "stopped"
    BY <1>0, <1>5
  <2>2. CASE outcome[s] \notin {"none", "kQueued"} /\ signals[s] = <<OwnSignal(s)>>
    <3>1. OwnSignal(s) = "true"
      BY <1>5, <2>2
    <3>2. outcome[s] \in {"kDirect", "kAccepted"}
      BY <1>0, <3>1, <2>2 DEF OwnSignal, OutcomeShape
    <3>3. QED BY <1>0, <1>1, <3>2 DEF PlacedIsAccepted
  <2>3. CASE stage[s] \in {"kClaimed", "kClosed"} /\ signals[s] = <<PartnerSignal(s)>>
    <3>1. PartnerSignal(s) = "true"
      BY <1>5, <2>3
    <3>2. stage[s] = "kClaimed"
      BY <1>0, <3>1, <2>3 DEF PartnerSignal
    <3>3. QED BY <1>0, <1>1, <3>2 DEF PlacedIsAccepted
  <2>4. CASE signals[s] = <<"stopped">>
    BY <1>5, <2>4
  <2>5. QED BY <1>0, <2>1, <2>2, <2>3, <2>4 DEF Told
<1>6. ASSUME NEW s \in SendOps,
             signals[s] \in {<<"false">>, <<"stopped">>} \/ stage[s] = "kGone"
      PROVE  s \notin Placed \cup ToSet(ws)
  <2>1. CASE stage[s] = "kGone"
    BY <1>0, <1>1, <1>2, <2>1 DEF PlacedIsAccepted, OutcomeShape
  <2>2. CASE signals[s] \in {<<"false">>, <<"stopped">>}
    <3>1. signals[s] # <<>> /\ s \in Agents
      <4>1. <<"false">> # <<>> /\ <<"stopped">> # <<>>
        OBVIOUS
      <4>2. QED BY <1>0, <2>2, <4>1
    <3>2. CASE outcome[s] \notin {"none", "kQueued"} /\ signals[s] = <<OwnSignal(s)>>
      <4>1. OwnSignal(s) \in {"false", "stopped"}
        BY <2>2, <3>2
      <4>2. outcome[s] \in {"kClosed", "kStopped"}
        BY <1>0, <3>2, <4>1 DEF OwnSignal, OutcomeShape
      <4>3. stage[s] = "kInit"
        BY <1>0, <4>2 DEF OutcomeShape
      <4>4. QED BY <1>0, <1>1, <1>2, <4>2, <4>3 DEF PlacedIsAccepted
    <3>3. CASE stage[s] \in {"kClaimed", "kClosed"} /\ signals[s] = <<PartnerSignal(s)>>
      <4>1. PartnerSignal(s) \in {"false", "stopped"}
        BY <2>2, <3>3
      <4>2. stage[s] = "kClosed" /\ outcome[s] = "kQueued"
        BY <1>0, <3>3, <4>1 DEF PartnerSignal, OutcomeShape
      <4>3. QED BY <1>0, <1>1, <1>2, <4>2 DEF PlacedIsAccepted
    <3>4. CASE stage[s] = "kStopped"
      BY <1>0, <1>1, <1>2, <3>4 DEF PlacedIsAccepted, OutcomeShape
    <3>5. QED BY <1>0, <3>1, <3>2, <3>3, <3>4 DEF Told
  <2>3. QED BY <1>6, <2>1, <2>2
<1>7. SendersToldTruth
  <2>1. ToSet(ws) = {ws[i] : i \in DOMAIN ws}
    BY DEF ToSet
  <2>2. QED BY <1>4, <1>5, <1>6, <2>1 DEF SendersToldTruth, IsInjective
<1>8. ASSUME NEW a \in RecvOps \cup Polls, signals[a] # <<>>
      PROVE  signals[a] = <<"value">> <=> held[a] # None
  <2>1. a \in Agents /\ a \notin SendOps /\ (a \in Ops => a \in RecvOps)
    BY <1>0 DEF Agents, Ops
  <2>2. held[a] # None <=> outcome[a] = "kValue" \/ (a \in RecvOps /\ stage[a] = "kClaimed")
    BY <1>0 DEF HeldIsTaken
  <2>3. CASE outcome[a] \notin {"none", "kQueued"} /\ signals[a] = <<OwnSignal(a)>>
    <3>1. a \in Ops => stage[a] = "kInit"
      BY <1>0, <2>3 DEF OutcomeShape
    <3>2. OwnSignal(a) = "value" <=> outcome[a] = "kValue"
      BY DEF OwnSignal
    <3>3. a \in RecvOps => stage[a] # "kClaimed"
      BY <3>1 DEF Ops
    <3>4. QED BY <2>2, <2>3, <3>2, <3>3
  <2>4. CASE a \in Ops /\ stage[a] = "kStopped" /\ signals[a] = <<"stopped">>
    <3>1. outcome[a] # "kValue"
      BY <1>0, <2>4 DEF OutcomeShape
    <3>2. QED BY <2>2, <2>4, <3>1
  <2>5. CASE /\ a \in Ops /\ stage[a] \in {"kClaimed", "kClosed"}
             /\ signals[a] = <<PartnerSignal(a)>>
    <3>1. outcome[a] # "kValue"
      BY <1>0, <2>5 DEF OutcomeShape
    <3>2. PartnerSignal(a) = "value" <=> stage[a] = "kClaimed"
      BY <2>1, <2>5 DEF PartnerSignal
    <3>3. QED BY <2>1, <2>2, <2>5, <3>1, <3>2
  <2>6. QED BY <1>0, <1>8, <2>1, <2>3, <2>4, <2>5 DEF Told
<1>9. ReceiversHoldOwnValue
  BY <1>0, <1>8 DEF ReceiversHoldOwnValue, HeldIsTaken
<1>10. QED BY <1>7, <1>9 DEF TellsTruth, IInv

\* No value is lost, doubled or misreported: a send that was told true has its value in
\* the channel or taken, one that was told false or stopped has it nowhere, and each
\* receive that reports a value holds one that is nobody else's.
THEOREM BothEndsToldTheTruth == Spec => []TellsTruth
BY LedgerIsKept, Inductive, LedgerIsTruthful, PTL

-----------------------------------------------------------------------------
(* The channel implements FifoChannel.                                     *)

\* The line is the buffer and behind it the parked sends: how the steps of the channel
\* look from there.
LEMMA TakeFromLine ==
  ASSUME NEW S, NEW b \in Seq(S), NEW w \in Seq(S), b # <<>> \/ w # <<>>
  PROVE  /\ b \o w # <<>>
         /\ Head(b \o w) = IF b # <<>> THEN Head(b) ELSE Head(w)
         /\ Tail(b \o w) = IF w = <<>> THEN Tail(b) \o w
                           ELSE (IF b = <<>> THEN b ELSE Append(Tail(b), Head(w))) \o Tail(w)
<1>1. /\ Len(b) \in Nat /\ Len(w) \in Nat /\ DOMAIN b = 1..Len(b) /\ DOMAIN w = 1..Len(w)
      /\ b \o w \in Seq(S) /\ Len(b \o w) = Len(b) + Len(w)
      /\ \A i \in 1..(Len(b) + Len(w)) :
           (b \o w)[i] = IF i <= Len(b) THEN b[i] ELSE w[i - Len(b)]
      /\ b # <<>> <=> Len(b) # 0
      /\ w # <<>> <=> Len(w) # 0
  BY ConcatProperties
<1> DEFINE l == b \o w
<1>2. /\ l \in Seq(S) /\ l # <<>> /\ Len(l) = Len(b) + Len(w)
      /\ \A i \in 1..(Len(b) + Len(w)) : l[i] = IF i <= Len(b) THEN b[i] ELSE w[i - Len(b)]
  BY <1>1
<1> HIDE DEF l
<1>3. /\ Head(l) = l[1] /\ Tail(l) \in Seq(S) /\ Len(Tail(l)) = Len(b) + Len(w) - 1
      /\ \A i \in 1..(Len(b) + Len(w) - 1) : Tail(l)[i] = l[i + 1]
  BY <1>2, HeadTailProperties
<1>4. Head(l) = IF b # <<>> THEN Head(b) ELSE Head(w)
  BY <1>1, <1>2, <1>3
<1>5. CASE w = <<>>
  <2>1. b # <<>> /\ l = b
    BY <1>5, ConcatEmptySeq DEF l
  <2>2. Tail(b) \in Seq(S)
    BY <2>1, HeadTailProperties
  <2>3. Tail(b) \o w = Tail(b)
    BY <1>5, <2>2, ConcatEmptySeq
  <2>4. Tail(l) = IF w = <<>> THEN Tail(b) \o w
                  ELSE (IF b = <<>> THEN b ELSE Append(Tail(b), Head(w))) \o Tail(w)
    BY <1>5, <2>1, <2>3
  <2>5. QED BY <1>2, <1>4, <2>4 DEF l
<1>6. CASE w # <<>> /\ b = <<>>
  <2>1. l = w
    BY <1>6, ConcatEmptySeq DEF l
  <2>2. Tail(w) \in Seq(S)
    BY <1>6, HeadTailProperties
  <2>3. b \o Tail(w) = Tail(w)
    BY <1>6, <2>2, ConcatEmptySeq
  <2>4. Tail(l) = IF w = <<>> THEN Tail(b) \o w
                  ELSE (IF b = <<>> THEN b ELSE Append(Tail(b), Head(w))) \o Tail(w)
    BY <1>6, <2>1, <2>3
  <2>5. QED BY <1>2, <1>4, <2>4 DEF l
<1>7. CASE w # <<>> /\ b # <<>>
  <2>1. /\ Tail(b) \in Seq(S) /\ Len(Tail(b)) = Len(b) - 1
        /\ \A i \in 1..(Len(b) - 1) : Tail(b)[i] = b[i + 1]
        /\ Tail(w) \in Seq(S) /\ Len(Tail(w)) = Len(w) - 1
        /\ \A i \in 1..(Len(w) - 1) : Tail(w)[i] = w[i + 1]
        /\ Head(w) \in S /\ Head(w) = w[1]
    BY <1>7, HeadTailProperties
  <2> DEFINE tb == Tail(b)
             tw == Tail(w)
             h == Head(w)
  <2>2. /\ tb \in Seq(S) /\ Len(tb) = Len(b) - 1 /\ \A i \in 1..(Len(b) - 1) : tb[i] = b[i + 1]
        /\ tw \in Seq(S) /\ Len(tw) = Len(w) - 1 /\ \A i \in 1..(Len(w) - 1) : tw[i] = w[i + 1]
        /\ h \in S /\ h = w[1]
    BY <2>1
  <2> HIDE DEF tb, tw, h
  <2> DEFINE a == Append(tb, h)
  <2>3. /\ a \in Seq(S) /\ Len(a) = Len(b) /\ a[Len(b)] = w[1]
        /\ \A i \in 1..(Len(b) - 1) : a[i] = b[i + 1]
    <3>1. /\ a \in Seq(S) /\ Len(a) = Len(tb) + 1 /\ a[Len(tb) + 1] = h
          /\ \A i \in 1..Len(tb) : a[i] = tb[i]
      BY <2>2, AppendProperties
    <3>2. Len(b) \in Nat /\ Len(tb) + 1 = Len(b)
      BY <1>1, <2>2
    <3> HIDE DEF a
    <3>3. QED BY <2>2, <3>1, <3>2
  <2> HIDE DEF a
  <2>9. Len(b) \in Nat /\ Len(w) \in Nat
    BY <1>1
  <2>4. /\ a \o tw \in Seq(S) /\ Len(a \o tw) = Len(b) + Len(w) - 1
        /\ \A i \in 1..(Len(b) + Len(w) - 1) :
             (a \o tw)[i] = IF i <= Len(b) THEN a[i] ELSE tw[i - Len(b)]
    <3>1. /\ a \o tw \in Seq(S) /\ Len(a \o tw) = Len(a) + Len(tw)
          /\ \A i \in 1..(Len(a) + Len(tw)) :
               (a \o tw)[i] = IF i <= Len(a) THEN a[i] ELSE tw[i - Len(a)]
      <4>1. a \in Seq(S) /\ tw \in Seq(S)
        BY <2>2, <2>3
      <4>2. QED BY <4>1, ConcatProperties
    <3>2. Len(a) + Len(tw) = Len(b) + Len(w) - 1
      BY <1>1, <2>2, <2>3
    <3>3. QED BY <3>1, <3>2, <2>3
  <2>5. ASSUME NEW i \in 1..(Len(b) + Len(w) - 1) PROVE Tail(l)[i] = (a \o tw)[i]
    <3>1. Tail(l)[i] = IF i + 1 <= Len(b) THEN b[i + 1] ELSE w[i + 1 - Len(b)]
      BY <1>1, <1>2, <1>3
    <3>0. i \in Int /\ 1 <= i
      BY <2>9
    <3>6. (a \o tw)[i] = IF i <= Len(b) THEN a[i] ELSE tw[i - Len(b)]
      BY <2>4
    <3>2. CASE i < Len(b)
      <4>1. a[i] = b[i + 1]
        BY <2>3, <2>9, <3>0, <3>2
      <4>2. i + 1 <= Len(b) /\ i <= Len(b)
        BY <2>9, <3>0, <3>2
      <4>3. QED BY <3>1, <3>6, <4>1, <4>2
    <3>3. CASE i = Len(b)
      <4>1. i + 1 - Len(b) = 1 /\ ~(i + 1 <= Len(b)) /\ i <= Len(b)
        BY <2>9, <3>0, <3>3
      <4>2. Tail(l)[i] = w[1]
        BY <3>1, <4>1
      <4>3. (a \o tw)[i] = a[Len(b)]
        BY <3>3, <3>6, <4>1
      <4>4. QED BY <2>3, <4>2, <4>3
    <3>4. CASE i > Len(b)
      <4>1. i - Len(b) \in 1..(Len(w) - 1) /\ i + 1 - Len(b) = (i - Len(b)) + 1
        BY <1>1, <3>4
      <4>2. (a \o tw)[i] = tw[i - Len(b)]
        BY <1>1, <2>4, <3>4
      <4>3. tw[i - Len(b)] = w[(i - Len(b)) + 1]
        BY <2>2, <4>1
      <4>4. Tail(l)[i] = w[i + 1 - Len(b)]
        <5>1. ~(i + 1 <= Len(b))
          BY <2>9, <3>0, <3>4
        <5>2. QED BY <3>1, <5>1
      <4>5. QED BY <4>1, <4>2, <4>3, <4>4
    <3>7. i < Len(b) \/ i = Len(b) \/ i > Len(b)
      BY <2>9, <3>0
    <3>5. QED BY <3>2, <3>3, <3>4, <3>7
  <2>6. Tail(l) = a \o tw
    BY <1>3, <2>4, <2>5, SeqEqual
  <2>7. Tail(l) = IF w = <<>> THEN Tail(b) \o w
                  ELSE (IF b = <<>> THEN b ELSE Append(Tail(b), Head(w))) \o Tail(w)
    BY <1>7, <2>6 DEF a, tb, tw, h
  <2>8. QED BY <1>2, <1>4, <2>7 DEF l
<1>8. QED BY <1>5, <1>6, <1>7

\* A send that parks joins the end of the line.
LEMMA JoinLine ==
  ASSUME NEW S, NEW b \in Seq(S), NEW w \in Seq(S), NEW e \in S
  PROVE  b \o Append(w, e) = Append(b \o w, e)
<1>1. /\ <<e>> \in Seq(S) /\ b \o w \in Seq(S)
      /\ Append(w, e) = w \o <<e>> /\ Append(b \o w, e) = (b \o w) \o <<e>>
  BY AppendIsConcat, ConcatProperties
<1>2. QED BY <1>1, ConcatAssociative

\* A parked send that is withdrawn leaves the line, and the others keep their order.
LEMMA LeaveLine ==
  ASSUME NEW S, NEW b \in Seq(S), NEW w \in Seq(S), NEW i \in 1..Len(w)
  PROVE  /\ Len(b) + i \in 1..Len(b \o w) /\ (b \o w)[Len(b) + i] = w[i]
         /\ b \o RemoveAt(w, i) = RemoveAt(b \o w, Len(b) + i)
<1>1. /\ Len(b) \in Nat /\ Len(w) \in Nat
      /\ b \o w \in Seq(S) /\ Len(b \o w) = Len(b) + Len(w)
      /\ \A j \in 1..(Len(b) + Len(w)) :
           (b \o w)[j] = IF j <= Len(b) THEN b[j] ELSE w[j - Len(b)]
  BY ConcatProperties
<1> DEFINE l == b \o w
           k == Len(b) + i
           r == RemoveAt(w, i)
<1>2. /\ l \in Seq(S) /\ Len(l) = Len(b) + Len(w) /\ k \in 1..Len(l) /\ k = Len(b) + i
      /\ \A j \in 1..(Len(b) + Len(w)) : l[j] = IF j <= Len(b) THEN b[j] ELSE w[j - Len(b)]
  BY <1>1
<1>3. l[k] = w[i]
  BY <1>1, <1>2
<1>4. /\ r \in Seq(S) /\ Len(r) = Len(w) - 1
      /\ \A j \in 1..(Len(w) - 1) : r[j] = IF j < i THEN w[j] ELSE w[j + 1]
  BY RemoveAtProperties
<1> HIDE DEF l, k, r
<1>5. /\ RemoveAt(l, k) \in Seq(S) /\ Len(RemoveAt(l, k)) = Len(l) - 1
      /\ \A j \in 1..(Len(l) - 1) : RemoveAt(l, k)[j] = IF j < k THEN l[j] ELSE l[j + 1]
  BY <1>2, RemoveAtProperties
<1>6. /\ b \o r \in Seq(S) /\ Len(b \o r) = Len(b) + Len(r)
      /\ \A j \in 1..(Len(b) + Len(r)) :
           (b \o r)[j] = IF j <= Len(b) THEN b[j] ELSE r[j - Len(b)]
  BY <1>4, ConcatProperties
<1>7. Len(b \o r) = Len(RemoveAt(l, k))
  BY <1>1, <1>2, <1>4, <1>5, <1>6
<1>8. ASSUME NEW j \in 1..(Len(b) + Len(w) - 1) PROVE (b \o r)[j] = RemoveAt(l, k)[j]
  <2>1. /\ RemoveAt(l, k)[j] = IF j < k THEN l[j] ELSE l[j + 1]
        /\ (b \o r)[j] = IF j <= Len(b) THEN b[j] ELSE r[j - Len(b)]
    <3>1. j \in 1..(Len(l) - 1) /\ j \in 1..(Len(b) + Len(r))
      BY <1>1, <1>2, <1>4
    <3>2. QED BY <1>5, <1>6, <3>1
  <2>2. CASE j <= Len(b)
    BY <1>1, <1>2, <2>1, <2>2
  <2>3. CASE j > Len(b)
    <3>1. j - Len(b) \in 1..(Len(w) - 1)
      BY <1>1, <2>3
    <3>2. (b \o r)[j] = IF j - Len(b) < i THEN w[j - Len(b)] ELSE w[(j - Len(b)) + 1]
      BY <1>1, <1>4, <2>1, <2>3, <3>1
    <3>3. l[j] = w[j - Len(b)]
      BY <1>1, <1>2, <2>3
    <3>4. l[j + 1] = w[(j - Len(b)) + 1]
      <4>1. j + 1 - Len(b) = (j - Len(b)) + 1 /\ j + 1 \in 1..(Len(b) + Len(w)) /\ ~(j + 1 <= Len(b))
        BY <1>1, <2>3
      <4>2. l[j + 1] = w[j + 1 - Len(b)]
        BY <1>2, <4>1
      <4>3. QED BY <4>1, <4>2
    <3>5. j < k <=> j - Len(b) < i
      BY <1>1, <1>2, <2>3
    <3>6. QED BY <2>1, <3>2, <3>3, <3>4, <3>5
  <2>4. j <= Len(b) \/ j > Len(b)
    BY <1>1
  <2>5. QED BY <2>2, <2>3, <2>4
<1>9. b \o r = RemoveAt(l, k)
  <2>1. Len(b \o r) = Len(b) + Len(w) - 1
    BY <1>1, <1>4, <1>6
  <2>2. QED BY <1>5, <1>6, <1>7, <1>8, <2>1, SeqEqual
<1>10. QED BY <1>1, <1>2, <1>3, <1>9 DEF l, k, r

\* The front of the line is the buffer.
LEMMA FrontOfLine ==
  ASSUME NEW S, NEW b \in Seq(S), NEW w \in Seq(S)
  PROVE  SubSeq(b \o w, 1, Len(b)) = b
<1>1. /\ Len(b) \in Nat /\ Len(w) \in Nat
      /\ b \o w \in Seq(S) /\ Len(b \o w) = Len(b) + Len(w)
      /\ \A j \in 1..Len(b) : (b \o w)[j] = b[j]
  BY ConcatProperties
<1> DEFINE l == b \o w
<1>2. l \in Seq(S) /\ \A j \in 1..Len(b) : l[j] = b[j] /\ l[j] \in S
  BY <1>1
<1> HIDE DEF l
<1>3. /\ SubSeq(l, 1, Len(b)) \in Seq(S) /\ Len(SubSeq(l, 1, Len(b))) = Len(b)
      /\ \A j \in 1..Len(b) : SubSeq(l, 1, Len(b))[j] = l[j]
  BY <1>1, <1>2, SubSeqProperties
<1>4. SubSeq(l, 1, Len(b)) = b
  BY <1>2, <1>3, SeqEqual
<1>5. QED BY <1>4 DEF l

\* What became of a send, from what its lock section decided and the stage of its node.
Standing(result, st) ==
  CASE result \in {"kDirect", "kAccepted"} \/ st = "kClaimed" -> "accepted"
    [] st = "kQueued"                                         -> "waiting"
    [] result = "kClosed" \/ st = "kClosed"                   -> "refused"
    [] result = "kStopped" \/ st \in {"kStopped", "kGone"}    -> "withdrawn"
    [] OTHER                                                  -> "new"

LEMMA FateIsStanding ==
  IInv /\ Ledger => \A s \in SendOps : FateOf(s) = Standing(outcome[s], stage[s])
<1> SUFFICES ASSUME IInv, Ledger, NEW s \in SendOps
             PROVE  FateOf(s) = Standing(outcome[s], stage[s])
  OBVIOUS
<1>1. Placed = ToSet(buf) \cup ToSet(got)
  BY DEF Placed, ToSet
<1>2. s \in {ws[i] : i \in DOMAIN ws} <=> stage[s] = "kQueued"
  BY DEF IInv, ParkedIsLinked
<1>3. s \in Placed <=> outcome[s] \in {"kDirect", "kAccepted"} \/ stage[s] = "kClaimed"
  BY <1>1 DEF Ledger, PlacedIsAccepted
<1>4. QED BY <1>2, <1>3 DEF FateOf, Standing

\* What FateIsStanding says of the state after a step.
LEMMA FateAfter ==
  (IInv /\ Ledger)' => \A s \in SendOps : FateOf(s)' = Standing(outcome'[s], stage'[s])
<1>1. (IInv /\ Ledger => \A s \in SendOps : FateOf(s) = Standing(outcome[s], stage[s]))'
  BY FateIsStanding, PTL
<1>2. QED BY <1>1

\* What became of every send.
Fate == [s \in SendOps |-> FateOf(s)]

\* A step in which no send's outcome or stage changes leaves what became of them.
LEMMA FateKept ==
  ASSUME IInv, Ledger, IInv', Ledger',
         \A s \in SendOps : Standing(outcome'[s], stage'[s]) = Standing(outcome[s], stage[s])
  PROVE  Fate' = Fate
<1>1. \A s \in SendOps : FateOf(s)' = FateOf(s)
  BY FateIsStanding, FateAfter
<1>2. QED BY <1>1 DEF Fate

\* A step in which the outcome or the stage of one send changes.
LEMMA FateOfOne ==
  ASSUME IInv, Ledger, IInv', Ledger', NEW s \in SendOps, NEW to,
         Standing(outcome'[s], stage'[s]) = to,
         \A q \in SendOps : q # s => outcome'[q] = outcome[q] /\ stage'[q] = stage[q]
  PROVE  Fate' = [Fate EXCEPT ![s] = to]
<1>1. \A q \in SendOps : FateOf(q)' = IF q = s THEN to ELSE FateOf(q)
  BY FateIsStanding, FateAfter
<1>2. Fate' = [q \in SendOps |-> FateOf(q)'] /\ Fate = [q \in SendOps |-> FateOf(q)]
  BY DEF Fate
<1>3. QED BY <1>1, <1>2

\* Init is the initial state of the atomic channel.
LEMMA FifoInit == Init => Fifo!AbsInit
<1> SUFFICES ASSUME Init PROVE Fifo!AbsInit
  OBVIOUS
<1>1. buf \o ws = <<>> /\ got = <<>> /\ slot = None /\ ~closed
  BY DEF Init
<1>2. ASSUME NEW s \in SendOps PROVE FateOf(s) = "new"
  BY DEF Init, FateOf, Placed, Agents, Ops
<1>3. [s \in SendOps |-> FateOf(s)] = [s \in SendOps |-> "new"]
  BY <1>2
<1>4. QED BY <1>1, <1>3 DEF Fifo!AbsInit

\* The steps of a send.
LEMMA SendIsAtomic ==
  ASSUME IInv, Ledger, IInv', Ledger', NEW s \in SendOps, SendStep(s)
  PROVE  Fifo!AbsSend(s) \/ Fifo!AbsRefuse(s) \/ Fifo!AbsWithdraw(s)
<1>0. /\ TypeOK /\ ParkedIsLinked /\ NoLostWakeup /\ OutcomeShape
      /\ buf \in Seq(SendOps) /\ ws \in Seq(SendOps) /\ s \in Ops /\ s \in Agents
      /\ outcome \in [Agents -> Outcomes] /\ stage \in [Ops -> Stages]
      /\ slot \in RecvOps \cup {None} /\ SendOps \cap RecvOps = {} /\ None \notin RecvOps
      /\ SendOps \subseteq Ops /\ SendOps \subseteq Agents
  BY Constants DEF IInv, TypeOK, Ledger, Ops, Agents
<1>1. stage[s] = "kInit" /\ outcome[s] = "none"
  BY <1>0, FreshAtLock DEF SendStep, SendStopped, SendClosed, SendDirect, SendBuffered, SendParked, AtSend
<1>2. Fate[s] = "new"
  BY <1>1, FateIsStanding DEF Fate, Standing
<1>3. CASE SendStopped(s)
  <2>1. UNCHANGED <<buf, ws, slot, got, closed, stage>> /\ outcome' = [outcome EXCEPT ![s] = "kStopped"]
    BY <1>3 DEF SendStopped, Decide
  <2>2. Fate' = [Fate EXCEPT ![s] = "withdrawn"]
    BY <1>0, <1>1, <2>1, FateOfOne DEF Standing
  <2>3. QED BY <1>2, <2>1, <2>2 DEF Fifo!AbsWithdraw, Fate
<1>4. CASE SendClosed(s)
  <2>1. /\ UNCHANGED <<buf, ws, slot, got, closed, stage>> /\ closed
        /\ outcome' = [outcome EXCEPT ![s] = "kClosed"]
    BY <1>4 DEF SendClosed, Decide
  <2>2. Fate' = [Fate EXCEPT ![s] = "refused"]
    BY <1>0, <1>1, <2>1, FateOfOne DEF Standing
  <2>3. QED BY <1>2, <2>1, <2>2 DEF Fifo!AbsRefuse, Fate
<1>5. CASE SendDirect(s)
  <2>1. /\ UNCHANGED <<buf, ws, closed>> /\ ~closed /\ slot # None /\ slot' = None
        /\ got' = Append(got, s) /\ stage' = [stage EXCEPT ![slot] = "kClaimed"]
        /\ outcome' = [outcome EXCEPT ![s] = "kDirect"]
    BY <1>5 DEF SendDirect, Decide
  <2>2. \A q \in SendOps : stage'[q] = stage[q] /\ (q # s => outcome'[q] = outcome[q])
    BY <1>0, <2>1
  <2>3. outcome'[s] = "kDirect"
    BY <1>0, <2>1
  <2>4. Fate' = [Fate EXCEPT ![s] = "accepted"]
    <3>1. Standing(outcome'[s], stage'[s]) = "accepted"
      BY <1>1, <2>2, <2>3 DEF Standing
    <3>2. \A q \in SendOps : q # s => outcome'[q] = outcome[q] /\ stage'[q] = stage[q]
      BY <2>2
    <3>3. QED BY <3>1, <3>2, FateOfOne
  <2>5. QED BY <1>2, <2>1, <2>4 DEF Fifo!AbsSend, Fate
<1>6. CASE SendBuffered(s)
  <2>1. /\ UNCHANGED <<ws, slot, got, closed, stage>> /\ ~closed /\ slot = None /\ ~Full
        /\ buf' = Append(buf, s) /\ outcome' = [outcome EXCEPT ![s] = "kAccepted"]
    BY <1>6 DEF SendBuffered, Decide
  <2>2. Fate' = [Fate EXCEPT ![s] = "accepted"]
    BY <1>0, <1>1, <2>1, FateOfOne DEF Standing
  <2>3. Capacity \in Nat => Len(buf) \in Nat
    BY <1>0
  <2>4. ws = <<>>
    BY <1>0, <2>1, Constants DEF NoLostWakeup, Full
  <2>5. buf \o ws = buf /\ buf' \o ws' = buf'
    <3>1. buf' \in Seq(SendOps)
      BY <1>0, <2>1, AppendProperties
    <3>2. QED BY <1>0, <2>1, <2>4, <3>1, ConcatEmptySeq
  <2>6. Fifo!HasRoom(Len(buf))
    BY <1>0, <2>1, Constants DEF Fifo!HasRoom, Full, Bounded
  <2>7. QED BY <1>2, <2>1, <2>2, <2>5, <2>6 DEF Fifo!AbsSend, Fate
<1>7. CASE SendParked(s)
  <2>1. /\ UNCHANGED <<buf, slot, got, closed>> /\ ~closed /\ slot = None /\ Full
        /\ ws' = Append(ws, s) /\ outcome' = [outcome EXCEPT ![s] = "kQueued"]
        /\ stage' = [stage EXCEPT ![s] = "kQueued"]
    BY <1>7 DEF SendParked, QueueSend
  <2>2. Fate' = [Fate EXCEPT ![s] = "waiting"]
    BY <1>0, <1>1, <2>1, FateOfOne DEF Standing
  <2>3. buf' \o ws' = Append(buf \o ws, s)
    BY <1>0, <2>1, JoinLine
  <2>4. ~Fifo!HasRoom(Len(buf \o ws))
    <3>1. Len(buf \o ws) = Len(buf) + Len(ws) /\ Len(buf) \in Nat /\ Len(ws) \in Nat
      BY <1>0, ConcatProperties
    <3>2. QED BY <2>1, <3>1, Constants DEF Fifo!HasRoom, Full, Bounded
  <2>5. QED BY <1>2, <2>1, <2>2, <2>3, <2>4 DEF Fifo!AbsSend, Fate
<1>8. QED BY <1>3, <1>4, <1>5, <1>6, <1>7 DEF SendStep

\* A stop or a destruction withdraws a parked send, ends the wait of the receiver, or
\* changes nothing the atomic channel has.
LEMMA WithdrawIsAtomic ==
  ASSUME IInv, Ledger, IInv', Ledger', NEW o \in Ops, OnStop(o) \/ Destroy(o)
  PROVE  \/ o \in SendOps /\ Fifo!AbsWithdraw(o)
         \/ Fifo!AbsUnwait
         \/ UNCHANGED Fifo!absVars
<1>0. /\ TypeOK /\ ParkedIsLinked
      /\ buf \in Seq(SendOps) /\ ws \in Seq(SendOps) /\ stage \in [Ops -> Stages]
      /\ slot \in RecvOps \cup {None} /\ SendOps \cap RecvOps = {} /\ None \notin Ops
      /\ SendOps \subseteq Ops
  BY Constants DEF IInv, TypeOK, Ops, Agents
<1>1. UNCHANGED <<buf, got, outcome, closed>>
  BY <1>0, WithdrawEffect
<1>2. CASE stage[o] # "kQueued"
  <2>1. UNCHANGED <<ws, slot, stage>>
    BY <1>2 DEF OnStop, Destroy
  <2>2. Fate' = Fate
    BY <1>1, <2>1, FateKept
  <2>3. QED BY <1>1, <2>1, <2>2 DEF Fifo!absVars, Fate
<1>3. CASE stage[o] = "kQueued"
  <2>1. PICK st \in {"kStopped", "kGone"} : Unlink(o) /\ stage' = [stage EXCEPT ![o] = st]
    BY <1>3 DEF OnStop, Destroy
  <2>2. CASE o \in SendOps
    <3>1. PICK i \in 1..Len(ws) : ws[i] = o /\ ws' = RemoveAt(ws, i) /\ slot' = slot
      BY <2>1, <2>2 DEF Unlink
    <3>2. /\ Len(buf) + i \in 1..Len(buf \o ws) /\ (buf \o ws)[Len(buf) + i] = o
          /\ buf' \o ws' = RemoveAt(buf \o ws, Len(buf) + i)
      <4>1. \A b, w \in Seq(SendOps) : \A j \in 1..Len(w) :
              /\ Len(b) + j \in 1..Len(b \o w) /\ (b \o w)[Len(b) + j] = w[j]
              /\ b \o RemoveAt(w, j) = RemoveAt(b \o w, Len(b) + j)
        BY LeaveLine
      <4>2. buf' = buf
        BY <1>1
      <4>3. QED BY <1>0, <3>1, <4>1, <4>2
    <3>3. DOMAIN (buf \o ws) = 1..Len(buf \o ws)
      <4>1. buf \o ws \in Seq(SendOps)
        BY <1>0, ConcatProperties
      <4>2. QED BY <4>1
    <3>4. outcome[o] = "kQueued"
      BY <1>3 DEF Ledger, OutcomeShape
    <3>5. Fate[o] = "waiting"
      BY <1>3, <2>2, <3>4, FateIsStanding DEF Fate, Standing
    <3>6. Standing(outcome'[o], stage'[o]) = "withdrawn"
      BY <1>0, <1>1, <2>1, <3>4 DEF Standing
    <3>7. \A q \in SendOps : q # o => outcome'[q] = outcome[q] /\ stage'[q] = stage[q]
      BY <1>0, <1>1, <2>1
    <3>8. Fate' = [Fate EXCEPT ![o] = "withdrawn"]
      BY <2>2, <3>6, <3>7, FateOfOne
    <3>9. \E j \in DOMAIN (buf \o ws) :
            (buf \o ws)[j] = o /\ buf' \o ws' = RemoveAt(buf \o ws, j)
      BY <3>2, <3>3
    <3>10. UNCHANGED <<got, slot, closed>> /\ Fate[o] # "new"
      BY <1>1, <3>1, <3>5
    <3>11. Fifo!AbsWithdraw(o)
      BY <3>5, <3>8, <3>9, <3>10 DEF Fifo!AbsWithdraw, Fate, RemoveAt, Fifo!RemoveAt
    <3>12. QED BY <2>2, <3>11
  <2>3. CASE o \notin SendOps
    <3>1. slot = o /\ slot # None /\ slot' = None /\ ws' = ws
      BY <1>0, <1>3, <2>1, <2>3 DEF Unlink, ParkedIsLinked, Ops
    <3>2. \A q \in SendOps : outcome'[q] = outcome[q] /\ stage'[q] = stage[q]
      BY <1>0, <1>1, <2>1, <2>3
    <3>3. Fate' = Fate
      BY <3>2, FateKept
    <3>4. QED BY <1>1, <3>1, <3>3 DEF Fifo!AbsUnwait, Fate
  <2>4. QED BY <2>2, <2>3
<1>4. QED BY <1>2, <1>3

\* Taking a value takes the first of the line and lets in the one that waits first.
LEMMA TakeIsAtomic ==
  ASSUME IInv, Ledger, IInv', Ledger', NEW a \in RecvOps \cup Polls, Take(a),
         UNCHANGED closed, \A s \in SendOps : outcome'[s] = outcome[s]
  PROVE  Fifo!AbsTake
<1>0. /\ TypeOK /\ ParkedIsLinked /\ NoLostWakeup
      /\ buf \in Seq(SendOps) /\ ws \in Seq(SendOps) /\ stage \in [Ops -> Stages]
      /\ SendOps \subseteq Ops /\ Len(buf) \in Nat /\ Len(ws) \in Nat
      /\ DOMAIN buf = 1..Len(buf) /\ DOMAIN ws = 1..Len(ws)
  BY DEF IInv, TypeOK, Ops
<1>1. buf # <<>> \/ ws # <<>>
  BY DEF Take, Available
<1>2. /\ got' = Append(got, IF buf # <<>> THEN Head(buf) ELSE Head(ws)) /\ slot' = slot
      /\ ws = <<>> => buf' = Tail(buf) /\ ws' = ws /\ stage' = stage
      /\ ws # <<>> => /\ buf' = IF buf = <<>> THEN buf ELSE Append(Tail(buf), Head(ws))
                      /\ ws' = Tail(ws) /\ stage' = [stage EXCEPT ![Head(ws)] = "kClaimed"]
  BY DEF Take
<1>3. /\ buf \o ws # <<>>
      /\ Head(buf \o ws) = IF buf # <<>> THEN Head(buf) ELSE Head(ws)
      /\ Tail(buf \o ws) = IF ws = <<>> THEN Tail(buf) \o ws
                           ELSE (IF buf = <<>> THEN buf ELSE Append(Tail(buf), Head(ws))) \o Tail(ws)
  <2>1. \A b, w \in Seq(SendOps) : b # <<>> \/ w # <<>> =>
          /\ b \o w # <<>>
          /\ Head(b \o w) = IF b # <<>> THEN Head(b) ELSE Head(w)
          /\ Tail(b \o w) = IF w = <<>> THEN Tail(b) \o w
                            ELSE (IF b = <<>> THEN b ELSE Append(Tail(b), Head(w))) \o Tail(w)
    BY TakeFromLine
  <2>2. buf \in Seq(SendOps) /\ ws \in Seq(SendOps)
    BY <1>0
  <2>3. QED BY <1>1, <2>1, <2>2, Zenon
<1>4. buf' \o ws' = Tail(buf \o ws) /\ got' = Append(got, Head(buf \o ws))
  BY <1>2, <1>3
<1>5. /\ DOMAIN (buf \o ws) = 1..(Len(buf) + Len(ws))
      /\ \A i \in 1..(Len(buf) + Len(ws)) :
           (buf \o ws)[i] = IF i <= Len(buf) THEN buf[i] ELSE ws[i - Len(buf)]
  BY <1>0, ConcatProperties
<1>6. ASSUME NEW s \in SendOps
      PROVE  FateOf(s)' = IF /\ Fate[s] = "waiting"
                             /\ \E i \in DOMAIN (buf \o ws) : (buf \o ws)[i] = s /\ Fifo!HasRoom(i - 2)
                          THEN "accepted" ELSE Fate[s]
  <2>1. /\ Fate[s] = Standing(outcome[s], stage[s])
        /\ FateOf(s)' = Standing(outcome'[s], stage'[s])
        /\ outcome'[s] = outcome[s]
    BY FateIsStanding, FateAfter DEF Fate
  <2>2. CASE stage[s] # "kQueued"
    <3>1. ws # <<>> => Head(ws) # s
      BY <1>0, <2>2, HeadEffect
    <3>2. stage'[s] = stage[s]
      BY <1>0, <1>2, <3>1
    <3>3. Fate[s] # "waiting"
      BY <2>1, <2>2 DEF Standing
    <3>4. QED BY <2>1, <3>2, <3>3
  <2>3. CASE stage[s] = "kQueued"
    <3>1. outcome[s] = "kQueued" /\ Fate[s] = "waiting"
      <4>1. outcome[s] = "kQueued"
        BY <1>0, <2>3 DEF Ledger, OutcomeShape
      <4>2. QED BY <2>1, <2>3, <4>1 DEF Standing
    <3>2. PICK k \in DOMAIN ws : ws[k] = s
      BY <1>0, <2>3 DEF ParkedIsLinked
    <3>3. ws # <<>> /\ Capacity \in Nat /\ Capacity # Unbounded /\ Len(buf) = Capacity
      BY <1>0, <3>2, Constants DEF NoLostWakeup, Bounded
    <3>4. /\ Head(ws) = ws[1] /\ 1 \in DOMAIN ws /\ Head(ws) \in SendOps
          /\ stage[Head(ws)] = "kQueued"
      BY <1>0, <3>2, <3>3, HeadEffect
    <3>5. \A i, j \in DOMAIN ws : ws[i] = ws[j] => i = j
      BY <1>0 DEF ParkedIsLinked
    <3>6. \A n \in Int : Fifo!HasRoom(n) <=> n < Capacity
      BY <3>3 DEF Fifo!HasRoom
    <3>7. CASE k = 1
      <4>1. stage'[s] = "kClaimed"
        BY <1>0, <1>2, <2>3, <3>2, <3>3, <3>4, <3>7
      <4>2. Len(buf) + 1 \in DOMAIN (buf \o ws) /\ (buf \o ws)[Len(buf) + 1] = s
        <5>1. /\ Len(buf) + 1 \in 1..(Len(buf) + Len(ws)) /\ ~(Len(buf) + 1 <= Len(buf))
              /\ Len(buf) + 1 - Len(buf) = 1
          BY <1>0, <3>4
        <5>2. QED BY <1>5, <3>2, <3>7, <5>1
      <4>3. Fifo!HasRoom(Len(buf) + 1 - 2)
        <5>1. Len(buf) + 1 - 2 \in Int /\ Len(buf) + 1 - 2 < Capacity
          BY <1>0, <3>3
        <5>2. QED BY <3>6, <5>1
      <4>4. FateOf(s)' = "accepted"
        BY <2>1, <3>1, <4>1 DEF Standing
      <4>5. QED BY <3>1, <4>2, <4>3, <4>4
    <3>8. CASE k # 1
      <4>1. s # Head(ws)
        BY <3>2, <3>4, <3>5, <3>8
      <4>2. stage'[s] = stage[s]
        BY <1>0, <1>2, <3>3, <4>1
      <4>3. ASSUME NEW i \in DOMAIN (buf \o ws), (buf \o ws)[i] = s
            PROVE  ~Fifo!HasRoom(i - 2)
        <5>1. i \in 1..(Len(buf) + Len(ws)) /\ i \in Int
          BY <1>0, <1>5
        <5>2. CASE i <= Len(buf)
          <6>1. s \in ToSet(buf)
            BY <1>0, <1>5, <4>3, <5>1, <5>2 DEF ToSet
          <6>2. QED BY <2>3, <3>1, <6>1 DEF Ledger, PlacedIsAccepted
        <5>3. CASE i > Len(buf)
          <6>1. ws[i - Len(buf)] = s /\ i - Len(buf) \in DOMAIN ws
            BY <1>0, <1>5, <4>3, <5>1, <5>3
          <6>2. i - Len(buf) # 1
            BY <3>4, <4>1, <6>1
          <6>3. i - 2 \in Int /\ ~(i - 2 < Capacity)
            BY <1>0, <3>3, <5>1, <5>3, <6>2
          <6>4. QED BY <3>6, <6>3
        <5>4. i <= Len(buf) \/ i > Len(buf)
          BY <1>0, <5>1
        <5>5. QED BY <5>2, <5>3, <5>4
      <4>4. QED BY <2>1, <3>1, <4>2, <4>3
    <3>9. QED BY <3>7, <3>8
  <2>4. QED BY <2>2, <2>3
<1>7. Fate' = [s \in SendOps |->
                 IF /\ Fate[s] = "waiting"
                    /\ \E i \in DOMAIN (buf \o ws) : (buf \o ws)[i] = s /\ Fifo!HasRoom(i - 2)
                 THEN "accepted" ELSE Fate[s]]
  <2>1. Fate' = [s \in SendOps |-> FateOf(s)']
    BY DEF Fate
  <2>2. QED BY <1>6, <2>1
<1>8. QED BY <1>2, <1>3, <1>4, <1>7 DEF Fifo!AbsTake, Fate

\* A receive that takes nothing, or parks.
LEMMA RecvIsAtomic ==
  ASSUME IInv, Ledger, IInv', Ledger', NEW r \in RecvOps, RecvStep(r)
  PROVE  Fifo!AbsTake \/ Fifo!AbsWait \/ UNCHANGED Fifo!absVars
<1>0. /\ TypeOK /\ buf \in Seq(SendOps) /\ ws \in Seq(SendOps) /\ r \in Ops /\ r \in Agents
      /\ outcome \in [Agents -> Outcomes] /\ stage \in [Ops -> Stages]
      /\ SendOps \cap RecvOps = {} /\ None \notin RecvOps
      /\ SendOps \subseteq Ops /\ SendOps \subseteq Agents
  BY Constants DEF IInv, TypeOK, Ops, Agents
<1>1. CASE RecvStopped(r) \/ RecvClosed(r) \/ RecvViolation(r)
  <2>1. /\ UNCHANGED <<buf, ws, slot, got, closed, stage>>
        /\ \A s \in SendOps : outcome'[s] = outcome[s]
    BY <1>0, <1>1 DEF RecvStopped, RecvClosed, RecvViolation, Decide
  <2>2. Fate' = Fate
    BY <2>1, FateKept
  <2>3. QED BY <2>1, <2>2 DEF Fifo!absVars, Fate
<1>2. CASE RecvValue(r)
  <2>1. Take(r) /\ UNCHANGED closed /\ \A s \in SendOps : outcome'[s] = outcome[s]
    BY <1>0, <1>2 DEF RecvValue, Decide
  <2>2. QED BY <2>1, TakeIsAtomic
<1>3. CASE RecvParked(r)
  <2>1. /\ UNCHANGED <<buf, ws, got, closed>> /\ slot = None /\ slot' = r /\ ~closed
        /\ buf = <<>> /\ ws = <<>>
        /\ \A s \in SendOps : outcome'[s] = outcome[s] /\ stage'[s] = stage[s]
    BY <1>0, <1>3 DEF RecvParked, Available
  <2>2. Fate' = Fate
    BY <2>1, FateKept
  <2>3. buf \o ws = <<>>
    BY <1>0, <2>1, ConcatEmptySeq
  <2>4. QED BY <1>0, <2>1, <2>2, <2>3 DEF Fifo!AbsWait, Fate
<1>4. QED BY <1>1, <1>2, <1>3 DEF RecvStep

\* close() keeps the front of the line and refuses everyone behind it.
LEMMA CloseIsAtomic ==
  ASSUME IInv, Ledger, IInv', Ledger', ~closed, CloseLocked
  PROVE  Fifo!AbsClose
<1>0. /\ TypeOK /\ ParkedIsLinked /\ buf \in Seq(SendOps) /\ ws \in Seq(SendOps)
      /\ Len(buf) \in Nat /\ Len(ws) \in Nat
      /\ DOMAIN buf = 1..Len(buf) /\ DOMAIN ws = 1..Len(ws) /\ SendOps \subseteq Ops
  BY DEF IInv, TypeOK, Ops
<1>1. /\ closed' /\ slot' = None /\ ws' = <<>> /\ UNCHANGED <<buf, got, outcome>>
      /\ \A s \in SendOps : stage'[s] = IF stage[s] = "kQueued" THEN "kClosed" ELSE stage[s]
  BY <1>0, CloseEffect DEF CloseLocked
<1>2. /\ buf \o ws \in Seq(SendOps) /\ Len(buf \o ws) = Len(buf) + Len(ws)
      /\ DOMAIN (buf \o ws) = 1..(Len(buf) + Len(ws))
      /\ \A i \in 1..(Len(buf) + Len(ws)) :
           (buf \o ws)[i] = IF i <= Len(buf) THEN buf[i] ELSE ws[i - Len(buf)]
  BY <1>0, ConcatProperties
<1>3. buf' \o ws' = SubSeq(buf \o ws, 1, Len(buf))
  <2>1. buf' \o ws' = buf
    BY <1>0, <1>1, ConcatEmptySeq
  <2>2. QED BY <1>0, <2>1, FrontOfLine
<1>4. ASSUME NEW i \in DOMAIN (buf \o ws)
      PROVE  Fate[(buf \o ws)[i]] = "accepted" <=> i <= Len(buf)
  <2>1. i \in 1..(Len(buf) + Len(ws)) /\ (i <= Len(buf) \/ i > Len(buf))
    BY <1>0, <1>2
  <2>2. CASE i <= Len(buf)
    <3>1. (buf \o ws)[i] = buf[i] /\ buf[i] \in SendOps /\ buf[i] \in ToSet(buf)
      BY <1>0, <1>2, <2>1, <2>2 DEF ToSet
    <3>2. \/ outcome[buf[i]] \in {"kDirect", "kAccepted"} /\ stage[buf[i]] = "kInit"
          \/ outcome[buf[i]] = "kQueued" /\ stage[buf[i]] = "kClaimed"
      BY <1>0, <3>1 DEF Ledger, PlacedIsAccepted, OutcomeShape
    <3>3. Standing(outcome[buf[i]], stage[buf[i]]) = "accepted"
      BY <3>2 DEF Standing
    <3>4. QED BY <2>2, <3>1, <3>3, FateIsStanding DEF Fate
  <2>3. CASE i > Len(buf)
    <3>1. i - Len(buf) \in DOMAIN ws /\ (buf \o ws)[i] = ws[i - Len(buf)]
      BY <1>0, <1>2, <2>1, <2>3
    <3>2. PICK s \in SendOps : s = (buf \o ws)[i] /\ stage[s] = "kQueued"
      BY <1>0, <3>1 DEF ParkedIsLinked
    <3>3. outcome[s] = "kQueued"
      BY <1>0, <3>2 DEF Ledger, OutcomeShape
    <3>4. Standing(outcome[s], stage[s]) = "waiting"
      BY <3>2, <3>3 DEF Standing
    <3>5. Fate[(buf \o ws)[i]] # "accepted"
      BY <3>2, <3>4, FateIsStanding DEF Fate
    <3>6. ~(i <= Len(buf))
      BY <1>0, <2>1, <2>3
    <3>7. QED BY <3>5, <3>6
  <2>4. QED BY <2>1, <2>2, <2>3
<1>5. Fate' = [s \in SendOps |-> IF Fate[s] = "waiting" THEN "refused" ELSE Fate[s]]
  <2>1. ASSUME NEW s \in SendOps
        PROVE  FateOf(s)' = IF Fate[s] = "waiting" THEN "refused" ELSE Fate[s]
    <3>1. /\ Fate[s] = Standing(outcome[s], stage[s])
          /\ FateOf(s)' = Standing(outcome'[s], stage'[s]) /\ outcome'[s] = outcome[s]
      BY <1>1, FateIsStanding, FateAfter DEF Fate
    <3>2. CASE stage[s] = "kQueued"
      <4>1. outcome[s] = "kQueued" /\ stage'[s] = "kClosed"
        BY <1>0, <1>1, <3>2 DEF Ledger, OutcomeShape
      <4>2. Standing(outcome[s], stage[s]) = "waiting" /\ Standing(outcome'[s], stage'[s]) = "refused"
        BY <3>1, <3>2, <4>1 DEF Standing
      <4>3. QED BY <3>1, <4>2
    <3>3. CASE stage[s] # "kQueued"
      <4>1. Standing(outcome[s], stage[s]) # "waiting" /\ stage'[s] = stage[s]
        BY <1>1, <3>3 DEF Standing
      <4>2. QED BY <3>1, <4>1
    <3>4. QED BY <3>2, <3>3
  <2>2. Fate' = [s \in SendOps |-> FateOf(s)']
    BY DEF Fate
  <2>3. QED BY <2>1, <2>2
<1>6. Len(buf) \in 0..Len(buf \o ws)
  BY <1>0, <1>2
<1>7. QED BY <1>1, <1>3, <1>4, <1>5, <1>6 DEF Fifo!AbsClose, Fate

\* Every step of the channel is one step of the atomic channel or none.
LEMMA StepIsAtomic ==
  IInv /\ Ledger /\ [Next]_vars /\ (IInv /\ Ledger)' => [Fifo!AbsNext]_(Fifo!absVars)
<1> SUFFICES ASSUME IInv, Ledger, [Next]_vars, IInv', Ledger'
             PROVE  Fifo!AbsNext \/ UNCHANGED Fifo!absVars
  OBVIOUS
<1>1. CASE UNCHANGED values
  <2>1. Fate' = Fate
    BY <1>1, FateKept DEF values
  <2>2. QED BY <1>1, <2>1 DEF values, Fifo!absVars, Fate
<1>2. ASSUME NEW o \in Ops, OnStop(o) \/ Destroy(o)
      PROVE  Fifo!AbsNext \/ UNCHANGED Fifo!absVars
  BY <1>2, WithdrawIsAtomic DEF Fifo!AbsNext
<1>3. ASSUME NEW s \in SendOps, SendStep(s) PROVE Fifo!AbsNext
  BY <1>3, SendIsAtomic DEF Fifo!AbsNext
<1>4. ASSUME NEW r \in RecvOps, RecvStep(r)
      PROVE  Fifo!AbsNext \/ UNCHANGED Fifo!absVars
  BY <1>4, RecvIsAtomic DEF Fifo!AbsNext
<1>5. ASSUME NEW p \in Polls, PollValue(p) \/ PollEmpty(p)
      PROVE  Fifo!AbsNext \/ UNCHANGED Fifo!absVars
  <2>1. \A s \in SendOps : outcome'[s] = outcome[s]
    BY <1>5, Constants DEF PollValue, PollEmpty, Decide, IInv, TypeOK, Agents, Ops
  <2>2. CASE PollValue(p)
    BY <2>1, <2>2, TakeIsAtomic DEF PollValue, Decide, Fifo!AbsNext
  <2>3. CASE PollEmpty(p)
    <3>1. UNCHANGED <<buf, ws, slot, got, closed, stage>>
      BY <2>3 DEF PollEmpty, Decide
    <3>2. Fate' = Fate
      BY <2>1, <3>1, FateKept
    <3>3. QED BY <3>1, <3>2 DEF Fifo!absVars, Fate
  <2>4. QED BY <1>5, <2>2, <2>3
<1>6. CASE ~closed /\ CloseLocked
  BY <1>6, CloseIsAtomic DEF Fifo!AbsNext
<1>7. QED BY <1>1, <1>2, <1>3, <1>4, <1>5, <1>6, StepCases

\* The channel of locks, slots, claims and stop callbacks implements the atomic FIFO
\* channel: the values come out in the order of the sends, none twice and none lost, and
\* cancelling or closing takes only those that wait.
THEOREM ChannelIsFifo == Spec => ImplementsFifo
BY FifoInit, StepIsAtomic, LedgerIsKept, Inductive, PTL DEF Spec, ImplementsFifo, Fifo!AbsSpec
=============================================================================

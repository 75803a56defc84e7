---------------------------- MODULE FifoChannel ----------------------------
(***************************************************************************)
(* What co::mpsc promises its users, with every operation atomic: a queue  *)
(* of at most Capacity accepted values, behind it the senders that wait    *)
(* for room, and at most one consumer that waits for a value.              *)
(***************************************************************************)
EXTENDS Naturals, Sequences, SequencesExt

CONSTANTS Sends, Capacity, Unbounded

VARIABLES line,     \* values not yet taken, in the order of the send() calls
          got,      \* values taken, in order
          fate,     \* what became of each send
          waiting,  \* the consumer waits for a value
          open

absVars == <<line, got, fate, waiting, open>>

Fates == {"new", "waiting", "accepted", "refused", "withdrawn"}

AbsInit ==
  /\ line = <<>> /\ got = <<>> /\ waiting = FALSE /\ open = TRUE
  /\ fate = [s \in Sends |-> "new"]

HasRoom(n) == Capacity = Unbounded \/ n < Capacity

\* A waiting consumer gets the value at once; else the value joins the line.
AbsSend(s) ==
  /\ open /\ fate[s] = "new"
  /\ IF waiting
     THEN /\ got' = Append(got, s) /\ waiting' = FALSE
          /\ fate' = [fate EXCEPT ![s] = "accepted"]
          /\ UNCHANGED line
     ELSE /\ line' = Append(line, s)
          /\ fate' = [fate EXCEPT ![s] = IF HasRoom(Len(line)) THEN "accepted" ELSE "waiting"]
          /\ UNCHANGED <<got, waiting>>
  /\ UNCHANGED open

AbsRefuse(s) ==
  /\ ~open /\ fate[s] = "new"
  /\ fate' = [fate EXCEPT ![s] = "refused"]
  /\ UNCHANGED <<line, got, waiting, open>>

\* Cancelling never takes back an accepted value and keeps everyone's place.
AbsWithdraw(s) ==
  /\ fate[s] \in {"new", "waiting"}
  /\ IF fate[s] = "new"
     THEN UNCHANGED line
     ELSE \E i \in DOMAIN line : line[i] = s /\ line' = RemoveAt(line, i)
  /\ fate' = [fate EXCEPT ![s] = "withdrawn"]
  /\ UNCHANGED <<got, waiting, open>>

\* The oldest value is taken, and room for one more is given to the first in line
\* that waits.
AbsTake ==
  /\ line # <<>>
  /\ got' = Append(got, Head(line))
  /\ line' = Tail(line)
  /\ fate' = [s \in Sends |->
        IF fate[s] = "waiting" /\ \E i \in DOMAIN line : line[i] = s /\ HasRoom(i - 2)
        THEN "accepted" ELSE fate[s]]
  /\ UNCHANGED <<waiting, open>>

AbsWait == line = <<>> /\ open /\ ~waiting /\ waiting' = TRUE
           /\ UNCHANGED <<line, got, fate, open>>

AbsUnwait == waiting /\ waiting' = FALSE /\ UNCHANGED <<line, got, fate, open>>

\* Closing keeps what was accepted, the front of the line, and refuses everyone who
\* waits behind it.
AbsClose ==
  /\ open /\ open' = FALSE /\ waiting' = FALSE
  /\ \E n \in 0..Len(line) :
        /\ \A i \in DOMAIN line : fate[line[i]] = "accepted" <=> i <= n
        /\ line' = SubSeq(line, 1, n)
  /\ fate' = [s \in Sends |-> IF fate[s] = "waiting" THEN "refused" ELSE fate[s]]
  /\ UNCHANGED got

AbsNext ==
  \/ \E s \in Sends : AbsSend(s) \/ AbsRefuse(s) \/ AbsWithdraw(s)
  \/ AbsTake \/ AbsWait \/ AbsUnwait \/ AbsClose

AbsSpec == AbsInit /\ [][AbsNext]_absVars

=============================================================================

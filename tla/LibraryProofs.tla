--------------------------- MODULE LibraryProofs ---------------------------
(***************************************************************************)
(* Proofs about four of the parts that MCLibrary checks: the signals of    *)
(* AbortSignal.any follow their sources, for any signals, listeners and    *)
(* calls inside calls; each combinator of sender streams gives what its    *)
(* name says, for any items, predicate and number of stops; has(), get()   *)
(* and a live iteration of a Headers object agree, however it is changed;  *)
(* and a URL says what its params say, whatever texts they hold.           *)
(***************************************************************************)
EXTENDS Abort, Combinators, Headers, UrlParams, SequenceTheorems, FiniteSetTheorems,
        WellFoundedInduction, TLAPS

(***************************************************************************)
(* Signals. Between the abort of a source and that of what was combined    *)
(* from it there is a dispatch under way at the source whose next listener *)
(* is not yet past the one that any() added; and such a listener is there  *)
(* as long as neither of the two is aborted, since only functions of the   *)
(* script can be removed.                                                  *)
(***************************************************************************)

\* A dispatch under way.
Frame == [signal : Signals, next : Nat \ {0}]

\* The types.
AbortTypeOK ==
  /\ aborted \subseteq Signals /\ faked \subseteq Signals
  /\ listeners \in [Signals -> Seq(Listeners \cup Combined)]
  /\ sources \in [Combined -> SUBSET Signals]
  /\ frames \in Seq(Frame)

\* A signal is combined from signals that were made before it.
SourcesMade == \A d \in Combined : sources[d] \subseteq Made

\* A listener that any() added at s stands for a signal combined from s.
ListenersMean ==
  \A s \in Signals : \A j \in 1..Len(listeners[s]) :
    listeners[s][j] \in Combined => s \in sources[listeners[s][j]]

\* A signal that is not aborted hears of every source.
Hears == \A d \in Combined : \A s \in sources[d] :
           d \notin aborted => \E j \in 1..Len(listeners[s]) : listeners[s][j] = d

\* When its source is aborted, it is about to hear of it.
AboutToHear ==
  \A d \in Combined : \A s \in sources[d] :
    s \in aborted /\ d \notin aborted =>
      \E k \in 1..Len(frames) :
        /\ frames[k].signal = s
        /\ \E j \in 1..Len(listeners[s]) : j >= frames[k].next /\ listeners[s][j] = d

\* Nothing is aborted or dispatched without a cause.
Caused ==
  /\ \A k \in 1..Len(frames) : frames[k].signal \in aborted \cup faked
  /\ \A d \in Combined : d \in aborted => sources[d] \cap (aborted \cup faked) # {}

\* The inductive invariant.
AbortInv == AbortTypeOK /\ SourcesMade /\ ListenersMean /\ Hears /\ AboutToHear /\ Caused

-----------------------------------------------------------------------------
\* What removing an element keeps: the others, and where they came from.
LEMMA RemoveAtKeeps ==
  ASSUME NEW S, NEW q \in Seq(S), NEW n \in 1..Len(q)
  PROVE  /\ RemoveAt(q, n) \in Seq(S)
         /\ \A j \in 1..Len(RemoveAt(q, n)) : \E m \in 1..Len(q) : RemoveAt(q, n)[j] = q[m]
         /\ \A m \in 1..Len(q) \ {n} : \E j \in 1..Len(RemoveAt(q, n)) : RemoveAt(q, n)[j] = q[m]
<1> DEFINE u == SubSeq(q, 1, n - 1)
           v == SubSeq(q, n + 1, Len(q))
<1>1. /\ u \in Seq(S) /\ Len(u) = n - 1
      /\ \A j \in 1..(n - 1) : u[j] = q[j]
  BY SubSeqProperties
<1>2. /\ v \in Seq(S) /\ Len(v) = Len(q) - n
      /\ \A j \in 1..(Len(q) - n) : v[j] = q[n + j]
  BY SubSeqProperties
<1>3. RemoveAt(q, n) = u \o v
  BY DEF RemoveAt
<1> HIDE DEF u, v
<1> DEFINE r == u \o v
<1>4. /\ r \in Seq(S) /\ Len(r) = Len(u) + Len(v)
      /\ \A j \in 1..(Len(u) + Len(v)) : r[j] = IF j <= Len(u) THEN u[j] ELSE v[j - Len(u)]
  BY <1>1, <1>2, ConcatProperties
<1> HIDE DEF r
<1>5. n \in Nat /\ Len(q) \in Nat /\ n >= 1 /\ n <= Len(q) /\ Len(r) = Len(q) - 1
  BY <1>1, <1>2, <1>4
<1>6. ASSUME NEW j \in 1..Len(r) PROVE \E m \in 1..Len(q) : r[j] = q[m]
  <2>1. CASE j <= n - 1
    BY <1>1, <1>4, <1>5, <1>6, <2>1
  <2>2. CASE j > n - 1
    <3>1. j - (n - 1) \in 1..(Len(q) - n) /\ r[j] = v[j - (n - 1)]
      BY <1>1, <1>2, <1>4, <1>5, <1>6, <2>2
    <3>2. v[j - (n - 1)] = q[n + (j - (n - 1))]
      BY <1>2, <3>1
    <3>3. n + (j - (n - 1)) \in 1..Len(q)
      BY <1>5, <3>1
    <3>4. QED BY <3>1, <3>2, <3>3
  <2>3. QED BY <1>5, <1>6, <2>1, <2>2
<1>7. ASSUME NEW m \in 1..Len(q) \ {n} PROVE \E j \in 1..Len(r) : r[j] = q[m]
  <2>1. CASE m < n
    <3>1. m \in 1..Len(r) /\ r[m] = q[m]
      BY <1>1, <1>2, <1>4, <1>5, <1>7, <2>1
    <3>2. QED BY <3>1
  <2>2. CASE m > n
    <3>1. m - 1 \in 1..Len(r) /\ m - n \in 1..(Len(q) - n)
      BY <1>5, <1>7, <2>2
    <3>2. r[m - 1] = v[(m - 1) - (n - 1)]
      <4>1. ~(m - 1 <= n - 1)
        BY <1>5, <1>7, <2>2
      <4>2. m - 1 \in 1..(Len(u) + Len(v))
        BY <1>1, <1>2, <1>5, <3>1
      <4>3. QED BY <1>1, <1>4, <4>1, <4>2
    <3>3. (m - 1) - (n - 1) = m - n /\ n + (m - n) = m
      BY <1>5, <1>7
    <3>4. v[m - n] = q[m]
      BY <1>2, <3>1, <3>3
    <3>5. QED BY <3>1, <3>2, <3>3, <3>4
  <2>3. QED BY <1>5, <1>7, <2>1, <2>2
<1>8. QED BY <1>3, <1>4, <1>6, <1>7 DEF r

\* At the start nothing is combined.
LEMMA AbortStart == AbortInit => AbortInv
<1> SUFFICES ASSUME AbortInit PROVE AbortInv
  OBVIOUS
<1>1. /\ \A d \in Combined : sources[d] = {} /\ d \notin aborted
      /\ \A s \in Signals : listeners[s] = <<>>
      /\ frames = <<>>
  BY AbortAssumption DEF AbortInit
<1>2. AbortTypeOK
  BY DEF AbortInit, AbortTypeOK, Signals
<1>3. ListenersMean /\ Hears /\ AboutToHear /\ Caused /\ SourcesMade
  BY <1>1 DEF ListenersMean, Hears, AboutToHear, Caused, SourcesMade
<1>4. QED BY <1>2, <1>3 DEF AbortInv

\* Aborting s under the calls f: what the three parts about hearing need of f.
LEMMA AbortKeeps ==
  ASSUME AbortInv, NEW s \in Signals, NEW f \in Seq(Frame), AbortIn(f, s),
         s \in Combined => sources[s] \cap (aborted \cup faked) # {},
         \A k \in 1..Len(f) : f[k].signal \in aborted \cup faked,
         \A d \in Combined \ {s} : \A t \in sources[d] : t \in aborted /\ d \notin aborted =>
           \E k \in 1..Len(f) :
             /\ f[k].signal = t
             /\ \E j \in 1..Len(listeners[t]) : j >= f[k].next /\ listeners[t][j] = d,
         UNCHANGED <<listeners, sources, faked>>
  PROVE  AbortInv'
<1> USE DEF AbortInv
<1>1. CASE s \in aborted
  <2>1. frames' = f /\ aborted' = aborted
    BY <1>1 DEF AbortIn
  <2>2. AbortTypeOK' /\ SourcesMade' /\ ListenersMean' /\ Hears'
    BY <2>1 DEF AbortTypeOK, SourcesMade, Made, ListenersMean, Hears
  <2>3. AboutToHear'
    BY <1>1, <2>1 DEF AboutToHear
  <2>4. Caused'
    BY <2>1 DEF Caused
  <2>5. QED BY <2>2, <2>3, <2>4
<1>2. CASE s \notin aborted
  <2> DEFINE x == [signal |-> s, next |-> 1]
  <2>1. frames' = Append(f, x) /\ aborted' = aborted \cup {s}
    BY <1>2 DEF AbortIn
  <2>2. x \in Frame /\ x.signal = s /\ x.next = 1
    BY DEF Frame
  <2> HIDE DEF x
  <2>3. /\ frames' \in Seq(Frame) /\ Len(frames') = Len(f) + 1 /\ Len(f) \in Nat
        /\ \A k \in 1..Len(f) : frames'[k] = f[k]
        /\ frames'[Len(f) + 1] = x
    BY <2>1, <2>2, AppendProperties
  <2>4. AbortTypeOK' /\ SourcesMade' /\ ListenersMean' /\ Hears'
    BY <2>1, <2>3 DEF AbortTypeOK, SourcesMade, Made, ListenersMean, Hears
  <2>5. ASSUME NEW d \in Combined, NEW t \in sources[d], t \in aborted \cup {s}, d \notin aborted \cup {s}
        PROVE  \E k \in 1..Len(frames') :
                 /\ frames'[k].signal = t
                 /\ \E j \in 1..Len(listeners[t]) : j >= frames'[k].next /\ listeners[t][j] = d
    <3>1. CASE t \in aborted
      <4>1. PICK k \in 1..Len(f) :
              /\ f[k].signal = t
              /\ \E j \in 1..Len(listeners[t]) : j >= f[k].next /\ listeners[t][j] = d
        BY <2>5, <3>1
      <4>2. k \in 1..Len(frames') /\ frames'[k] = f[k]
        BY <2>3
      <4>3. QED BY <4>1, <4>2
    <3>2. CASE t = s
      <4>1. PICK j \in 1..Len(listeners[t]) : listeners[t][j] = d
        BY <2>5 DEF Hears
      <4>2. Len(f) + 1 \in 1..Len(frames') /\ frames'[Len(f) + 1].signal = t /\ j >= frames'[Len(f) + 1].next
        BY <2>2, <2>3, <3>2
      <4>3. QED BY <4>1, <4>2
    <3>3. QED BY <2>5, <3>1, <3>2
  <2>6. AboutToHear'
    <3>1. aborted' = aborted \cup {s} /\ sources' = sources /\ listeners' = listeners
      BY <2>1
    <3>2. \A d \in Combined : \A t \in sources'[d] : t \in aborted' /\ d \notin aborted' =>
            \E k \in 1..Len(frames') :
              /\ frames'[k].signal = t
              /\ \E j \in 1..Len(listeners'[t]) : j >= frames'[k].next /\ listeners'[t][j] = d
      <4>1. \A d \in Combined : \A t \in sources[d] : t \in aborted \cup {s} /\ d \notin aborted \cup {s} =>
              \E k \in 1..Len(frames') :
                /\ frames'[k].signal = t
                /\ \E j \in 1..Len(listeners[t]) : j >= frames'[k].next /\ listeners[t][j] = d
        BY <2>5
      <4>2. QED BY <3>1, <4>1
    <3>3. QED BY <3>2, Zenon DEF AboutToHear
  <2>7. Caused'
    <3>1. \A k \in 1..Len(frames') : frames'[k].signal \in aborted' \cup faked'
      <4>1. \A k \in 1..Len(frames') : k \in 1..Len(f) \/ k = Len(f) + 1
        BY <2>3
      <4>2. \A k \in 1..Len(f) : frames'[k].signal \in aborted' \cup faked'
        BY <2>1, <2>3
      <4>3. frames'[Len(f) + 1].signal \in aborted'
        BY <2>1, <2>2, <2>3
      <4>4. QED BY <4>1, <4>2, <4>3
    <3>2. \A d \in Combined : d \in aborted' => sources'[d] \cap (aborted' \cup faked') # {}
      <4>1. \A d \in Combined \ {s} : d \in aborted => sources[d] \cap (aborted \cup faked) # {}
        BY DEF Caused
      <4>2. aborted' = aborted \cup {s} /\ sources' = sources /\ faked' = faked
        BY <2>1
      <4>3. QED BY <4>1, <4>2
    <3>3. QED BY <3>1, <3>2 DEF Caused
  <2>8. QED BY <2>4, <2>6, <2>7
<1>3. QED BY <1>1, <1>2

-----------------------------------------------------------------------------
\* Every step keeps the invariant.
LEMMA AbortStep == AbortInv /\ [AbortNext]_abortVars => AbortInv'
<1> SUFFICES ASSUME AbortInv, [AbortNext]_abortVars PROVE AbortInv'
  OBVIOUS
<1> USE AbortAssumption DEF AbortInv
<1>1. /\ frames \in Seq(Frame) /\ Len(frames) \in Nat /\ Controlled \subseteq Signals
      /\ Made \subseteq Signals /\ Combined \subseteq Signals
      /\ \A k \in 1..Len(frames) : frames[k].signal \in Signals /\ frames[k].next \in Nat \ {0}
      /\ \A s \in Signals : listeners[s] \in Seq(Listeners \cup Combined) /\ Len(listeners[s]) \in Nat
  <2>1. frames \in Seq(Frame) /\ listeners \in [Signals -> Seq(Listeners \cup Combined)]
    BY DEF AbortTypeOK
  <2>2. Controlled \subseteq Signals /\ Made \subseteq Signals /\ Combined \subseteq Signals
    BY DEF Signals, Made
  <2>3. \A k \in 1..Len(frames) : frames[k] \in Frame
    BY <2>1
  <2>4. \A k \in 1..Len(frames) : frames[k].signal \in Signals /\ frames[k].next \in Nat \ {0}
    BY <2>3 DEF Frame
  <2>5. QED BY <2>1, <2>2, <2>4
<1>2. ASSUME NEW s \in Controlled, TimeOut(s) \/ ScriptAbort(s) PROVE AbortInv'
  <2>1. AbortIn(frames, s) /\ UNCHANGED <<listeners, sources, faked>> /\ s \in Signals /\ s \notin Combined
    BY <1>1, <1>2 DEF TimeOut, ScriptAbort
  <2>2. QED
    BY <1>1, <2>1, AbortKeeps DEF AboutToHear, Caused
<1>3. ASSUME NEW s \in Made, ScriptDispatch(s) PROVE AbortInv'
  <2> DEFINE x == [signal |-> s, next |-> 1]
  <2>1. /\ frames' = Append(frames, x) /\ faked' = faked \cup {s}
        /\ UNCHANGED <<aborted, listeners, sources>>
    BY <1>3 DEF ScriptDispatch
  <2>2. x \in Frame /\ x.signal = s /\ s \in Signals
    BY <1>1 DEF Frame
  <2> HIDE DEF x
  <2>3. /\ frames' \in Seq(Frame) /\ Len(frames') = Len(frames) + 1
        /\ \A k \in 1..Len(frames) : frames'[k] = frames[k]
        /\ frames'[Len(frames) + 1] = x
    BY <1>1, <2>1, <2>2, AppendProperties
  <2>4. AbortTypeOK' /\ SourcesMade' /\ ListenersMean' /\ Hears'
    BY <2>1, <2>2, <2>3 DEF AbortTypeOK, SourcesMade, Made, ListenersMean, Hears
  <2>5. AboutToHear'
    BY <1>1, <2>1, <2>3 DEF AboutToHear
  <2>6. Caused'
    BY <1>1, <2>1, <2>2, <2>3 DEF Caused
  <2>7. QED BY <2>4, <2>5, <2>6
\* Another list of listeners at s, which no dispatch walks through.
<1>4. ASSUME NEW s \in Signals, NEW q \in Seq(Listeners \cup Combined), ~Dispatching(s),
             \A j \in 1..Len(q) : q[j] \in Combined => s \in sources[q[j]],
             \A j \in 1..Len(listeners[s]) : listeners[s][j] \in Combined =>
               \E m \in 1..Len(q) : q[m] = listeners[s][j],
             listeners' = [listeners EXCEPT ![s] = q],
             UNCHANGED <<aborted, sources, frames, faked>>
      PROVE  AbortInv'
  <2>1. AbortTypeOK' /\ SourcesMade' /\ Caused'
    BY <1>4 DEF AbortTypeOK, SourcesMade, Made, Caused
  <2>2. /\ listeners'[s] = q /\ \A t \in Signals \ {s} : listeners'[t] = listeners[t]
        /\ \A k \in 1..Len(frames) : frames[k].signal # s
    BY <1>1, <1>4 DEF AbortTypeOK, Dispatching
  <2>3. ListenersMean'
    BY <1>4, <2>2 DEF ListenersMean
  <2>4. ASSUME NEW d \in Combined, NEW t \in sources[d], d \notin aborted
        PROVE  \E j \in 1..Len(listeners'[t]) : listeners'[t][j] = d
    <3>1. t \in Signals
      BY DEF AbortTypeOK
    <3>2. PICK j \in 1..Len(listeners[t]) : listeners[t][j] = d
      BY <2>4 DEF Hears
    <3>3. CASE t = s
      BY <1>4, <2>2, <3>2, <3>3
    <3>4. CASE t # s
      BY <2>2, <3>1, <3>2, <3>4
    <3>5. QED BY <3>3, <3>4
  <2>5. Hears'
    BY <1>4, <2>4 DEF Hears
  <2>6. ASSUME NEW d \in Combined, NEW t \in sources[d], t \in aborted, d \notin aborted
        PROVE  \E k \in 1..Len(frames) :
                 /\ frames[k].signal = t
                 /\ \E j \in 1..Len(listeners'[t]) : j >= frames[k].next /\ listeners'[t][j] = d
    <3>1. PICK k \in 1..Len(frames) :
            /\ frames[k].signal = t
            /\ \E j \in 1..Len(listeners[t]) : j >= frames[k].next /\ listeners[t][j] = d
      BY <2>6 DEF AboutToHear
    <3>2. t \in Signals \ {s}
      BY <1>1, <2>2, <3>1
    <3>3. QED BY <2>2, <3>1, <3>2
  <2>7. AboutToHear'
    BY <1>4, <2>6 DEF AboutToHear
  <2>8. QED BY <2>1, <2>3, <2>5, <2>7
<1>5. ASSUME NEW s \in Made, NEW l \in Listeners, AddListener(s, l) PROVE AbortInv'
  <2> DEFINE q == Append(listeners[s], l)
  <2>1. /\ ~Dispatching(s) /\ listeners' = [listeners EXCEPT ![s] = q] /\ s \in Signals
        /\ UNCHANGED <<aborted, sources, frames, faked>> /\ listeners[s] \in Seq(Listeners \cup Combined)
    BY <1>1, <1>5 DEF AddListener
  <2>2. /\ q \in Seq(Listeners \cup Combined) /\ Len(q) = Len(listeners[s]) + 1
        /\ \A j \in 1..Len(listeners[s]) : q[j] = listeners[s][j]
        /\ q[Len(listeners[s]) + 1] = l
    BY <2>1, AppendProperties
  <2> HIDE DEF q
  <2>3. \A j \in 1..Len(q) : q[j] \in Combined => s \in sources[q[j]]
    BY <1>1, <2>1, <2>2 DEF ListenersMean
  <2>4. \A j \in 1..Len(listeners[s]) : \E m \in 1..Len(q) : q[m] = listeners[s][j]
    BY <1>1, <2>1, <2>2
  <2>5. QED BY <1>4, <2>1, <2>2, <2>3, <2>4
<1>6. ASSUME NEW s \in Made, NEW l \in Listeners, RemoveListener(s, l) PROVE AbortInv'
  <2>1. PICK n \in DOMAIN listeners[s] :
          listeners[s][n] = l /\ listeners' = [listeners EXCEPT ![s] = RemoveAt(@, n)]
    BY <1>6 DEF RemoveListener
  <2> DEFINE q == RemoveAt(listeners[s], n)
  <2>2. /\ ~Dispatching(s) /\ listeners' = [listeners EXCEPT ![s] = q] /\ s \in Signals
        /\ UNCHANGED <<aborted, sources, frames, faked>> /\ listeners[s] \in Seq(Listeners \cup Combined)
        /\ n \in 1..Len(listeners[s])
    <3>1. /\ ~Dispatching(s) /\ s \in Signals /\ UNCHANGED <<aborted, sources, frames, faked>>
          /\ listeners[s] \in Seq(Listeners \cup Combined)
      BY <1>1, <1>6 DEF RemoveListener
    <3>2. n \in 1..Len(listeners[s])
      BY <3>1
    <3>3. QED BY <2>1, <3>1, <3>2
  <2>3. /\ q \in Seq(Listeners \cup Combined)
        /\ \A j \in 1..Len(q) : \E m \in 1..Len(listeners[s]) : q[j] = listeners[s][m]
        /\ \A m \in 1..Len(listeners[s]) \ {n} : \E j \in 1..Len(q) : q[j] = listeners[s][m]
    <3> DEFINE before == listeners[s]
               T == Listeners \cup Combined
    <3>1. before \in Seq(T) /\ n \in 1..Len(before)
      BY <2>2
    <3> HIDE DEF before, T
    <3>2. /\ RemoveAt(before, n) \in Seq(T)
          /\ \A j \in 1..Len(RemoveAt(before, n)) : \E m \in 1..Len(before) : RemoveAt(before, n)[j] = before[m]
          /\ \A m \in 1..Len(before) \ {n} : \E j \in 1..Len(RemoveAt(before, n)) : RemoveAt(before, n)[j] = before[m]
      BY <3>1, RemoveAtKeeps
    <3>3. QED BY <3>2, Zenon DEF before, T
  <2> HIDE DEF q
  <2>4. \A j \in 1..Len(q) : q[j] \in Combined => s \in sources[q[j]]
    BY <2>2, <2>3 DEF ListenersMean
  <2>5. \A m \in 1..Len(listeners[s]) : listeners[s][m] \in Combined =>
          \E j \in 1..Len(q) : q[j] = listeners[s][m]
    BY <2>1, <2>3
  <2>6. QED BY <1>4, <2>2, <2>3, <2>4, <2>5
<1>7. ASSUME NEW d \in Combined, NEW list \in SUBSET Signals, list # {}, AnyOf(d, list) PROVE AbortInv'
  <2>1. /\ sources[d] = {} /\ list \subseteq Made /\ sources' = [sources EXCEPT ![d] = list]
        /\ UNCHANGED <<frames, faked>>
    BY <1>7 DEF AnyOf
  <2>2. d \notin Made /\ d \in Signals
    BY <1>1, <2>1 DEF Made
  <2>3. /\ sources'[d] = list /\ \A e \in Combined \ {d} : sources'[e] = sources[e]
        /\ sources' \in [Combined -> SUBSET Signals]
    BY <2>1 DEF AbortTypeOK
  <2>4. \A e \in Combined : d \notin sources[e] /\ d \notin sources'[e]
    BY <2>1, <2>2, <2>3 DEF SourcesMade
  <2>5. SourcesMade'
    <3>1. Made \subseteq Made'
      BY <1>7, <2>1, <2>3 DEF Made
    <3>2. QED BY <2>1, <2>3, <3>1 DEF SourcesMade
  <2>6. CASE list \cap aborted # {}
    <3>1. aborted' = aborted \cup {d} /\ listeners' = listeners
      BY <1>7, <2>6 DEF AnyOf
    <3>2. AbortTypeOK'
      BY <2>1, <2>2, <2>3, <3>1 DEF AbortTypeOK
    <3>3. ListenersMean'
      BY <2>1, <2>3, <3>1 DEF ListenersMean
    <3>4. Hears' /\ AboutToHear'
      BY <2>1, <2>3, <2>4, <3>1 DEF Hears, AboutToHear
    <3>5. Caused'
      BY <2>1, <2>3, <2>6, <3>1 DEF Caused
    <3>6. QED BY <2>5, <3>2, <3>3, <3>4, <3>5
  <2>7. CASE list \cap aborted = {}
    <3>1. /\ aborted' = aborted
          /\ listeners' = [s \in Signals |-> IF s \in list THEN Append(listeners[s], d) ELSE listeners[s]]
      BY <1>7, <2>7 DEF AnyOf
    <3>2. ASSUME NEW s \in Signals
          PROVE  /\ listeners'[s] \in Seq(Listeners \cup Combined)
                 /\ Len(listeners'[s]) = IF s \in list THEN Len(listeners[s]) + 1 ELSE Len(listeners[s])
                 /\ \A j \in 1..Len(listeners[s]) : listeners'[s][j] = listeners[s][j]
                 /\ s \in list => listeners'[s][Len(listeners[s]) + 1] = d
      <4>1. CASE s \in list
        <5>1. listeners'[s] = Append(listeners[s], d) /\ d \in Listeners \cup Combined
          BY <3>1, <3>2, <4>1
        <5>2. listeners[s] \in Seq(Listeners \cup Combined)
          BY <1>1, <3>2
        <5>3. QED BY <4>1, <5>1, <5>2, AppendProperties
      <4>2. CASE s \notin list
        BY <1>1, <3>1, <3>2, <4>2
      <4>3. QED BY <4>1, <4>2
    <3>3. AbortTypeOK'
      BY <2>1, <2>3, <3>1, <3>2 DEF AbortTypeOK
    <3>4. ASSUME NEW s \in Signals, NEW j \in 1..Len(listeners'[s]), listeners'[s][j] \in Combined
          PROVE  \E e \in Combined : listeners'[s][j] = e /\ s \in sources'[e]
      <4>1. CASE j \in 1..Len(listeners[s])
        <5>1. s \in sources[listeners[s][j]] /\ listeners'[s][j] = listeners[s][j]
          BY <3>2, <3>4, <4>1 DEF ListenersMean
        <5>2. QED BY <2>1, <2>3, <3>4, <5>1
      <4>2. CASE j \notin 1..Len(listeners[s])
        <5>1. s \in list /\ j = Len(listeners[s]) + 1
          BY <1>1, <3>2, <3>4, <4>2
        <5>2. QED BY <2>3, <3>2, <5>1
      <4>3. QED BY <4>1, <4>2
    <3>5. ListenersMean'
      BY <3>4 DEF ListenersMean
    <3>6. ASSUME NEW e \in Combined, NEW s \in sources'[e], e \notin aborted
          PROVE  \E j \in 1..Len(listeners'[s]) : listeners'[s][j] = e
      <4>1. s \in Signals
        BY <2>3, <3>6
      <4>2. CASE e = d
        <5>1. s \in list /\ Len(listeners[s]) + 1 \in 1..Len(listeners'[s])
          BY <1>1, <2>3, <3>2, <3>6, <4>1, <4>2
        <5>2. QED BY <3>2, <4>1, <4>2, <5>1
      <4>3. CASE e # d
        <5>1. PICK j \in 1..Len(listeners[s]) : listeners[s][j] = e
          BY <2>3, <3>6, <4>3 DEF Hears
        <5>2. /\ Len(listeners[s]) \in Nat
              /\ Len(listeners'[s]) \in {Len(listeners[s]), Len(listeners[s]) + 1}
          BY <1>1, <3>2, <4>1
        <5>3. j \in 1..Len(listeners'[s])
          BY <5>1, <5>2
        <5>4. listeners'[s][j] = e
          BY <3>2, <4>1, <5>1
        <5>5. QED BY <5>3, <5>4
      <4>4. QED BY <4>2, <4>3
    <3>7. Hears'
      BY <3>1, <3>6 DEF Hears
    <3>8. ASSUME NEW e \in Combined, NEW s \in sources'[e], s \in aborted, e \notin aborted
          PROVE  \E k \in 1..Len(frames) :
                   /\ frames[k].signal = s
                   /\ \E j \in 1..Len(listeners'[s]) : j >= frames[k].next /\ listeners'[s][j] = e
      <4>1. e # d /\ s \in sources[e] /\ s \in Signals
        BY <2>3, <2>7, <3>8
      <4>2. PICK k \in 1..Len(frames) :
              /\ frames[k].signal = s
              /\ \E j \in 1..Len(listeners[s]) : j >= frames[k].next /\ listeners[s][j] = e
        BY <3>8, <4>1 DEF AboutToHear
      <4>3. PICK j \in 1..Len(listeners[s]) : j >= frames[k].next /\ listeners[s][j] = e
        BY <4>2
      <4>4. Len(listeners[s]) \in Nat /\ Len(listeners'[s]) \in {Len(listeners[s]), Len(listeners[s]) + 1}
        BY <1>1, <3>2, <4>1
      <4>5. j \in 1..Len(listeners'[s])
        BY <4>3, <4>4
      <4>6. listeners'[s][j] = e
        BY <3>2, <4>1, <4>3
      <4>7. QED BY <4>2, <4>3, <4>5, <4>6
    <3>9. AboutToHear'
      <4>1. UNCHANGED <<frames, aborted>>
        BY <2>1, <3>1
      <4>2. QED BY <3>8, <4>1 DEF AboutToHear
    <3>10. Caused'
      BY <2>1, <2>3, <2>7, <3>1 DEF Caused
    <3>11. QED BY <2>5, <3>3, <3>5, <3>7, <3>9, <3>10
  <2>8. QED BY <2>6, <2>7
<1>8. CASE Step
  <2> DEFINE n == Len(frames)
             f == frames[n]
             on == [frames EXCEPT ![n] = [f EXCEPT !.next = @ + 1]]
             l == listeners[f.signal][f.next]
  <2>1. /\ n \in 1..n /\ f \in Frame /\ f.signal \in Signals /\ f.next \in Nat \ {0}
        /\ Last(frames) = f /\ UNCHANGED <<listeners, sources, faked>>
    BY <1>1, <1>8 DEF Step, Last
  <2>2. /\ on \in Seq(Frame) /\ Len(on) = n /\ on[n].signal = f.signal /\ on[n].next = f.next + 1
        /\ \A k \in 1..n \ {n} : on[k] = frames[k]
    <3> DEFINE x == [f EXCEPT !.next = @ + 1]
    <3>1. x \in Frame /\ x.signal = f.signal /\ x.next = f.next + 1
      BY <2>1 DEF Frame
    <3> HIDE DEF x
    <3>2. QED BY <1>1, <2>1, <3>1 DEF x
  <2>3. CASE f.next > Len(listeners[f.signal])
    <3>1. frames' = Front(frames) /\ aborted' = aborted
      BY <1>8, <2>1, <2>3 DEF Step
    <3>2. /\ frames' \in Seq(Frame) /\ Len(frames') = n - 1
          /\ \A k \in 1..(n - 1) : frames'[k] = frames[k]
      <4>1. frames' = SubSeq(frames, 1, n - 1) /\ n - 1 \in 0..n /\ n \in Nat
        BY <1>1, <2>1, <3>1 DEF Front
      <4>2. \A k \in 1..(n - 1) : frames[k] \in Frame
        BY <1>1, <4>1
      <4> DEFINE q == SubSeq(frames, 1, n - 1)
      <4>3. /\ q \in Seq(Frame) /\ Len(q) = IF 1 <= n - 1 THEN (n - 1) - 1 + 1 ELSE 0
            /\ \A k \in 1..((n - 1) - 1 + 1) : q[k] = frames[1 + k - 1]
        BY <4>1, <4>2, SubSeqProperties
      <4> HIDE DEF q
      <4>4. Len(q) = n - 1 /\ \A k \in 1..(n - 1) : q[k] = frames[k]
        <5>1. (n - 1) - 1 + 1 = n - 1 /\ (1 <= n - 1 \/ n - 1 = 0)
          <6>1. n \in Nat /\ n >= 1
            BY <1>1, <2>1
          <6> HIDE DEF n
          <6>2. QED BY <6>1
        <5>2. \A k \in 1..(n - 1) : 1 + k - 1 = k
          BY <4>1
        <5>3. QED BY <4>3, <5>1, <5>2
      <4>5. QED BY <4>1, <4>3, <4>4 DEF q
    <3>3. AbortTypeOK' /\ SourcesMade' /\ ListenersMean' /\ Hears'
      BY <2>1, <3>1, <3>2 DEF AbortTypeOK, SourcesMade, Made, ListenersMean, Hears
    <3>4. ASSUME NEW d \in Combined, NEW s \in sources[d], s \in aborted, d \notin aborted
          PROVE  \E k \in 1..Len(frames') :
                   /\ frames'[k].signal = s
                   /\ \E j \in 1..Len(listeners[s]) : j >= frames'[k].next /\ listeners[s][j] = d
      <4>1. PICK k \in 1..n :
              /\ frames[k].signal = s
              /\ \E j \in 1..Len(listeners[s]) : j >= frames[k].next /\ listeners[s][j] = d
        BY <3>4 DEF AboutToHear
      <4>2. k # n
        <5>1. SUFFICES ASSUME k = n PROVE FALSE
          OBVIOUS
        <5>2. s = f.signal /\ frames[k].next = f.next
          BY <4>1, <5>1
        <5>3. PICK j \in 1..Len(listeners[s]) : j >= f.next
          BY <4>1, <5>2
        <5>4. f.next \in Nat /\ f.next > Len(listeners[s]) /\ Len(listeners[s]) \in Nat
          BY <1>1, <2>1, <2>3, <5>2
        <5> HIDE DEF f
        <5>5. QED BY <5>3, <5>4
      <4>3. k \in 1..Len(frames') /\ frames'[k] = frames[k]
        BY <1>1, <3>2, <4>1, <4>2
      <4>4. QED BY <4>1, <4>3
    <3>5. AboutToHear'
      BY <2>1, <3>1, <3>4 DEF AboutToHear
    <3>6. Caused'
      BY <1>1, <2>1, <3>1, <3>2 DEF Caused
    <3>7. QED BY <3>3, <3>5, <3>6
  <2>4. CASE ~(f.next > Len(listeners[f.signal]))
    <3>1. IF l \in Listeners THEN frames' = on /\ aborted' = aborted ELSE AbortIn(on, l)
      BY <1>8, <2>1, <2>4 DEF Step
    <3>2. l \in Listeners \cup Combined /\ f.next \in 1..Len(listeners[f.signal])
      BY <1>1, <2>1, <2>4
    <3>3. \A k \in 1..n : on[k].signal = frames[k].signal /\ on[k].signal \in aborted \cup faked
      BY <2>1, <2>2 DEF Caused
    <3>4. ASSUME NEW d \in Combined, d # l, NEW s \in sources[d], s \in aborted, d \notin aborted
          PROVE  \E k \in 1..Len(on) :
                   /\ on[k].signal = s
                   /\ \E j \in 1..Len(listeners[s]) : j >= on[k].next /\ listeners[s][j] = d
      <4>1. PICK k \in 1..n :
              /\ frames[k].signal = s
              /\ \E j \in 1..Len(listeners[s]) : j >= frames[k].next /\ listeners[s][j] = d
        BY <3>4 DEF AboutToHear
      <4>2. PICK j \in 1..Len(listeners[s]) : j >= frames[k].next /\ listeners[s][j] = d
        BY <4>1
      <4>3. CASE k = n
        <5>1. s = f.signal /\ j # f.next
          BY <3>4, <4>1, <4>2, <4>3
        <5>2. j >= on[k].next
          BY <1>1, <2>1, <2>2, <4>2, <4>3, <5>1
        <5>3. QED BY <2>2, <3>3, <4>1, <4>2, <5>2
      <4>4. CASE k # n
        BY <2>2, <4>1, <4>4
      <4>5. QED BY <4>3, <4>4
    <3> HIDE DEF on
    <3>5. CASE l \in Listeners
      <4>1. frames' = on /\ aborted' = aborted
        BY <3>1, <3>5
      <4>2. AbortTypeOK' /\ SourcesMade' /\ ListenersMean' /\ Hears'
        BY <2>1, <2>2, <4>1 DEF AbortTypeOK, SourcesMade, Made, ListenersMean, Hears
      <4>3. \A d \in Combined : d # l
        BY <3>5
      <4>4. AboutToHear'
        BY <2>1, <3>4, <4>1, <4>3 DEF AboutToHear
      <4>5. Caused'
        BY <2>1, <2>2, <3>3, <4>1 DEF Caused
      <4>6. QED BY <4>2, <4>4, <4>5
    <3>6. CASE l \notin Listeners
      <4>1. l \in Combined /\ l \in Signals /\ AbortIn(on, l)
        BY <1>1, <3>1, <3>2, <3>6
      <4>2. f.signal \in sources[l]
        BY <2>1, <3>2, <4>1 DEF ListenersMean
      <4>3. sources[l] \cap (aborted \cup faked) # {}
        BY <2>1, <4>2 DEF Caused
      <4> DEFINE s == l
      <4>4. s \in Signals /\ AbortIn(on, s) /\ (s \in Combined => sources[s] \cap (aborted \cup faked) # {})
        BY <4>1, <4>3
      <4>5. \A d \in Combined \ {s} : \A t \in sources[d] : t \in aborted /\ d \notin aborted =>
              \E k \in 1..Len(on) :
                /\ on[k].signal = t
                /\ \E j \in 1..Len(listeners[t]) : j >= on[k].next /\ listeners[t][j] = d
        BY <3>4
      <4> HIDE DEF s, l, f
      <4>6. QED BY <2>1, <2>2, <3>3, <4>4, <4>5, AbortKeeps
    <3>7. QED BY <3>5, <3>6
  <2>5. QED BY <2>3, <2>4
<1>9. CASE UNCHANGED abortVars
  <2>1. UNCHANGED <<aborted, listeners, sources, frames, faked>>
    BY <1>9 DEF abortVars
  <2>2. AbortTypeOK' /\ SourcesMade'
    BY <2>1 DEF AbortTypeOK, SourcesMade, Made
  <2>3. ListenersMean' /\ Hears'
    BY <2>1 DEF ListenersMean, Hears
  <2>4. AboutToHear' /\ Caused'
    BY <2>1 DEF AboutToHear, Caused
  <2>5. QED BY <2>2, <2>3, <2>4
<1>10. ASSUME AbortNext PROVE AbortInv'
  <2>1. ASSUME NEW d \in Combined, NEW list \in (SUBSET Signals) \ {{}}, AnyOf(d, list) PROVE AbortInv'
    <3>1. list \in SUBSET Signals /\ list # {}
      OBVIOUS
    <3>2. QED BY <1>7, <2>1, <3>1
  <2>2. QED BY <1>2, <1>3, <1>5, <1>6, <1>8, <1>10, <2>1 DEF AbortNext
<1>11. QED BY <1>9, <1>10

\* The invariant holds in every reachable state.
THEOREM AbortInvariant == AbortSpec => []AbortInv
BY AbortStart, AbortStep, PTL DEF AbortSpec

\* When no dispatch is under way, a combined signal is aborted exactly as its sources say.
THEOREM SourcesAreFollowed == AbortSpec => []AnyFollowsSources
<1>1. AbortInv => AnyFollowsSources
  BY DEF AbortInv, AnyFollowsSources, AboutToHear, Caused
<1>2. QED BY <1>1, AbortInvariant, PTL

-----------------------------------------------------------------------------
(***************************************************************************)
(* Combinators. What a call has given agrees with the reference definition *)
(* item by item, so that lengths decide; the invariant of each kind says   *)
(* how much it has given when its upstreams have got as far as they have   *)
(* and its call is where it is. The functions that are recursive over a    *)
(* sequence exist, and mean what their equations say, because there is no  *)
(* least number up to which they would not.                                *)
(***************************************************************************)

\* A set of numbers that is not empty has a least one.
LEMMA LeastOf ==
  ASSUME NEW S \in SUBSET Nat, S # {}
  PROVE  \E x \in S : \A y \in S : x <= y
<1>1. PICK x \in S : \A y \in S : ~(<<y, x>> \in OpToRel(<, Nat))
  BY WFMin, NatLessThanWellFounded
<1>2. \A y \in S : <<y, x>> \in Nat \X Nat /\ (y < x => <<y, x>> \in OpToRel(<, Nat))
  BY DEF OpToRel
<1>3. \A y \in S : ~(y < x)
  BY <1>1, <1>2
<1>4. \A y \in S : x <= y
  BY <1>3
<1>5. QED BY <1>4

\* What holds of 0 and of each number when of the one before holds of all.
LEMMA UpTo ==
  ASSUME NEW n \in Nat, NEW S, 0 \in S, \A k \in 1..n : k - 1 \in S => k \in S
  PROVE  \A k \in 0..n : k \in S
<1> DEFINE Bad == {k \in 0..n : k \notin S}
<1> SUFFICES ASSUME Bad # {} PROVE FALSE
  OBVIOUS
<1>1. PICK x \in Bad : \A y \in Bad : x <= y
  <2>1. Bad \in SUBSET Nat
    OBVIOUS
  <2> HIDE DEF Bad
  <2>2. QED BY <2>1, LeastOf
<1>2. x \in 0..n /\ x \notin S
  BY <1>1
<1>3. x # 0
  BY <1>2
<1>4. x \in 1..n /\ x - 1 \in 0..n /\ ~(x <= x - 1)
  BY <1>2, <1>3
<1>5. x - 1 \notin Bad
  BY <1>1, <1>4
<1>6. x - 1 \in S
  BY <1>4, <1>5
<1>7. QED BY <1>2, <1>4, <1>6

\* A function with the value v0 at 0 and, at k, F[k] of that at k - 1.
Solvable(n, V, v0, F) ==
  \E r \in [0..n -> V] : r[0] = v0 /\ \A k \in 1..n : r[k] = F[k][r[k - 1]]

\* A function whose value at a number depends on that at the one before exists.
LEMMA LineRecursion ==
  ASSUME NEW n \in Nat, NEW V, NEW v0 \in V, NEW F \in [1..n -> [V -> V]]
  PROVE  Solvable(n, V, v0, F)
<1> DEFINE Solves(r, m) == r[0] = v0 /\ \A k \in 1..m : r[k] = F[k][r[k - 1]]
           Good(m) == \E r \in [0..m -> V] : Solves(r, m)
           S == {m \in 0..n : Good(m)}
<1>1. 0 \in S
  <2>1. [k \in 0..0 |-> v0] \in [0..0 -> V] /\ Solves([k \in 0..0 |-> v0], 0)
    OBVIOUS
  <2>2. Good(0)
    BY <2>1
  <2>3. QED BY <2>2
<1>2. ASSUME NEW m \in 1..n, m - 1 \in S PROVE m \in S
  <2>1. PICK r \in [0..(m - 1) -> V] : Solves(r, m - 1)
    BY <1>2
  <2> DEFINE v == F[m][r[m - 1]]
             q == [k \in 0..m |-> IF k = m THEN v ELSE r[k]]
  <2>2. v \in V
    <3>1. m - 1 \in 0..(m - 1)
      BY <1>2
    <3>2. QED BY <3>1
  <2>3. q \in [0..m -> V]
    <3>1. \A k \in 0..m : k # m => k \in 0..(m - 1)
      BY <1>2
    <3>2. QED BY <2>2, <3>1
  <2>4. q[0] = v0
    <3>1. 0 # m /\ 0 \in 0..m
      BY <1>2
    <3>2. QED BY <2>1, <3>1
  <2>5. ASSUME NEW k \in 1..m PROVE q[k] = F[k][q[k - 1]]
    <3>1. k - 1 \in 0..m /\ k - 1 # m /\ k \in 0..m
      BY <1>2
    <3>2. q[k - 1] = r[k - 1]
      BY <3>1
    <3>3. CASE k = m
      BY <3>1, <3>2, <3>3
    <3>4. CASE k # m
      <4>1. k \in 1..(m - 1)
        BY <1>2, <3>4
      <4>2. q[k] = r[k]
        BY <3>1, <3>4
      <4>3. r[k] = F[k][r[k - 1]]
        BY <2>1, <4>1
      <4> HIDE DEF q
      <4>4. QED BY <3>2, <4>2, <4>3
    <3>5. QED BY <3>3, <3>4
  <2>6. Good(m)
    <3> HIDE DEF q
    <3> QED BY <2>3, <2>4, <2>5
  <2> HIDE DEF Good
  <2>7. QED BY <2>6
<1>3. \A m \in 0..n : m \in S
  <2> HIDE DEF S
  <2> QED BY <1>1, <1>2, UpTo
<1>4. Good(n)
  <2>1. n \in 0..n
    OBVIOUS
  <2>2. QED BY <1>3, <2>1
<1>5. QED BY <1>4 DEF Solvable

-----------------------------------------------------------------------------
\* The first n of the sequences ss, one after the other.
Flat(ss) == LET flat[n \in 0..Len(ss)] == IF n = 0 THEN <<>> ELSE flat[n - 1] \o ss[n] IN flat

\* The flattening of a sequence of sequences is built from the left.
LEMMA FlatMeans ==
  ASSUME NEW S, NEW ss \in Seq(Seq(S))
  PROVE  /\ \A n \in 0..Len(ss) : Flat(ss)[n] \in Seq(S)
         /\ Flat(ss)[0] = <<>>
         /\ \A n \in 1..Len(ss) : Flat(ss)[n] = Flat(ss)[n - 1] \o ss[n]
<1> DEFINE l == Len(ss)
           V == Seq(S)
           F == [n \in 1..l |-> [v \in V |-> v \o ss[n]]]
           P(r) == r = [n \in 0..l |-> IF n = 0 THEN <<>> ELSE r[n - 1] \o ss[n]]
<1>1. l \in Nat /\ (\A n \in 1..l : ss[n] \in V) /\ <<>> \in V
  OBVIOUS
<1>2. \A n \in 1..l : \A v \in V : v \o ss[n] \in V
  <2> SUFFICES ASSUME NEW n \in 1..l, NEW v \in Seq(S) PROVE v \o ss[n] \in Seq(S)
    OBVIOUS
  <2>1. ss[n] \in Seq(S)
    BY <1>1
  <2>2. QED BY <2>1, ConcatProperties
<1>3. PICK r \in [0..l -> V] : r[0] = <<>> /\ \A n \in 1..l : r[n] = F[n][r[n - 1]]
  <2>1. F \in [1..l -> [V -> V]]
    BY <1>2
  <2> DEFINE v0 == <<>>
  <2>2. l \in Nat /\ v0 \in V
    BY <1>1
  <2> HIDE DEF F, V, l, v0
  <2>3. Solvable(l, V, v0, F)
    BY <2>1, <2>2, LineRecursion
  <2>4. QED BY <2>3 DEF v0, Solvable
<1>4. \A n \in 1..l : r[n] = r[n - 1] \o ss[n]
  <2> SUFFICES ASSUME NEW n \in 1..l PROVE r[n] = r[n - 1] \o ss[n]
    OBVIOUS
  <2>1. n - 1 \in 0..l
    BY <1>1
  <2>2. r[n - 1] \in V
    BY <2>1
  <2>3. F[n][r[n - 1]] = r[n - 1] \o ss[n]
    <3> HIDE DEF V, l
    <3> QED BY <2>2
  <2>4. QED BY <1>3, <2>3
<1>5. P(r)
  <2>1. r = [n \in 0..l |-> r[n]]
    OBVIOUS
  <2>2. ASSUME NEW n \in 0..l PROVE r[n] = IF n = 0 THEN <<>> ELSE r[n - 1] \o ss[n]
    <3>1. n # 0 => n \in 1..l
      BY <1>1
    <3>2. QED BY <1>3, <1>4, <3>1
  <2> HIDE DEF l, V
  <2>3. QED BY <2>1, <2>2
<1> DEFINE q == Flat(ss)
<1>6. P(q)
  <2>1. q = CHOOSE x : P(x)
    BY Zenon DEF Flat
  <2>2. P(CHOOSE x : P(x))
    <3> HIDE DEF P
    <3> QED BY <1>5, Zenon
  <2>3. QED BY ONLY <2>1, <2>2, Zenon
<1>7. /\ \A n \in 0..l : q[n] = IF n = 0 THEN <<>> ELSE q[n - 1] \o ss[n]
  <2>1. q = [n \in 0..l |-> IF n = 0 THEN <<>> ELSE q[n - 1] \o ss[n]]
    BY <1>6, Zenon
  <2> HIDE DEF q, l
  <2>2. QED BY <2>1
<1> HIDE DEF q
<1>8. q[0] = <<>> /\ \A n \in 1..l : q[n] = q[n - 1] \o ss[n]
  <2>1. 0 \in 0..l /\ \A n \in 1..l : n \in 0..l /\ n # 0
    BY <1>1
  <2> HIDE DEF l
  <2>2. QED BY <1>7, <2>1
<1>9. \A n \in 0..l : q[n] \in V
  <2> DEFINE T == {n \in 0..l : q[n] \in V}
  <2> HIDE DEF V, l
  <2>1. 0 \in T
    <3>1. 0 \in 0..l
      BY <1>1
    <3>2. q[0] \in V
      BY <1>1, <1>8
    <3>3. QED BY <3>1, <3>2
  <2>2. ASSUME NEW n \in 1..l, n - 1 \in T PROVE n \in T
    <3>1. q[n] = q[n - 1] \o ss[n] /\ q[n - 1] \in V
      BY <1>8, <2>2
    <3>2. q[n] \in V
      BY <1>2, <3>1
    <3>3. n \in 0..l
      BY <1>1
    <3>4. QED BY <3>2, <3>3
  <2>3. \A n \in 0..l : n \in T
    <3> HIDE DEF T
    <3> QED BY <1>1, <2>1, <2>2, UpTo
  <2>4. QED BY <2>3
<1>10. QED BY <1>8, <1>9 DEF q

\* FlattenSeq is the last of these.
LEMMA FlatIsWhole ==
  ASSUME NEW S, NEW ss \in Seq(Seq(S))
  PROVE  FlattenSeq(ss) = Flat(ss)[Len(ss)]
<1> DEFINE l == Len(ss)
           P(r) == r = [n \in 1..l |-> IF n = 1 THEN ss[n] ELSE r[n - 1] \o ss[n]]
<1>1. l \in Nat /\ \A n \in 1..l : ss[n] \in Seq(S)
  OBVIOUS
<1> DEFINE f == Flat(ss)
<1>2. /\ \A n \in 0..l : f[n] \in Seq(S)
      /\ f[0] = <<>>
      /\ \A n \in 1..l : f[n] = f[n - 1] \o ss[n]
  BY FlatMeans
<1> HIDE DEF f
<1>3. CASE l = 0
  <2>1. ss = <<>>
    BY <1>3
  <2>2. QED BY <1>2, <1>3, <2>1 DEF FlattenSeq, f
<1>4. CASE l # 0
  <2> DEFINE q == CHOOSE x : P(x)
             r == [n \in 1..l |-> f[n]]
  <2>1. FlattenSeq(ss) = q[l]
    BY <1>4, Zenon DEF FlattenSeq
  <2>2. 1 \in 1..l /\ 0 \in 0..l
    BY <1>1, <1>4
  <2>3. f[1] = ss[1]
    <3>1. f[1] = <<>> \o ss[1]
      <4> HIDE DEF l
      <4>1. f[1] = f[1 - 1] \o ss[1]
        BY <1>2, <2>2
      <4>2. 1 - 1 = 0
        OBVIOUS
      <4>3. QED BY <1>2, <4>1, <4>2
    <3>2. QED BY <1>1, <2>2, <3>1, ConcatEmptySeq
  <2>4. P(r)
    <3>1. ASSUME NEW n \in 1..l PROVE r[n] = IF n = 1 THEN ss[n] ELSE r[n - 1] \o ss[n]
      <4>1. n # 1 => n - 1 \in 1..l
        BY <1>1
      <4>2. QED BY <1>2, <2>3, <4>1
    <3>2. r = [n \in 1..l |-> r[n]]
      OBVIOUS
    <3> HIDE DEF r, l
    <3>3. QED BY <3>1, <3>2
  <2>5. P(q)
    <3> HIDE DEF P, r
    <3> QED BY <2>4, Zenon
  <2> HIDE DEF q
  <2>6. \A n \in 1..l : q[n] = IF n = 1 THEN ss[n] ELSE q[n - 1] \o ss[n]
    <3>1. q = [n \in 1..l |-> IF n = 1 THEN ss[n] ELSE q[n - 1] \o ss[n]]
      BY <2>5, Zenon
    <3> HIDE DEF l
    <3>2. QED BY <3>1
  <2> DEFINE T == {n \in 0..l : n = 0 \/ q[n] = f[n]}
  <2>7. 0 \in T
    BY <2>2
  <2>8. ASSUME NEW n \in 1..l, n - 1 \in T PROVE n \in T
    <3>1. CASE n = 1
      BY <2>3, <2>6, <3>1
    <3>2. CASE n # 1
      <4>1. n - 1 # 0 /\ n \in 0..l
        BY <1>1, <3>2
      <4>2. q[n - 1] = f[n - 1]
        BY <2>8, <4>1
      <4>3. q[n] = f[n]
        BY <1>2, <2>6, <3>2, <4>2
      <4>4. QED BY <4>1, <4>3
    <3>3. QED BY <3>1, <3>2
  <2>9. \A n \in 0..l : n \in T
    <3> HIDE DEF T
    <3> QED BY <1>1, <2>7, <2>8, UpTo
  <2>10. q[l] = f[l]
    <3>1. l \in 0..l
      BY <1>1
    <3>2. QED BY <1>4, <2>9, <3>1
  <2>11. QED BY <2>1, <2>10 DEF f
<1>5. QED BY <1>3, <1>4

\* What the first n give stays where it is.
LEMMA FlatGrows ==
  ASSUME NEW S, NEW ss \in Seq(Seq(S)), NEW n \in 0..Len(ss)
  PROVE  /\ Len(Flat(ss)[n]) <= Len(Flat(ss)[Len(ss)])
         /\ \A k \in 1..Len(Flat(ss)[n]) : Flat(ss)[Len(ss)][k] = Flat(ss)[n][k]
<1> DEFINE l == Len(ss)
           f == Flat(ss)
           T == {m \in 0..l : n <= m => /\ Len(f[n]) <= Len(f[m])
                                        /\ \A k \in 1..Len(f[n]) : f[m][k] = f[n][k]}
<1>1. l \in Nat /\ \A m \in 1..l : ss[m] \in Seq(S)
  OBVIOUS
<1>2. /\ \A m \in 0..l : f[m] \in Seq(S)
      /\ f[0] = <<>>
      /\ \A m \in 1..l : f[m] = f[m - 1] \o ss[m]
  BY FlatMeans
<1> HIDE DEF f
<1>3. \A m \in 0..l : Len(f[m]) \in Nat
  BY <1>2, <1>1
<1>4. 0 \in T
  <2>1. n <= 0 => n = 0
    BY <1>2, <1>1
  <2>2. QED BY <1>2, <1>1, <1>3, <2>1
<1>5. ASSUME NEW m \in 1..l, m - 1 \in T PROVE m \in T
  <2>1. m \in 0..l /\ m - 1 \in 0..l
    BY <1>2, <1>1
  <2> SUFFICES ASSUME n <= m
               PROVE  Len(f[n]) <= Len(f[m]) /\ \A k \in 1..Len(f[n]) : f[m][k] = f[n][k]
    BY <2>1
  <2>2. CASE n = m
    <3>1. Len(f[m]) \in Nat
      BY <1>3, <2>1
    <3>2. QED BY <2>2, <3>1
  <2>3. CASE n # m
    <3>1. n <= m - 1
      BY <1>2, <1>1, <2>3
    <3>2. Len(f[n]) <= Len(f[m - 1]) /\ \A k \in 1..Len(f[n]) : f[m - 1][k] = f[n][k]
      BY <1>5, <3>1
    <3> DEFINE x == f[m - 1]
               y == ss[m]
    <3>3. x \in Seq(S) /\ y \in Seq(S) /\ f[m] = x \o y /\ Len(f[n]) \in Nat
      BY <1>2, <1>1, <1>3, <2>1
    <3>4. Len(f[n]) <= Len(x) /\ \A k \in 1..Len(f[n]) : x[k] = f[n][k]
      BY <3>2
    <3> HIDE DEF x, y
    <3>5. /\ Len(x \o y) = Len(x) + Len(y) /\ Len(x) \in Nat /\ Len(y) \in Nat
          /\ \A k \in 1..Len(x) + Len(y) : (x \o y)[k] = IF k <= Len(x) THEN x[k] ELSE y[k - Len(x)]
      BY <3>3, ConcatProperties
    <3>6. QED BY <3>3, <3>4, <3>5
  <2>4. QED BY <2>2, <2>3
<1>6. \A m \in 0..l : m \in T
  <2> HIDE DEF T
  <2> QED BY <1>2, <1>1, <1>4, <1>5, UpTo
<1>7. l \in 0..l /\ n <= l
  BY <1>2, <1>1
<1>8. QED BY <1>6, <1>7 DEF f

\* Of pairs the members come in turn.
LEMMA FlatPairs ==
  ASSUME NEW S, NEW ss \in Seq(Seq(S)), \A k \in 1..Len(ss) : Len(ss[k]) = 2
  PROVE  /\ Len(Flat(ss)[Len(ss)]) = 2 * Len(ss)
         /\ \A k \in 1..Len(ss) : /\ Flat(ss)[Len(ss)][2 * k - 1] = ss[k][1]
                                  /\ Flat(ss)[Len(ss)][2 * k] = ss[k][2]
<1> DEFINE l == Len(ss)
           f == Flat(ss)
           T == {m \in 0..l : Len(f[m]) = 2 * m}
<1>1. l \in Nat /\ \A m \in 1..l : ss[m] \in Seq(S) /\ Len(ss[m]) = 2
  OBVIOUS
<1>2. /\ \A m \in 0..l : f[m] \in Seq(S)
      /\ f[0] = <<>>
      /\ \A m \in 1..l : f[m] = f[m - 1] \o ss[m]
  BY FlatMeans
<1> HIDE DEF f
<1>3. 0 \in T
  BY <1>2, <1>1
<1>4. ASSUME NEW m \in 1..l
      PROVE  /\ Len(f[m]) = Len(f[m - 1]) + 2
             /\ Len(f[m - 1]) \in Nat
             /\ f[m][Len(f[m - 1]) + 1] = ss[m][1]
             /\ f[m][Len(f[m - 1]) + 2] = ss[m][2]
  <2> DEFINE x == f[m - 1]
             y == ss[m]
  <2>1. m - 1 \in 0..l
    BY <1>1
  <2>2. x \in Seq(S) /\ y \in Seq(S) /\ f[m] = x \o y /\ Len(y) = 2
    <3> HIDE DEF l
    <3> QED BY <1>2, <1>1, <2>1
  <2> HIDE DEF x, y
  <2>3. /\ Len(x \o y) = Len(x) + Len(y) /\ Len(x) \in Nat
        /\ \A k \in 1..Len(x) + Len(y) : (x \o y)[k] = IF k <= Len(x) THEN x[k] ELSE y[k - Len(x)]
    <3>1. x \in Seq(S) /\ y \in Seq(S)
      BY <2>2
    <3>2. /\ Len(x \o y) = Len(x) + Len(y)
          /\ \A k \in 1..Len(x) + Len(y) : (x \o y)[k] = IF k <= Len(x) THEN x[k] ELSE y[k - Len(x)]
      BY <3>1, ConcatProperties
    <3>3. QED BY <3>1, <3>2
  <2>4. (x \o y)[Len(x) + 1] = y[1] /\ (x \o y)[Len(x) + 2] = y[2]
    BY <2>2, <2>3
  <2>5. QED BY <2>2, <2>3, <2>4 DEF x, y
<1>5. ASSUME NEW m \in 1..l, m - 1 \in T PROVE m \in T
  <2>1. m \in 0..l /\ Len(f[m - 1]) = 2 * (m - 1)
    BY <1>2, <1>1, <1>5
  <2>2. Len(f[m]) = Len(f[m - 1]) + 2
    BY <1>4
  <2>3. QED BY <2>1, <2>2
<1>6. \A m \in 0..l : m \in T
  <2> HIDE DEF T
  <2> QED BY <1>2, <1>1, <1>3, <1>5, UpTo
<1>7. \A m \in 0..l : Len(f[m]) = 2 * m
  BY <1>6
<1>8. ASSUME NEW k \in 1..l PROVE f[l][2 * k - 1] = ss[k][1] /\ f[l][2 * k] = ss[k][2]
  <2>1. k \in 0..l /\ k - 1 \in 0..l
    BY <1>2, <1>1
  <2>2. Len(f[k]) = 2 * k /\ Len(f[k - 1]) = 2 * (k - 1)
    BY <1>7, <2>1
  <2>3. f[k][2 * k - 1] = ss[k][1] /\ f[k][2 * k] = ss[k][2]
    <3>1. 2 * (k - 1) + 1 = 2 * k - 1 /\ 2 * (k - 1) + 2 = 2 * k
      OBVIOUS
    <3>2. QED BY <1>4, <2>2, <3>1
  <2>4. \A j \in 1..Len(f[k]) : f[l][j] = f[k][j]
    BY <2>1, FlatGrows DEF f
  <2>5. 2 * k - 1 \in 1..Len(f[k]) /\ 2 * k \in 1..Len(f[k])
    BY <2>2
  <2>6. QED BY <2>3, <2>4, <2>5
<1>9. l \in 0..l
  BY <1>2, <1>1
<1>10. QED BY <1>7, <1>8, <1>9 DEF f

-----------------------------------------------------------------------------
\* What a combinator gives: numbers, and pairs of them.
Vals == Int \cup (Int \X Int)

\* The types, and how far the upstreams can have got.
CombTypeOK ==
  /\ kind \in Kinds /\ count \in Nat
  /\ first \in Seq(Int) /\ second \in Seq(Int) /\ current \in Seq(Int)
  /\ pos \in [Upstreams -> Nat]
  /\ \A u \in Upstreams : pos[u] <= Len(Stream(u))
  /\ pc \in {"idle"} \cup Upstreams
  /\ remaining \in Nat /\ flag \in BOOLEAN /\ acc \in Int /\ i \in Nat /\ a \in Int
  /\ out \in Seq(Vals) /\ ended \in BOOLEAN /\ stops \in Nat

\* The items of an upstream are numbers.
LEMMA InputsAreNumbers ==
  ASSUME NEW s \in Inputs
  PROVE  s \in Seq(Int)
<1>1. PICK n \in 0..MaxLen : s \in [1..n -> Items]
  BY DEF Inputs
<1>2. Items \subseteq Int /\ MaxLen \in Nat
  BY CombinatorsAssumption DEF CombinatorsAssumption
<1>3. s \in [1..n -> Int] /\ n \in Nat
  <2>1. n \in Nat
    BY <1>2
  <2>2. \A k \in 1..n : s[k] \in Int
    BY <1>1, <1>2
  <2>3. QED BY <1>1, <2>1, <2>2
<1>4. QED BY <1>3

\* The types hold at the start.
LEMMA CombTypeInit == Init => CombTypeOK
<1> SUFFICES ASSUME Init PROVE CombTypeOK
  OBVIOUS
<1>1. first \in Seq(Int)
  BY InputsAreNumbers DEF Init
<1>2. second \in Seq(Int)
  <2>1. CASE kind \in {"zip", "merge"}
    BY <2>1, InputsAreNumbers DEF Init
  <2>2. CASE kind \notin {"zip", "merge"}
    BY <2>2 DEF Init
  <2>3. QED BY <2>1, <2>2
<1>3. \A u \in Upstreams : pos[u] = 0 /\ Stream(u) \in Seq(Int)
  BY <1>1, <1>2 DEF Init, Stream
<1>4. \A u \in Upstreams : pos[u] <= Len(Stream(u))
  BY <1>3
<1>5. out \in Seq(Vals) /\ current \in Seq(Int)
  BY DEF Init
<1>6. count \in Nat
  BY CombinatorsAssumption DEF Init, CombinatorsAssumption
<1>7. pos \in [Upstreams -> Nat] /\ pc = "idle"
  BY DEF Init
<1>8. /\ kind \in Kinds /\ remaining \in Nat /\ flag \in BOOLEAN /\ acc \in Int /\ i \in Nat
      /\ a \in Int /\ ended \in BOOLEAN /\ stops \in Nat
  <2>1. /\ kind \in Kinds /\ remaining = count /\ flag = FALSE /\ acc = 0 /\ i = 0 /\ a = 0
        /\ ended = FALSE /\ stops = 0
    BY DEF Init
  <2>2. flag \in BOOLEAN /\ ended \in BOOLEAN
    BY <2>1, Zenon
  <2>3. QED BY <1>6, <2>1, <2>2
<1>9. QED BY <1>1, <1>2, <1>4, <1>5, <1>6, <1>7, <1>8 DEF CombTypeOK

\* What an awaited upstream gives is a number.
LEMMA ItemIsNumber ==
  ASSUME CombTypeOK, pc # "idle", pos[pc] < Len(Stream(pc))
  PROVE  Stream(pc)[pos[pc] + 1] \in Int
<1>1. Stream(pc) \in Seq(Int) /\ pos[pc] \in Nat
  BY DEF CombTypeOK, Stream
<1>2. QED BY <1>1

\* Every step keeps them.
LEMMA CombTypeStep ==
  ASSUME CombTypeOK, Next
  PROVE  CombTypeOK'
<1>1. CASE CallNext
  <2>1. UNCHANGED <<kind, first, second, count, current, pos, acc, a, stops, out>>
    BY <1>1 DEF CallNext, NextMerge, NextTake, NextSkip, NextTakeWhile, NextFlatMap, NextPlain,
                Await, End, Local, config
  <2>2. pc' \in {"idle"} \cup Upstreams /\ ended' \in BOOLEAN
    BY <1>1 DEF CombTypeOK, CallNext, NextMerge, NextTake, NextSkip, NextTakeWhile, NextFlatMap,
                NextPlain, Await, End, Local, Upstreams
  <2>3. remaining' \in Nat /\ flag' \in BOOLEAN /\ i' \in Nat
    <3>1. remaining \in Nat /\ flag \in BOOLEAN /\ i \in Nat
      BY DEF CombTypeOK
    <3>2. CASE NextMerge
      BY <3>1, <3>2 DEF NextMerge
    <3>3. CASE NextTake
      BY <3>1, <3>3 DEF NextTake
    <3>4. CASE NextSkip
      BY <3>1, <3>4 DEF NextSkip
    <3>5. CASE NextTakeWhile \/ NextFlatMap \/ NextPlain
      BY <3>1, <3>5 DEF NextTakeWhile, NextFlatMap, NextPlain, Local
    <3>6. QED BY <1>1, <3>2, <3>3, <3>4, <3>5 DEF CallNext
  <2>4. \A u \in Upstreams : pos'[u] <= Len(Stream(u)')
    BY <2>1 DEF CombTypeOK, Stream
  <2>5. QED BY <2>1, <2>2, <2>3, <2>4 DEF CombTypeOK
<1>2. CASE Value
  <2> DEFINE x == Stream(pc)[pos[pc] + 1]
  <2>1. /\ x \in Int /\ pc # "idle" /\ pos[pc] < Len(Stream(pc)) /\ pc \in Upstreams
        /\ \/ GotMap(x) \/ GotFilter(x) \/ GotScan(x) \/ GotAsIs(x) \/ GotSkip(x)
           \/ GotSkipWhile(x) \/ GotTakeWhile(x) \/ GotZip(x) \/ GotFlatMap(x)
        /\ pos' = IF kind = "flat_map" /\ pc = "first"
                  THEN [pos EXCEPT !.first = @ + 1, !.current = 0] ELSE [pos EXCEPT ![pc] = @ + 1]
        /\ UNCHANGED <<kind, first, second, count, stops>>
    BY <1>2, ItemIsNumber DEF Value, config, CombTypeOK
  <2> HIDE DEF x
  <2> DEFINE Goal ==
        /\ out' = out \/ \E y \in Vals : out' = Append(out, y)
        /\ pc' \in {"idle"} \cup Upstreams /\ ended' \in BOOLEAN
        /\ remaining' \in Nat /\ flag' \in BOOLEAN /\ acc' \in Int /\ i' \in Nat /\ a' \in Int
        /\ current' \in Seq(Int) /\ (current' = current \/ (kind = "flat_map" /\ pc = "first"))
  <2>2. Goal
    <3>1. /\ ended \in BOOLEAN /\ remaining \in Nat /\ flag \in BOOLEAN /\ acc \in Int /\ i \in Nat
          /\ a \in Int /\ current \in Seq(Int) /\ x \in Int /\ x \in Vals
          /\ "idle" \in {"idle"} \cup Upstreams /\ "first" \in {"idle"} \cup Upstreams
          /\ "second" \in {"idle"} \cup Upstreams /\ "current" \in {"idle"} \cup Upstreams
      BY <2>1 DEF CombTypeOK, Vals, Upstreams
    <3>2. CASE GotMap(x)
      BY <3>1, <3>2 DEF GotMap, Await, Yield, End, Local, Vals, Twice
    <3>3. CASE GotFilter(x)
      BY <3>1, <3>3 DEF GotFilter, Await, Yield, End, Local
    <3>4. CASE GotScan(x)
      BY <3>1, <3>4 DEF GotScan, Await, Yield, End, Local, Vals
    <3>5. CASE GotAsIs(x)
      BY <3>1, <3>5 DEF GotAsIs, Await, Yield, End, Local
    <3>6. CASE GotSkip(x)
      BY <3>1, <3>6 DEF GotSkip, Await, Yield, End, Local
    <3>7. CASE GotSkipWhile(x)
      BY <3>1, <3>7 DEF GotSkipWhile, Await, Yield, End, Local
    <3>8. CASE GotTakeWhile(x)
      BY <3>1, <3>8 DEF GotTakeWhile, Await, Yield, End, Local
    <3>9. CASE GotZip(x)
      BY <3>1, <3>9 DEF GotZip, Await, Yield, End, Local, Vals
    <3>10. CASE GotFlatMap(x)
      <4>1. Two(x) \in Seq(Int)
        BY <3>1 DEF Two
      <4>2. /\ out' = out \/ \E y \in Vals : out' = Append(out, y)
            /\ pc' \in {"idle"} \cup Upstreams /\ ended' \in BOOLEAN
        BY <3>1, <3>10 DEF GotFlatMap, Await, Yield
      <4>3. /\ remaining' \in Nat /\ flag' \in BOOLEAN /\ acc' \in Int /\ i' \in Nat /\ a' \in Int
            /\ current' \in Seq(Int) /\ (current' = current \/ (kind = "flat_map" /\ pc = "first"))
        BY <3>1, <3>10, <4>1 DEF GotFlatMap
      <4>4. QED BY <4>2, <4>3
    <3>11. QED BY <2>1, <3>2, <3>3, <3>4, <3>5, <3>6, <3>7, <3>8, <3>9, <3>10
  <2>3. out' \in Seq(Vals)
    <3>1. out \in Seq(Vals)
      BY DEF CombTypeOK
    <3>2. QED BY <2>2, <3>1
  <2>4. current' \in Seq(Int) /\ (current' = current \/ (kind = "flat_map" /\ pc = "first"))
    BY <2>2
  <2>5. pos' \in [Upstreams -> Nat]
    <3>1. pos \in [Upstreams -> Nat]
      BY DEF CombTypeOK
    <3>2. \A u \in Upstreams : pos[u] + 1 \in Nat
      BY <3>1
    <3>3. "first" \in Upstreams /\ "current" \in Upstreams
      BY DEF Upstreams
    <3>4. QED BY <2>1, <3>1, <3>2, <3>3
  <2>6. ASSUME NEW u \in Upstreams PROVE pos'[u] <= Len(Stream(u)')
    <3>1. Stream(u) \in Seq(Int) /\ Stream(u)' \in Seq(Int) /\ pos[u] \in Nat
      BY <2>1, <2>4 DEF CombTypeOK, Stream
    <3>2. CASE kind = "flat_map" /\ pc = "first"
      <4>1. u # "current" => Stream(u)' = Stream(u)
        BY <2>1 DEF Stream, Upstreams
      <4>2. pos'[u] = IF u = "current" THEN 0 ELSE IF u = "first" THEN pos[u] + 1 ELSE pos[u]
        BY <2>1, <3>2 DEF CombTypeOK, Upstreams
      <4>3. pos[u] <= Len(Stream(u)) /\ (u = "first" => pos[u] < Len(Stream(u)))
        BY <2>1, <3>2 DEF CombTypeOK
      <4>4. QED BY <3>1, <4>1, <4>2, <4>3
    <3>3. CASE ~(kind = "flat_map" /\ pc = "first")
      <4>1. Stream(u)' = Stream(u)
        BY <2>1, <2>4, <3>3 DEF Stream
      <4>2. pos'[u] = IF u = pc THEN pos[u] + 1 ELSE pos[u]
        BY <2>1, <3>3 DEF CombTypeOK
      <4>3. pos[u] <= Len(Stream(u)) /\ (u = pc => pos[u] < Len(Stream(u)))
        BY <2>1 DEF CombTypeOK
      <4>4. QED BY <3>1, <4>1, <4>2, <4>3
    <3>4. QED BY <3>2, <3>3
  <2>7. QED BY <2>1, <2>2, <2>3, <2>4, <2>5, <2>6 DEF CombTypeOK
<1>3. CASE Over
  <2>1. UNCHANGED <<kind, first, second, count, current, pos, acc, a, stops, out, remaining, i>>
    BY <1>3 DEF Over, Await, End, config
  <2>2. pc' \in {"idle"} \cup Upstreams /\ ended' \in BOOLEAN /\ flag' \in BOOLEAN
    BY <1>3 DEF CombTypeOK, Over, Await, End, Upstreams
  <2>3. \A u \in Upstreams : pos'[u] <= Len(Stream(u)')
    BY <2>1 DEF CombTypeOK, Stream
  <2>4. QED BY <2>1, <2>2, <2>3 DEF CombTypeOK
<1>4. CASE Stop
  <2>1. \A u \in Upstreams : pos'[u] <= Len(Stream(u)')
    BY <1>4 DEF Stop, CombTypeOK, Stream, config
  <2>2. QED BY <1>4, <2>1 DEF Stop, CombTypeOK, config
<1>5. QED BY <1>1, <1>2, <1>3, <1>4 DEF Next

-----------------------------------------------------------------------------
\* What the reference definitions say, item by item.

\* The accepted prefix is as long as it can be.
LEMMA AcceptedMeans ==
  ASSUME NEW s \in Seq(Int)
  PROVE  /\ Accepted(s) \in 0..Len(s)
         /\ \A k \in 1..Accepted(s) : s[k] \in Keep
         /\ Accepted(s) < Len(s) => s[Accepted(s) + 1] \notin Keep
<1> DEFINE Ends(n) == (\A k \in 1..n : s[k] \in Keep) /\ (n < Len(s) => s[n + 1] \notin Keep)
           S == {n \in 0..Len(s) : n < Len(s) => s[n + 1] \notin Keep}
<1>1. Len(s) \in Nat
  OBVIOUS
<1>2. S # {}
  <2>1. Len(s) \in S
    BY <1>1
  <2>2. QED BY <2>1
<1>3. PICK n \in S : \A m \in S : n <= m
  <2>1. S \in SUBSET Nat
    OBVIOUS
  <2> HIDE DEF S
  <2>2. QED BY <1>2, <2>1, LeastOf
<1>4. ASSUME NEW k \in 1..n PROVE s[k] \in Keep
  <2>1. n \in 0..Len(s)
    BY <1>3
  <2>2. k - 1 \in 0..Len(s) /\ ~(n <= k - 1) /\ k - 1 < Len(s) /\ (k - 1) + 1 = k
    BY <1>1, <2>1
  <2>3. k - 1 \notin S
    BY <1>3, <2>2
  <2>4. s[(k - 1) + 1] \in Keep
    BY <2>2, <2>3
  <2>5. QED BY <2>2, <2>4
<1>5. n \in 0..Len(s) /\ Ends(n)
  BY <1>3, <1>4
<1>6. Accepted(s) = CHOOSE m \in 0..Len(s) : Ends(m)
  BY DEF Accepted
<1>7. Accepted(s) \in 0..Len(s) /\ Ends(Accepted(s))
  <2> HIDE DEF Ends
  <2> QED BY <1>5, <1>6
<1>8. QED BY <1>7

\* The sums are those of their names.
LEMMA SumsMean ==
  ASSUME NEW s \in Seq(Int)
  PROVE  /\ \A k \in 0..Len(s) : Sums(s)[k] \in Int
         /\ Sums(s)[0] = 0
         /\ \A k \in 1..Len(s) : Sums(s)[k] = Sums(s)[k - 1] + s[k]
<1> DEFINE l == Len(s)
           F == [k \in 1..l |-> [v \in Int |-> v + s[k]]]
           P(r) == r = [k \in 0..l |-> IF k = 0 THEN 0 ELSE r[k - 1] + s[k]]
<1>1. l \in Nat /\ \A k \in 1..l : s[k] \in Int
  OBVIOUS
<1>2. PICK r \in [0..l -> Int] : r[0] = 0 /\ \A k \in 1..l : r[k] = F[k][r[k - 1]]
  <2>1. F \in [1..l -> [Int -> Int]]
    BY <1>1
  <2> DEFINE v0 == 0
  <2>2. v0 \in Int
    OBVIOUS
  <2> HIDE DEF F, l, v0
  <2>3. Solvable(l, Int, v0, F)
    BY <1>1, <2>1, <2>2, LineRecursion
  <2>4. QED BY <2>3 DEF Solvable, v0
<1>3. \A k \in 1..l : r[k] = r[k - 1] + s[k]
  <2> SUFFICES ASSUME NEW k \in 1..l PROVE r[k] = r[k - 1] + s[k]
    OBVIOUS
  <2>1. k - 1 \in 0..l
    BY <1>1
  <2>2. r[k - 1] \in Int
    BY <2>1
  <2>3. F[k][r[k - 1]] = r[k - 1] + s[k]
    <3> HIDE DEF l
    <3> QED BY <2>2
  <2>4. QED BY <1>2, <2>3
<1>4. P(r)
  <2>1. r = [k \in 0..l |-> r[k]]
    OBVIOUS
  <2>2. ASSUME NEW k \in 0..l PROVE r[k] = IF k = 0 THEN 0 ELSE r[k - 1] + s[k]
    <3>1. k # 0 => k \in 1..l
      BY <1>1
    <3>2. QED BY <1>2, <1>3, <3>1
  <2> HIDE DEF l
  <2>3. QED BY <2>1, <2>2
<1> DEFINE q == Sums(s)
<1>5. P(q)
  <2>1. q = CHOOSE x : P(x)
    BY Zenon DEF Sums
  <2>2. P(CHOOSE x : P(x))
    <3> HIDE DEF P
    <3> QED BY <1>4, Zenon
  <2>3. QED BY ONLY <2>1, <2>2, Zenon
<1>6. \A k \in 0..l : q[k] = IF k = 0 THEN 0 ELSE q[k - 1] + s[k]
  <2>1. q = [k \in 0..l |-> IF k = 0 THEN 0 ELSE q[k - 1] + s[k]]
    BY <1>5, Zenon
  <2> HIDE DEF q, l
  <2>2. QED BY <2>1
<1> HIDE DEF q
<1>7. q[0] = 0 /\ \A k \in 1..l : q[k] = q[k - 1] + s[k]
  <2>1. 0 \in 0..l /\ \A k \in 1..l : k \in 0..l /\ k # 0
    BY <1>1
  <2> HIDE DEF l
  <2>2. QED BY <1>6, <2>1
<1>8. \A k \in 0..l : q[k] \in Int
  <2> DEFINE T == {k \in 0..l : q[k] \in Int}
  <2>1. 0 \in T
    BY <1>1, <1>7
  <2>2. ASSUME NEW k \in 1..l, k - 1 \in T PROVE k \in T
    <3>1. q[k] = q[k - 1] + s[k] /\ q[k - 1] \in Int
      BY <1>7, <2>2
    <3>2. q[k] \in Int /\ k \in 0..l
      BY <1>1, <3>1
    <3>3. QED BY <3>2
  <2>3. \A k \in 0..l : k \in T
    <3> HIDE DEF T
    <3> QED BY <1>1, <2>1, <2>2, UpTo
  <2>4. QED BY <2>3
<1>9. QED BY <1>7, <1>8 DEF q

\* Filtering keeps the accepted items in their order: the number of those among the first k
\* says where the next one is.
LEMMA SinglesMean ==
  ASSUME NEW s \in Seq(Int)
  PROVE  /\ Singles(s) \in Seq(Seq(Int)) /\ Len(Singles(s)) = Len(s)
         /\ FlattenSeq(Singles(s)) \in Seq(Int)
         /\ Len(Flat(Singles(s))[0]) = 0
         /\ Len(Flat(Singles(s))[Len(s)]) = Len(FlattenSeq(Singles(s)))
         /\ \A k \in 0..Len(s) : /\ Len(Flat(Singles(s))[k]) \in Nat
                                 /\ Len(Flat(Singles(s))[k]) <= Len(FlattenSeq(Singles(s)))
         /\ \A k \in 1..Len(s) :
              IF s[k] \in Keep
              THEN /\ Len(Flat(Singles(s))[k]) = Len(Flat(Singles(s))[k - 1]) + 1
                   /\ FlattenSeq(Singles(s))[Len(Flat(Singles(s))[k])] = s[k]
              ELSE Len(Flat(Singles(s))[k]) = Len(Flat(Singles(s))[k - 1])
<1> DEFINE ss == Singles(s)
           l == Len(s)
           f == Flat(ss)
<1>1. /\ l \in Nat /\ ss \in Seq(Seq(Int)) /\ Len(ss) = l
      /\ \A k \in 1..l : s[k] \in Int /\ ss[k] = IF s[k] \in Keep THEN <<s[k]>> ELSE <<>>
  <2>1. l \in Nat /\ DOMAIN s = 1..l /\ \A k \in 1..l : s[k] \in Int
    OBVIOUS
  <2>2. ss = [k \in 1..l |-> IF s[k] \in Keep THEN <<s[k]>> ELSE <<>>]
    BY <2>1 DEF Singles
  <2>3. \A k \in 1..l : (IF s[k] \in Keep THEN <<s[k]>> ELSE <<>>) \in Seq(Int)
    BY <2>1
  <2>4. ss \in [1..l -> Seq(Int)]
    <3> HIDE DEF l, ss
    <3> QED BY <2>2, <2>3
  <2> HIDE DEF l, ss
  <2>5. ss \in Seq(Seq(Int)) /\ Len(ss) = l
    BY <2>1, <2>4
  <2>6. \A k \in 1..l : ss[k] = IF s[k] \in Keep THEN <<s[k]>> ELSE <<>>
    BY <2>2
  <2>7. QED BY <2>1, <2>5, <2>6
<1> HIDE DEF ss
<1>2. /\ \A n \in 0..Len(ss) : f[n] \in Seq(Int)
      /\ f[0] = <<>>
      /\ \A n \in 1..Len(ss) : f[n] = f[n - 1] \o ss[n]
  BY <1>1, FlatMeans
<1>3. FlattenSeq(ss) = f[Len(ss)]
  BY <1>1, FlatIsWhole
<1>4. \A n \in 0..Len(ss) : /\ Len(f[n]) <= Len(f[Len(ss)])
                            /\ \A k \in 1..Len(f[n]) : f[Len(ss)][k] = f[n][k]
  BY <1>1, FlatGrows
<1> HIDE DEF f, l
<1>5. ASSUME NEW k \in 1..l
      PROVE  IF s[k] \in Keep
             THEN Len(f[k]) = Len(f[k - 1]) + 1 /\ f[l][Len(f[k])] = s[k]
             ELSE Len(f[k]) = Len(f[k - 1])
  <2> DEFINE x == f[k - 1]
  <2>1. k - 1 \in 0..l /\ k \in 0..l
    BY <1>1
  <2>2. x \in Seq(Int) /\ f[k] = x \o ss[k] /\ f[k] \in Seq(Int)
    BY <1>1, <1>2, <2>1
  <2>3. \A j \in 1..Len(f[k]) : f[l][j] = f[k][j]
    BY <1>1, <1>4, <2>1
  <2> HIDE DEF x
  <2>4. CASE s[k] \in Keep
    <3> DEFINE y == s[k]
    <3>1. f[k] = x \o <<y>> /\ y \in Int
      BY <1>1, <2>2, <2>4
    <3> HIDE DEF y
    <3>2. x \o <<y>> = Append(x, y)
      BY <2>2, <3>1
    <3>3. Len(f[k]) = Len(x) + 1 /\ f[k][Len(x) + 1] = y /\ Len(x) \in Nat
      BY <2>2, <3>1, <3>2
    <3>4. Len(f[k]) \in 1..Len(f[k])
      BY <3>3
    <3>5. QED BY <2>3, <2>4, <3>3, <3>4 DEF x, y
  <2>5. CASE s[k] \notin Keep
    <3>1. f[k] = x \o <<>>
      BY <1>1, <2>2, <2>5
    <3>2. f[k] = x
      BY <2>2, <3>1, ConcatEmptySeq
    <3>3. QED BY <2>5, <3>2 DEF x
  <2>6. QED BY <2>4, <2>5
<1>6. l \in 0..l /\ 0 \in 0..l
  BY <1>1
<1>7. /\ FlattenSeq(ss) \in Seq(Int) /\ Len(f[0]) = 0
      /\ \A k \in 0..l : Len(f[k]) \in Nat /\ Len(f[k]) <= Len(f[l])
  BY <1>1, <1>2, <1>3, <1>4, <1>6
<1>8. QED BY <1>1, <1>3, <1>5, <1>7 DEF ss, f, l

\* flat_map gives each item and then its double.
LEMMA DoublesMean ==
  ASSUME NEW s \in Seq(Int)
  PROVE  LET r == FlattenSeq([k \in DOMAIN s |-> Two(s[k])]) IN
         /\ r \in Seq(Int) /\ Len(r) = 2 * Len(s)
         /\ \A k \in 1..Len(s) : r[2 * k - 1] = s[k] /\ r[2 * k] = 2 * s[k]
<1> DEFINE ss == [k \in DOMAIN s |-> Two(s[k])]
           l == Len(s)
<1>1. /\ l \in Nat /\ ss \in Seq(Seq(Int)) /\ Len(ss) = l
      /\ \A k \in 1..l : Len(ss[k]) = 2 /\ ss[k][1] = s[k] /\ ss[k][2] = 2 * s[k]
  <2>1. l \in Nat /\ DOMAIN s = 1..l /\ \A k \in 1..l : s[k] \in Int
    OBVIOUS
  <2>2. \A x \in Int : /\ Two(x) \in Seq(Int) /\ Len(Two(x)) = 2
                       /\ Two(x)[1] = x /\ Two(x)[2] = 2 * x
    BY DEF Two
  <2>3. ss \in [1..l -> Seq(Int)] /\ \A k \in 1..l : ss[k] = Two(s[k])
    <3> HIDE DEF l
    <3> QED BY <2>1, <2>2
  <2> HIDE DEF l, ss
  <2>4. ss \in Seq(Seq(Int)) /\ Len(ss) = l
    BY <2>1, <2>3
  <2>5. ASSUME NEW k \in 1..l PROVE Len(ss[k]) = 2 /\ ss[k][1] = s[k] /\ ss[k][2] = 2 * s[k]
    <3>1. s[k] \in Int /\ ss[k] = Two(s[k])
      BY <2>1, <2>3
    <3>2. QED BY <2>2, <3>1
  <2>6. QED BY <2>1, <2>4, <2>5
<1> HIDE DEF ss
<1>2. FlattenSeq(ss) = Flat(ss)[Len(ss)]
  BY <1>1, FlatIsWhole
<1>3. /\ Len(Flat(ss)[Len(ss)]) = 2 * Len(ss)
      /\ \A k \in 1..Len(ss) : /\ Flat(ss)[Len(ss)][2 * k - 1] = ss[k][1]
                               /\ Flat(ss)[Len(ss)][2 * k] = ss[k][2]
  <2>1. ss \in Seq(Seq(Int)) /\ \A k \in 1..Len(ss) : Len(ss[k]) = 2
    BY <1>1
  <2>2. QED BY <2>1, FlatPairs
<1>4. Flat(ss)[Len(ss)] \in Seq(Int)
  <2>1. \A n \in 0..Len(ss) : Flat(ss)[n] \in Seq(Int)
    BY <1>1, FlatMeans
  <2>2. Len(ss) \in 0..Len(ss)
    BY <1>1
  <2>3. QED BY <2>1, <2>2
<1>5. QED BY <1>1, <1>2, <1>3, <1>4 DEF ss

\* The streams in turn: where the j-th item of each is.
LEMMA TurnsMean ==
  ASSUME NEW s \in Seq(Int), NEW t \in Seq(Int)
  PROVE  /\ Turns(s, t) \in Seq(Int) /\ Len(Turns(s, t)) = Len(s) + Len(t)
         /\ \A j \in 1..Len(t) : Turns(s, t)[IF j <= Len(s) THEN 2 * j - 1 ELSE Len(s) + j] = t[j]
         /\ \A j \in 1..Len(s) : Turns(s, t)[IF j <= Len(t) THEN 2 * j ELSE Len(t) + j] = s[j]
<1> DEFINE n == Least(Len(s), Len(t))
           ss == [k \in 1..n |-> <<t[k], s[k]>>]
           x == FlattenSeq(ss)
           y == SubSeq(t, n + 1, Len(t))
           z == SubSeq(s, n + 1, Len(s))
<1>1. /\ Len(s) \in Nat /\ Len(t) \in Nat /\ n \in Nat /\ n <= Len(s) /\ n <= Len(t)
      /\ n = Len(s) \/ n = Len(t)
      /\ (\A k \in 1..Len(s) : s[k] \in Int) /\ (\A k \in 1..Len(t) : t[k] \in Int)
  BY DEF Least
<1>2. Turns(s, t) = x \o y \o z
  BY Zenon DEF Turns
<1> HIDE DEF n
<1>3. /\ ss \in Seq(Seq(Int)) /\ Len(ss) = n
      /\ \A k \in 1..n : Len(ss[k]) = 2 /\ ss[k][1] = t[k] /\ ss[k][2] = s[k]
  <2>1. ASSUME NEW k \in 1..n
        PROVE  /\ <<t[k], s[k]>> \in Seq(Int) /\ Len(<<t[k], s[k]>>) = 2
               /\ <<t[k], s[k]>>[1] = t[k] /\ <<t[k], s[k]>>[2] = s[k]
    <3>1. s[k] \in Int /\ t[k] \in Int
      BY <1>1
    <3>2. QED BY <3>1
  <2>2. ss \in [1..n -> Seq(Int)] /\ \A k \in 1..n : ss[k] = <<t[k], s[k]>>
    BY <2>1
  <2> HIDE DEF ss
  <2>3. ss \in Seq(Seq(Int)) /\ Len(ss) = n
    BY <1>1, <2>2
  <2>4. QED BY <2>1, <2>2, <2>3
<1> HIDE DEF ss
<1>4. /\ x \in Seq(Int) /\ Len(x) = 2 * n
      /\ \A k \in 1..n : x[2 * k - 1] = t[k] /\ x[2 * k] = s[k]
  <2>1. FlattenSeq(ss) = Flat(ss)[Len(ss)]
    BY <1>3, FlatIsWhole
  <2>2. ss \in Seq(Seq(Int)) /\ \A k \in 1..Len(ss) : Len(ss[k]) = 2
    BY <1>3
  <2>3. /\ Len(Flat(ss)[Len(ss)]) = 2 * Len(ss)
        /\ \A k \in 1..Len(ss) : /\ Flat(ss)[Len(ss)][2 * k - 1] = ss[k][1]
                                 /\ Flat(ss)[Len(ss)][2 * k] = ss[k][2]
    BY <2>2, FlatPairs
  <2>4. \A m \in 0..Len(ss) : Flat(ss)[m] \in Seq(Int)
    BY <2>2, FlatMeans
  <2>5. Len(ss) \in 0..Len(ss)
    BY <1>1, <1>3
  <2>6. QED BY <1>3, <2>1, <2>3, <2>4, <2>5
<1>5. /\ y \in Seq(Int) /\ Len(y) = Len(t) - n /\ \A k \in 1..(Len(t) - n) : y[k] = t[n + k]
  <2>1. \A k \in (n + 1)..Len(t) : t[k] \in Int
    BY <1>1
  <2>2. n + 1 \in Int /\ Len(t) \in Int
    BY <1>1
  <2> DEFINE b == n + 1
             e == Len(t)
  <2>3. /\ SubSeq(t, b, e) \in Seq(Int) /\ Len(SubSeq(t, b, e)) = IF b <= e THEN e - b + 1 ELSE 0
        /\ \A k \in 1..(e - b + 1) : SubSeq(t, b, e)[k] = t[b + k - 1]
    <3> HIDE DEF b, e
    <3>1. b \in Int /\ e \in Int /\ \A k \in b..e : t[k] \in Int
      BY <2>1, <2>2 DEF b, e
    <3>2. QED BY <3>1, SubSeqProperties
  <2>4. \A k \in 1..(Len(t) - n) : k \in 1..(e - b + 1) /\ b + k - 1 = n + k
    BY <1>1
  <2>5. QED BY <1>1, <2>3, <2>4
<1>6. /\ z \in Seq(Int) /\ Len(z) = Len(s) - n /\ \A k \in 1..(Len(s) - n) : z[k] = s[n + k]
  <2>1. \A k \in (n + 1)..Len(s) : s[k] \in Int
    BY <1>1
  <2>2. n + 1 \in Int /\ Len(s) \in Int
    BY <1>1
  <2> DEFINE b == n + 1
             e == Len(s)
  <2>3. /\ SubSeq(s, b, e) \in Seq(Int) /\ Len(SubSeq(s, b, e)) = IF b <= e THEN e - b + 1 ELSE 0
        /\ \A k \in 1..(e - b + 1) : SubSeq(s, b, e)[k] = s[b + k - 1]
    <3> HIDE DEF b, e
    <3>1. b \in Int /\ e \in Int /\ \A k \in b..e : s[k] \in Int
      BY <2>1, <2>2 DEF b, e
    <3>2. QED BY <3>1, SubSeqProperties
  <2>4. \A k \in 1..(Len(s) - n) : k \in 1..(e - b + 1) /\ b + k - 1 = n + k
    BY <1>1
  <2>5. QED BY <1>1, <2>3, <2>4
<1> HIDE DEF x, y, z
<1> DEFINE v == x \o y
           w == v \o z
<1>7. /\ v \in Seq(Int) /\ Len(v) = Len(x) + Len(y)
      /\ \A k \in 1..Len(x) + Len(y) : v[k] = IF k <= Len(x) THEN x[k] ELSE y[k - Len(x)]
  BY <1>4, <1>5, ConcatProperties
<1> HIDE DEF v
<1>8. /\ w \in Seq(Int) /\ Len(w) = Len(v) + Len(z)
      /\ \A k \in 1..Len(v) + Len(z) : w[k] = IF k <= Len(v) THEN v[k] ELSE z[k - Len(v)]
  BY <1>6, <1>7, ConcatProperties
<1>9. Turns(s, t) = w
  BY <1>2 DEF v
<1> HIDE DEF w
<1>10. /\ Len(w) = Len(s) + Len(t)
       /\ \A k \in 1..(2 * n) : w[k] = x[k]
       /\ \A k \in 1..(Len(t) - n) : w[2 * n + k] = t[n + k]
       /\ \A k \in 1..(Len(s) - n) : w[n + Len(t) + k] = s[n + k]
  <2>1. Len(w) = Len(s) + Len(t)
    BY <1>1, <1>4, <1>5, <1>6, <1>7, <1>8
  <2>2. /\ n \in Nat /\ Len(s) \in Nat /\ Len(t) \in Nat /\ n <= Len(s) /\ n <= Len(t)
        /\ Len(x) = 2 * n /\ Len(y) = Len(t) - n /\ Len(z) = Len(s) - n /\ Len(v) = n + Len(t)
    BY <1>1, <1>4, <1>5, <1>6, <1>7
  <2>3. ASSUME NEW k \in 1..(2 * n) PROVE w[k] = x[k]
    <3>1. k \in 1..Len(v) + Len(z) /\ k <= Len(v) /\ k \in 1..Len(x) + Len(y) /\ k <= Len(x)
      BY <2>2
    <3>2. QED BY <1>7, <1>8, <3>1
  <2>4. ASSUME NEW k \in 1..(Len(t) - n) PROVE w[2 * n + k] = t[n + k]
    <3> DEFINE m == 2 * n + k
    <3>1. m \in 1..Len(v) + Len(z) /\ m <= Len(v) /\ m \in 1..Len(x) + Len(y) /\ ~(m <= Len(x))
          /\ m - Len(x) = k
      BY <2>2
    <3> HIDE DEF m
    <3>2. w[m] = y[k]
      BY <1>7, <1>8, <3>1
    <3>3. QED BY <1>5, <3>2 DEF m
  <2>5. ASSUME NEW k \in 1..(Len(s) - n) PROVE w[n + Len(t) + k] = s[n + k]
    <3> DEFINE m == n + Len(t) + k
    <3>1. m \in 1..Len(v) + Len(z) /\ ~(m <= Len(v)) /\ m - Len(v) = k
      BY <2>2
    <3> HIDE DEF m
    <3>2. w[m] = z[k]
      BY <1>8, <3>1
    <3>3. QED BY <1>6, <3>2 DEF m
  <2>6. QED BY <2>1, <2>3, <2>4, <2>5
<1>11. ASSUME NEW j \in 1..Len(t)
       PROVE  w[IF j <= Len(s) THEN 2 * j - 1 ELSE Len(s) + j] = t[j]
  <2>1. CASE j <= Len(s)
    <3>1. j \in 1..n /\ 2 * j - 1 \in 1..(2 * n)
      BY <1>1, <2>1
    <3>2. w[2 * j - 1] = x[2 * j - 1] /\ x[2 * j - 1] = t[j]
      BY <1>4, <1>10, <3>1
    <3>3. QED BY <2>1, <3>2
  <2>2. CASE ~(j <= Len(s))
    <3>1. n = Len(s) /\ j - n \in 1..(Len(t) - n)
      BY <1>1, <2>2
    <3>2. 2 * n + (j - n) = Len(s) + j /\ n + (j - n) = j
      BY <1>1, <3>1
    <3>3. w[2 * n + (j - n)] = t[n + (j - n)]
      BY <1>10, <3>1
    <3>4. QED BY <2>2, <3>3, <3>2
  <2>3. QED BY <2>1, <2>2
<1>12. ASSUME NEW j \in 1..Len(s)
       PROVE  w[IF j <= Len(t) THEN 2 * j ELSE Len(t) + j] = s[j]
  <2>1. CASE j <= Len(t)
    <3>1. j \in 1..n /\ 2 * j \in 1..(2 * n)
      BY <1>1, <2>1
    <3>2. w[2 * j] = x[2 * j] /\ x[2 * j] = s[j]
      BY <1>4, <1>10, <3>1
    <3>3. QED BY <2>1, <3>2
  <2>2. CASE ~(j <= Len(t))
    <3>1. n = Len(t) /\ j - n \in 1..(Len(s) - n) /\ n + Len(t) + (j - n) = Len(t) + j /\ n + (j - n) = j
      BY <1>1, <2>2
    <3>2. w[n + Len(t) + (j - n)] = s[n + (j - n)]
      BY <1>10, <3>1
    <3>3. QED BY <2>2, <3>1, <3>2
  <2>3. QED BY <2>1, <2>2
<1>13. QED BY <1>8, <1>9, <1>10, <1>11, <1>12

-----------------------------------------------------------------------------
\* How far each combinator is when it has given as much as it has.

\* The only upstream that is awaited is the first.
AtFirst == pc \in {"idle", "first"}

\* What was given agrees with R.
Agrees(R) == \A k \in 1..Len(out) : out[k] = R[k]

\* map and scan: one item for one item.
MapAt == AtFirst /\ Len(out) = pos["first"] /\ (ended => pos["first"] = Len(first))

\* scan: the sum so far.
ScanAt == MapAt /\ acc = Sums(first)[pos["first"]]

\* What is given next must be what R has next.
LEMMA OneMore ==
  ASSUME CombTypeOK, NEW R, Agrees(R), NEW y, R[Len(out) + 1] = y, out' = Append(out, y)
  PROVE  Agrees(R)' /\ Len(out') = Len(out) + 1
<1>1. out \in Seq(Vals) /\ Len(out) \in Nat
  BY DEF CombTypeOK
<1>2. Len(out') = Len(out) + 1 /\ \A k \in 1..(Len(out) + 1) : out'[k] = IF k = Len(out) + 1 THEN y ELSE out[k]
  BY <1>1
<1>3. \A k \in 1..(Len(out) + 1) : k = Len(out) + 1 \/ k \in 1..Len(out)
  BY <1>1
<1>4. QED BY <1>2, <1>3 DEF Agrees

\* The numbers of the type invariant.
LEMMA Numbers ==
  ASSUME CombTypeOK
  PROVE  /\ \A u \in Upstreams : pos[u] \in Nat
         /\ Len(out) \in Nat /\ Len(first) \in Nat /\ Len(second) \in Nat /\ Len(current) \in Nat
         /\ pos["first"] \in Nat /\ pos["second"] \in Nat /\ pos["current"] \in Nat
         /\ pos["first"] <= Len(first) /\ pos["second"] <= Len(second) /\ pos["current"] <= Len(current)
         /\ \A k \in 1..Len(first) : first[k] \in Int
<1>1. /\ \A u \in Upstreams : pos[u] \in Nat /\ pos[u] <= Len(Stream(u))
      /\ first \in Seq(Int) /\ second \in Seq(Int) /\ current \in Seq(Int) /\ out \in Seq(Vals)
  BY DEF CombTypeOK
<1>2. QED BY <1>1 DEF Upstreams, Stream

\* A value of the first upstream, in a combinator other than flat_map.
LEMMA FirstMoves ==
  ASSUME CombTypeOK, Value, pc = "first"
  PROVE  /\ pos["first"] < Len(first) /\ pos'["first"] = pos["first"] + 1
         /\ pos'["second"] = pos["second"] /\ UNCHANGED config
         /\ kind # "flat_map" => pos'["current"] = pos["current"]
<1>1. pos["first"] < Len(first)
  BY DEF Value, Stream
<1>2. pos' = IF kind = "flat_map" THEN [pos EXCEPT !["first"] = @ + 1, !["current"] = 0]
                                  ELSE [pos EXCEPT !["first"] = @ + 1]
  BY DEF Value
<1>3. pos \in [Upstreams -> Nat] /\ "first" \in Upstreams /\ "second" \in Upstreams /\ "current" \in Upstreams
  BY DEF CombTypeOK, Upstreams
<1>4. QED BY <1>1, <1>2, <1>3 DEF Value

\* map: an item is given as soon as it came.
LEMMA MapStep ==
  ASSUME CombTypeOK, Next, kind = "map", NEW R, \A k \in 1..Len(first) : R[k] = Twice(first[k]),
         MapAt, Agrees(R)
  PROVE  MapAt' /\ Agrees(R)'
<1>1. CASE CallNext
  <2>1. pc' = "first" /\ UNCHANGED <<first, pos, out, ended>>
    BY <1>1 DEF CallNext, NextMerge, NextTake, NextSkip, NextTakeWhile, NextFlatMap, NextPlain,
                Await, End, config
  <2>2. QED BY <2>1 DEF MapAt, AtFirst, Agrees
<1>2. CASE Value
  <2> DEFINE x == first[pos["first"] + 1]
  <2>1. pc = "first" /\ out' = Append(out, Twice(x)) /\ ended' = ended /\ pc' = "idle"
    BY <1>2 DEF MapAt, AtFirst, Value, Stream, GotMap, GotFilter, GotScan, GotAsIs, GotSkip, GotSkipWhile,
                GotTakeWhile, GotZip, GotFlatMap, Yield
  <2>2. pos["first"] < Len(first) /\ pos'["first"] = pos["first"] + 1 /\ first' = first
    BY <1>2, <2>1, FirstMoves DEF config
  <2>3. R[Len(out) + 1] = Twice(x)
    BY <2>2, Numbers DEF MapAt
  <2> HIDE DEF x
  <2>4. Agrees(R)' /\ Len(out') = Len(out) + 1
    BY <2>1, <2>3, OneMore
  <2>5. ~ended
    BY <2>2, Numbers DEF MapAt
  <2>6. QED BY <2>1, <2>2, <2>4, <2>5 DEF MapAt, AtFirst
<1>3. CASE Over
  <2>1. pc = "first" /\ pos["first"] = Len(first) /\ pc' = "idle" /\ UNCHANGED <<first, pos, out>>
    BY <1>3 DEF MapAt, AtFirst, Over, Stream, End, config
  <2>2. QED BY <2>1 DEF MapAt, AtFirst, Agrees
<1>4. CASE Stop
  BY <1>4 DEF MapAt, AtFirst, Agrees, Stop, config
<1>5. QED BY <1>1, <1>2, <1>3, <1>4 DEF Next

\* filter: the accepted ones among the first k.
Found(s, k) == Len(Flat(Singles(s))[k])

\* filter: as many as were accepted of what came.
FilterAt ==
  AtFirst /\ Len(out) = Found(first, pos["first"]) /\ (ended => pos["first"] = Len(first))

\* An item is on its way to a call that awaits it.
Waiting == IF pc = "idle" THEN 0 ELSE 1

\* take: what remains is not yet asked for.
TakeAt ==
  /\ AtFirst /\ Len(out) = pos["first"] /\ remaining <= count
  /\ pos["first"] + Waiting <= count - remaining
  /\ (stops = 0 /\ pos["first"] < Len(first)) => pos["first"] + Waiting = count - remaining
  /\ (ended /\ pos["first"] < Len(first)) => remaining = 0 /\ pc = "idle"

\* Of p items all but the first n.
Beyond(n, p) == IF p > n THEN p - n ELSE 0

\* skip: the first call that is not stopped goes past what is to be skipped.
SkipAt ==
  /\ AtFirst /\ remaining = count
  /\ ~flag => pos["first"] = 0 /\ pc = "idle" /\ Len(out) = 0
  /\ ended => pos["first"] = Len(first)
  /\ stops = 0 =>
       /\ Len(out) = Beyond(count, pos["first"])
       /\ flag => \/ pos["first"] = Len(first)
                  \/ pc = "idle" /\ pos["first"] > count
                  \/ pc # "idle" /\ i = Beyond(pos["first"], count)

\* take_while: all were accepted, until one was not or there are no more.
TakeWhileAt ==
  /\ AtFirst
  /\ flag => Len(out) = Accepted(first) /\ pc = "idle"
  /\ ~flag => pos["first"] <= Accepted(first) /\ Len(out) = pos["first"] /\ ~ended

\* skip_while: the first call that is not stopped goes past the accepted ones.
SkipWhileAt ==
  /\ AtFirst /\ i \in {0, 1}
  /\ ~flag => pos["first"] = 0 /\ pc = "idle" /\ Len(out) = 0
  /\ ended => pos["first"] = Len(first)
  /\ stops = 0 =>
       /\ Len(out) = Beyond(Accepted(first), pos["first"])
       /\ flag => \/ pos["first"] = Len(first)
                  \/ (pc = "idle" \/ i = 0) /\ pos["first"] > Accepted(first)
                  \/ pc # "idle" /\ i = 1 /\ pos["first"] <= Accepted(first)

\* zip: as many of the one as of the other, but for the first half of a pair.
ZipAt ==
  /\ pc \in {"idle", "first", "second"}
  /\ stops = 0 =>
       /\ pos["second"] <= pos["first"] /\ Len(out) = pos["second"]
       /\ \/ pos["second"] = Len(second)
          \/ pos["first"] = pos["second"] /\ pc # "second"
          \/ pos["first"] = pos["second"] + 1 /\ pc = "second" /\ a = first[pos["first"]]
       /\ ended => \/ pos["second"] = Len(second)
                   \/ pos["first"] = Len(first) /\ pos["second"] = pos["first"]

\* merge: the second stream is the next to give.
SecondsTurn == IF pc = "idle" THEN ~flag ELSE pc = "second"

\* merge: each has given as many as the other, the second one more when it is the turn of the
\* first, unless one of them has no more; and who is asked out of turn is asked because the
\* other has no more.
MergeAt ==
  /\ pc \in {"idle", "first", "second"}
  /\ Len(out) = pos["first"] + pos["second"]
  /\ (pc = "first" /\ flag) => pos["second"] = Len(second)
  /\ (pc = "second" /\ ~flag) => pos["first"] = Len(first)
  /\ ended => pos["first"] = Len(first) /\ pos["second"] = Len(second)
  /\ stops = 0 =>
       /\ pos["first"] > pos["second"] => pos["second"] = Len(second)
       /\ pos["second"] > pos["first"] + 1 => pos["first"] = Len(first)
       /\ \/ pos["first"] = Len(first) \/ pos["second"] = Len(second)
          \/ SecondsTurn /\ pos["first"] = pos["second"]
          \/ ~SecondsTurn /\ pos["second"] = pos["first"] + 1

\* flat_map: two items for one; with the flag set the inner stream has the last of them.
FlatMapAt ==
  /\ pc \in {"idle", "first", "current"}
  /\ pc = "current" => flag
  /\ pc = "first" => ~flag
  /\ flag => /\ pos["first"] >= 1 /\ current = Two(first[pos["first"]])
             /\ Len(out) = 2 * (pos["first"] - 1) + pos["current"]
  /\ ~flag => Len(out) = 2 * pos["first"]
  /\ ended => pos["first"] = Len(first) /\ ~flag

\* A value of another upstream.
LEMMA OtherMoves ==
  ASSUME CombTypeOK, Value, pc # "first"
  PROVE  /\ pc \in Upstreams /\ pos[pc] < Len(Stream(pc)) /\ pos'[pc] = pos[pc] + 1
         /\ \A u \in Upstreams \ {pc} : pos'[u] = pos[u]
         /\ UNCHANGED config
<1>1. pos' = [pos EXCEPT ![pc] = @ + 1] /\ pos[pc] < Len(Stream(pc)) /\ pc # "idle"
  BY DEF Value
<1>2. pos \in [Upstreams -> Nat] /\ pc \in Upstreams
  BY <1>1 DEF CombTypeOK
<1>3. QED BY <1>1, <1>2 DEF Value

\* scan: the sum that is kept is the sum of what came.
LEMMA ScanStep ==
  ASSUME CombTypeOK, Next, kind = "scan", NEW R,
         \A k \in 1..Len(first) : R[k] = Sums(first)[k] /\ Sums(first)[k] = Sums(first)[k - 1] + first[k],
         ScanAt, Agrees(R)
  PROVE  ScanAt' /\ Agrees(R)'
<1>1. CASE CallNext
  <2>1. pc' = "first" /\ UNCHANGED <<first, pos, acc, out, ended>>
    BY <1>1 DEF CallNext, NextMerge, NextTake, NextSkip, NextTakeWhile, NextFlatMap, NextPlain,
                Await, End, config, Local
  <2>2. QED BY <2>1 DEF ScanAt, MapAt, AtFirst, Agrees
<1>2. CASE Value
  <2> DEFINE x == first[pos["first"] + 1]
  <2>1. /\ pc = "first" /\ acc' = acc + x /\ out' = Append(out, acc') /\ ended' = ended
        /\ pc' = "idle"
    BY <1>2 DEF ScanAt, MapAt, AtFirst, Value, Stream, GotMap, GotFilter, GotScan, GotAsIs, GotSkip, GotSkipWhile,
                GotTakeWhile, GotZip, GotFlatMap, Await, Yield, End, Local
  <2>2. pos["first"] < Len(first) /\ pos'["first"] = pos["first"] + 1 /\ first' = first
    BY <1>2, <2>1, FirstMoves DEF config
  <2>3. acc' = Sums(first)[pos["first"] + 1] /\ R[Len(out) + 1] = acc'
    <3>1. pos["first"] + 1 \in 1..Len(first) /\ (pos["first"] + 1) - 1 = pos["first"]
      BY <2>2, Numbers
    <3>2. Sums(first)[pos["first"] + 1] = Sums(first)[pos["first"]] + x
      BY <3>1
    <3>3. QED BY <2>1, <3>1, <3>2 DEF ScanAt, MapAt
  <2> HIDE DEF x
  <2>4. Agrees(R)' /\ Len(out') = Len(out) + 1
    BY <2>1, <2>3, OneMore
  <2>5. ~ended
    BY <2>2, Numbers DEF ScanAt, MapAt
  <2>6. QED BY <2>1, <2>2, <2>3, <2>4, <2>5 DEF ScanAt, MapAt, AtFirst
<1>3. CASE Over
  <2>1. pc = "first" /\ pos["first"] = Len(first) /\ pc' = "idle" /\ UNCHANGED <<first, pos, acc, out>>
    BY <1>3 DEF ScanAt, MapAt, AtFirst, Over, Stream, End, config
  <2>2. QED BY <2>1 DEF ScanAt, MapAt, AtFirst, Agrees
<1>4. CASE Stop
  BY <1>4 DEF ScanAt, MapAt, AtFirst, Agrees, Stop, config
<1>5. QED BY <1>1, <1>2, <1>3, <1>4 DEF Next

\* filter: an item that is not accepted is followed by the call of the next.
LEMMA FilterStep ==
  ASSUME CombTypeOK, Next, kind = "filter", NEW R,
         \A k \in 1..Len(first) :
           IF first[k] \in Keep
           THEN Found(first, k) = Found(first, k - 1) + 1 /\ R[Found(first, k)] = first[k]
           ELSE Found(first, k) = Found(first, k - 1),
         FilterAt, Agrees(R)
  PROVE  FilterAt' /\ Agrees(R)'
<1>1. CASE CallNext
  <2>1. pc' = "first" /\ UNCHANGED <<first, pos, out, ended>>
    BY <1>1 DEF CallNext, NextMerge, NextTake, NextSkip, NextTakeWhile, NextFlatMap, NextPlain,
                Await, End, config, Local
  <2>2. QED BY <2>1 DEF FilterAt, AtFirst, Agrees
<1>2. CASE Value
  <2> DEFINE x == first[pos["first"] + 1]
  <2>1. /\ pc = "first" /\ ended' = ended
        /\ IF x \in Keep THEN out' = Append(out, x) /\ pc' = "idle" ELSE out' = out /\ pc' = "first"
    BY <1>2 DEF FilterAt, AtFirst, Value, Stream, GotMap, GotFilter, GotScan, GotAsIs, GotSkip, GotSkipWhile,
                GotTakeWhile, GotZip, GotFlatMap, Await, Yield, End, Local
  <2>2. pos["first"] < Len(first) /\ pos'["first"] = pos["first"] + 1 /\ first' = first
    BY <1>2, <2>1, FirstMoves DEF config
  <2>3. pos["first"] + 1 \in 1..Len(first) /\ (pos["first"] + 1) - 1 = pos["first"]
    BY <2>2, Numbers
  <2>4. IF x \in Keep
        THEN Found(first, pos["first"] + 1) = Len(out) + 1 /\ R[Len(out) + 1] = x
        ELSE Found(first, pos["first"] + 1) = Len(out)
    BY <2>3 DEF FilterAt
  <2> HIDE DEF x
  <2>5. ~ended
    BY <2>2, Numbers DEF FilterAt
  <2>6. CASE x \in Keep
    <3>1. Agrees(R)' /\ Len(out') = Len(out) + 1
      BY <2>1, <2>4, <2>6, OneMore
    <3>2. QED BY <2>1, <2>2, <2>4, <2>5, <2>6, <3>1 DEF FilterAt, AtFirst
  <2>7. CASE x \notin Keep
    BY <2>1, <2>2, <2>4, <2>5, <2>7 DEF FilterAt, AtFirst, Agrees
  <2>8. QED BY <2>6, <2>7
<1>3. CASE Over
  <2>1. pc = "first" /\ pos["first"] = Len(first) /\ pc' = "idle" /\ UNCHANGED <<first, pos, out>>
    BY <1>3 DEF FilterAt, AtFirst, Over, Stream, End, config
  <2>2. QED BY <2>1 DEF FilterAt, AtFirst, Agrees
<1>4. CASE Stop
  BY <1>4 DEF FilterAt, AtFirst, Agrees, Stop, config
<1>5. QED BY <1>1, <1>2, <1>3, <1>4 DEF Next

\* take: a call counts before its item comes, and a stopped one has counted in vain.
LEMMA TakeStep ==
  ASSUME CombTypeOK, Next, kind = "take", NEW R,
         \A k \in 1..Len(first) : k <= count => R[k] = first[k],
         TakeAt, Agrees(R)
  PROVE  TakeAt' /\ Agrees(R)'
<1>1. count \in Nat /\ remaining \in Nat /\ stops \in Nat
  BY DEF CombTypeOK
<1>2. CASE CallNext
  <2>1. /\ pc = "idle" /\ UNCHANGED <<first, pos, out, count, stops>>
        /\ IF remaining = 0 THEN pc' = "idle" /\ ended' = TRUE /\ remaining' = remaining
                            ELSE pc' = "first" /\ ended' = ended /\ remaining' = remaining - 1
    BY <1>2 DEF CallNext, NextMerge, NextTake, NextSkip, NextTakeWhile, NextFlatMap, NextPlain,
                Await, End, config, Local
  <2>2. CASE remaining = 0
    BY <1>1, <2>1, <2>2, Numbers DEF TakeAt, AtFirst, Agrees, Waiting
  <2>3. CASE remaining # 0
    BY <1>1, <2>1, <2>3, Numbers DEF TakeAt, AtFirst, Agrees, Waiting
  <2>4. QED BY <2>2, <2>3
<1>3. CASE Value
  <2> DEFINE x == first[pos["first"] + 1]
  <2>1. /\ pc = "first" /\ out' = Append(out, x) /\ ended' = ended /\ pc' = "idle"
        /\ UNCHANGED <<remaining, stops, count>>
    BY <1>3 DEF TakeAt, AtFirst, config, Value, Stream, GotMap, GotFilter, GotScan, GotAsIs, GotSkip, GotSkipWhile,
                GotTakeWhile, GotZip, GotFlatMap, Await, Yield, End, Local
  <2>2. pos["first"] < Len(first) /\ pos'["first"] = pos["first"] + 1 /\ first' = first
    BY <1>3, <2>1, FirstMoves DEF config
  <2>3. pos["first"] + 1 \in 1..Len(first) /\ pos["first"] + 1 <= count - remaining
        /\ pos["first"] + 1 <= count
    BY <1>1, <2>1, <2>2, Numbers DEF TakeAt, Waiting
  <2>4. R[Len(out) + 1] = x
    BY <2>3 DEF TakeAt
  <2> HIDE DEF x
  <2>5. Agrees(R)' /\ Len(out') = Len(out) + 1
    BY <2>1, <2>4, OneMore
  <2>6. QED BY <1>1, <2>1, <2>2, <2>3, <2>5, Numbers DEF TakeAt, AtFirst, Waiting
<1>4. CASE Over
  <2>1. /\ pc = "first" /\ pos["first"] = Len(first) /\ pc' = "idle"
        /\ UNCHANGED <<first, pos, out, remaining, count, stops>>
    BY <1>4 DEF TakeAt, AtFirst, Over, Stream, End, config
  <2>2. QED BY <1>1, <2>1, Numbers DEF TakeAt, AtFirst, Agrees, Waiting
<1>5. CASE Stop
  <2>1. /\ pc = "first" /\ pc' = "idle" /\ stops' # 0
        /\ UNCHANGED <<first, pos, out, remaining, count, ended>>
    BY <1>1, <1>5 DEF TakeAt, AtFirst, Stop, config
  <2>2. QED BY <1>1, <2>1, Numbers DEF TakeAt, AtFirst, Agrees, Waiting
<1>6. QED BY <1>2, <1>3, <1>4, <1>5 DEF Next

\* skip: only the first call passes over items, and a stop ends it for good.
LEMMA SkipStep ==
  ASSUME CombTypeOK, Next, kind = "skip", NEW R,
         \A k \in 1..Len(first) : k > count => R[k - count] = first[k],
         SkipAt, stops = 0 => Agrees(R)
  PROVE  SkipAt' /\ (stops' = 0 => Agrees(R)')
<1>1. count \in Nat /\ i \in Nat /\ stops \in Nat
  BY DEF CombTypeOK
<1>2. CASE CallNext
  <2>1. /\ pc = "idle" /\ UNCHANGED <<first, pos, out, count, stops, ended, remaining>>
        /\ pc' = "first" /\ flag' = TRUE /\ i' = IF flag THEN 0 ELSE remaining
    BY <1>2 DEF CallNext, NextMerge, NextTake, NextSkip, NextTakeWhile, NextFlatMap, NextPlain,
                Await, End, config, Local
  <2>2. QED BY <1>1, <2>1, Numbers DEF SkipAt, AtFirst, Agrees, Beyond
<1>3. CASE Value
  <2> DEFINE x == first[pos["first"] + 1]
  <2>1. /\ pc = "first" /\ ended' = ended
        /\ IF i > 0 THEN i' = i - 1 /\ out' = out /\ pc' = "first"
                    ELSE i' = i /\ out' = Append(out, x) /\ pc' = "idle"
        /\ UNCHANGED <<remaining, flag, stops, count>>
    BY <1>3 DEF SkipAt, AtFirst, config, Value, Stream, GotMap, GotFilter, GotScan, GotAsIs, GotSkip, GotSkipWhile,
                GotTakeWhile, GotZip, GotFlatMap, Await, Yield, End, Local
  <2>2. pos["first"] < Len(first) /\ pos'["first"] = pos["first"] + 1 /\ first' = first
    BY <1>3, <2>1, FirstMoves DEF config
  <2>3. flag /\ ~ended
    BY <2>1, <2>2, Numbers DEF SkipAt
  <2>4. stops = 0 => i = Beyond(pos["first"], count)
    BY <2>1, <2>2, <2>3, Numbers DEF SkipAt
  <2>5. CASE i > 0
    <3>1. SkipAt'
      BY <1>1, <2>1, <2>2, <2>3, <2>4, <2>5, Numbers DEF SkipAt, AtFirst, Beyond
    <3>2. QED BY <2>1, <2>5, <3>1 DEF Agrees
  <2>6. CASE ~(i > 0)
    <3>1. SkipAt' /\ (stops = 0 => Agrees(R)')
      <4>1. CASE stops = 0
        <5>1. pos["first"] >= count /\ Len(out) = pos["first"] - count
          BY <1>1, <2>4, <2>6, <4>1, Numbers DEF Beyond, SkipAt
        <5>2. pos["first"] + 1 \in 1..Len(first) /\ pos["first"] + 1 > count
              /\ (pos["first"] + 1) - count = Len(out) + 1
          BY <1>1, <2>2, <5>1, Numbers
        <5>3. R[Len(out) + 1] = x
          BY <5>2
        <5>4. Agrees(R)' /\ Len(out') = Len(out) + 1
          BY <2>1, <2>6, <4>1, <5>3, OneMore
        <5> HIDE DEF x
        <5>5. SkipAt'
          BY <1>1, <2>1, <2>2, <2>3, <2>6, <4>1, <5>1, <5>4, Numbers DEF SkipAt, AtFirst, Beyond
        <5>6. QED BY <5>4, <5>5
      <4>2. CASE stops # 0
        BY <1>1, <2>1, <2>2, <2>3, <2>6, <4>2, Numbers DEF SkipAt, AtFirst
      <4>3. QED BY <4>1, <4>2
    <3>2. QED BY <2>1, <3>1
  <2>7. QED BY <2>5, <2>6
<1>4. CASE Over
  <2>1. /\ pc = "first" /\ pos["first"] = Len(first) /\ pc' = "idle"
        /\ UNCHANGED <<first, pos, out, remaining, count, stops, flag>>
    BY <1>4 DEF SkipAt, AtFirst, Over, Stream, End, config
  <2>2. QED BY <1>1, <2>1, Numbers DEF SkipAt, AtFirst, Agrees
<1>5. CASE Stop
  <2>1. /\ pc = "first" /\ pc' = "idle" /\ stops' # 0
        /\ UNCHANGED <<first, pos, out, remaining, count, ended, flag>>
    BY <1>1, <1>5 DEF SkipAt, AtFirst, Stop, config
  <2>2. QED BY <1>1, <2>1, Numbers DEF SkipAt, AtFirst
<1>6. QED BY <1>2, <1>3, <1>4, <1>5 DEF Next

\* take_while: the first item that is not accepted sets the flag and ends the stream.
LEMMA TakeWhileStep ==
  ASSUME CombTypeOK, Next, kind = "take_while", NEW R,
         \A k \in 1..Accepted(first) : R[k] = first[k],
         TakeWhileAt, Agrees(R)
  PROVE  TakeWhileAt' /\ Agrees(R)'
<1>1. first \in Seq(Int) /\ flag \in BOOLEAN
  BY DEF CombTypeOK
<1>2. CASE CallNext
  <2>1. /\ pc = "idle" /\ UNCHANGED <<first, pos, out, flag>>
        /\ IF flag THEN pc' = "idle" /\ ended' = TRUE ELSE pc' = "first" /\ ended' = ended
    BY <1>2 DEF CallNext, NextMerge, NextTake, NextSkip, NextTakeWhile, NextFlatMap, NextPlain,
                Await, End, config, Local
  <2>2. QED BY <2>1 DEF TakeWhileAt, AtFirst, Agrees
<1>3. /\ Accepted(first) \in 0..Len(first)
      /\ \A k \in 1..Accepted(first) : first[k] \in Keep
      /\ Accepted(first) < Len(first) => first[Accepted(first) + 1] \notin Keep
  BY <1>1, AcceptedMeans
<1>4. CASE Value
  <2> DEFINE x == first[pos["first"] + 1]
  <2>1. /\ pc = "first"
        /\ IF x \in Keep THEN out' = Append(out, x) /\ pc' = "idle" /\ ended' = ended /\ flag' = flag
                         ELSE out' = out /\ pc' = "idle" /\ ended' = TRUE /\ flag' = TRUE
    BY <1>4 DEF TakeWhileAt, AtFirst, Value, Stream, GotMap, GotFilter, GotScan, GotAsIs, GotSkip, GotSkipWhile,
                GotTakeWhile, GotZip, GotFlatMap, Await, Yield, End, Local
  <2>2. pos["first"] < Len(first) /\ pos'["first"] = pos["first"] + 1 /\ first' = first
    BY <1>4, <2>1, FirstMoves DEF config
  <2>3. ~flag /\ pos["first"] <= Accepted(first) /\ Len(out) = pos["first"] /\ ~ended
    BY <2>1 DEF TakeWhileAt
  <2>4. x \in Keep <=> pos["first"] < Accepted(first)
    <3>1. pos["first"] < Accepted(first) => pos["first"] + 1 \in 1..Accepted(first)
      BY <1>3, Numbers
    <3>2. ~(pos["first"] < Accepted(first)) => pos["first"] = Accepted(first)
      BY <1>3, <2>3, Numbers
    <3>3. QED BY <1>3, <2>2, <3>1, <3>2
  <2>5. CASE x \in Keep
    <3>1. pos["first"] + 1 \in 1..Accepted(first)
      BY <1>3, <2>4, <2>5, Numbers
    <3>2. R[Len(out) + 1] = x
      BY <2>3, <3>1
    <3> HIDE DEF x
    <3>3. Agrees(R)' /\ Len(out') = Len(out) + 1
      BY <2>1, <2>5, <3>2, OneMore
    <3>4. pos["first"] + 1 <= Accepted(first)
      BY <3>1
    <3>5. QED BY <2>1, <2>2, <2>3, <2>5, <3>3, <3>4 DEF TakeWhileAt, AtFirst
  <2>6. CASE x \notin Keep
    <3>1. Len(out) = Accepted(first)
      BY <1>3, <2>3, <2>4, <2>6, Numbers
    <3> HIDE DEF x
    <3>2. QED BY <2>1, <2>2, <2>6, <3>1 DEF TakeWhileAt, AtFirst, Agrees
  <2>7. QED BY <2>5, <2>6
<1>5. CASE Over
  <2>1. /\ pc = "first" /\ pos["first"] = Len(first) /\ pc' = "idle" /\ flag' = TRUE
        /\ UNCHANGED <<first, pos, out>>
    BY <1>5 DEF TakeWhileAt, AtFirst, Over, Stream, End, config
  <2>2. ~flag /\ pos["first"] <= Accepted(first) /\ Len(out) = pos["first"]
    BY <2>1 DEF TakeWhileAt
  <2>3. Len(out) = Accepted(first)
    BY <1>3, <2>1, <2>2, Numbers
  <2>4. QED BY <2>1, <2>3 DEF TakeWhileAt, AtFirst, Agrees
<1>6. CASE Stop
  <2>1. pc = "first" /\ pc' = "idle" /\ UNCHANGED <<first, pos, out, ended, flag>>
    BY <1>6 DEF TakeWhileAt, AtFirst, Stop, config
  <2>2. QED BY <2>1 DEF TakeWhileAt, AtFirst, Agrees
<1>7. QED BY <1>2, <1>4, <1>5, <1>6 DEF Next

\* skip_while: the flag is set by the first call and i tells whether it still skips.
LEMMA SkipWhileStep ==
  ASSUME CombTypeOK, Next, kind = "skip_while", NEW R,
         \A k \in 1..Len(first) : k > Accepted(first) => R[k - Accepted(first)] = first[k],
         SkipWhileAt, stops = 0 => Agrees(R)
  PROVE  SkipWhileAt' /\ (stops' = 0 => Agrees(R)')
<1>1. stops \in Nat /\ first \in Seq(Int)
  BY DEF CombTypeOK
<1>2. /\ Accepted(first) \in 0..Len(first)
      /\ \A k \in 1..Accepted(first) : first[k] \in Keep
      /\ Accepted(first) < Len(first) => first[Accepted(first) + 1] \notin Keep
  BY <1>1, AcceptedMeans
<1>3. CASE CallNext
  <2>1. /\ pc = "idle" /\ UNCHANGED <<first, pos, out, stops, ended>>
        /\ pc' = "first" /\ flag' = TRUE /\ i' = IF flag THEN 0 ELSE 1
    BY <1>3 DEF CallNext, NextMerge, NextTake, NextSkip, NextTakeWhile, NextFlatMap, NextPlain,
                Await, End, config, Local
  <2>2. QED BY <1>1, <1>2, <2>1, Numbers DEF SkipWhileAt, AtFirst, Agrees, Beyond
<1>4. CASE Value
  <2> DEFINE x == first[pos["first"] + 1]
  <2>1. /\ pc = "first" /\ ended' = ended
        /\ IF i > 0 /\ x \in Keep THEN out' = out /\ pc' = "first"
                                  ELSE out' = Append(out, x) /\ pc' = "idle"
        /\ UNCHANGED <<i, flag, stops>>
    BY <1>4 DEF SkipWhileAt, AtFirst, config, Value, Stream, GotMap, GotFilter, GotScan, GotAsIs, GotSkip, GotSkipWhile,
                GotTakeWhile, GotZip, GotFlatMap, Await, Yield, End, Local
  <2>2. pos["first"] < Len(first) /\ pos'["first"] = pos["first"] + 1 /\ first' = first
    BY <1>4, <2>1, FirstMoves DEF config
  <2>3. flag /\ ~ended /\ i \in {0, 1}
    BY <2>1, <2>2, Numbers DEF SkipWhileAt
  <2>4. stops = 0 => IF i = 1 THEN pos["first"] <= Accepted(first) ELSE pos["first"] > Accepted(first)
    BY <2>1, <2>2, <2>3, Numbers DEF SkipWhileAt
  <2>5. pos["first"] <= Accepted(first) => (x \in Keep <=> pos["first"] < Accepted(first))
    <3>1. pos["first"] < Accepted(first) => pos["first"] + 1 \in 1..Accepted(first)
      BY <1>2, Numbers
    <3>2. pos["first"] <= Accepted(first) /\ ~(pos["first"] < Accepted(first)) =>
            pos["first"] = Accepted(first)
      BY <1>2, Numbers
    <3>3. QED BY <1>2, <2>2, <3>1, <3>2
  <2>6. CASE i > 0 /\ x \in Keep
    <3> HIDE DEF x
    <3>1. i = 1
      BY <2>3, <2>6
    <3>2. stops = 0 => pos["first"] < Accepted(first)
      BY <2>4, <2>5, <2>6, <3>1
    <3>3. SkipWhileAt'
      BY <1>1, <1>2, <2>1, <2>2, <2>3, <2>6, <3>1, <3>2, Numbers DEF SkipWhileAt, AtFirst, Beyond
    <3>4. QED BY <2>1, <2>6, <3>3 DEF Agrees
  <2>7. CASE ~(i > 0 /\ x \in Keep)
    <3>1. CASE stops = 0
      <4>1. pos["first"] >= Accepted(first)
        BY <1>2, <2>3, <2>4, <2>5, <2>7, <3>1, Numbers
      <4>2. Len(out) = pos["first"] - Accepted(first)
        BY <1>2, <3>1, <4>1, Numbers DEF SkipWhileAt, Beyond
      <4>3. pos["first"] + 1 \in 1..Len(first) /\ pos["first"] + 1 > Accepted(first)
            /\ (pos["first"] + 1) - Accepted(first) = Len(out) + 1
        BY <1>2, <2>2, <4>1, <4>2, Numbers
      <4>4. R[Len(out) + 1] = x
        BY <4>3
      <4>5. out' = Append(out, x) /\ pc' = "idle"
        BY <2>1, <2>7
      <4> HIDE DEF x
      <4>6. Agrees(R)' /\ Len(out') = Len(out) + 1
        BY <3>1, <4>4, <4>5, OneMore
      <4>7. SkipWhileAt'
        BY <1>2, <2>1, <2>2, <2>3, <4>2, <4>3, <4>5, <4>6, Numbers DEF SkipWhileAt, AtFirst, Beyond
      <4>8. QED BY <4>6, <4>7
    <3>2. CASE stops # 0
      <4> HIDE DEF x
      <4> QED BY <1>1, <2>1, <2>2, <2>3, <2>7, <3>2, Numbers DEF SkipWhileAt, AtFirst
    <3>3. QED BY <3>1, <3>2
  <2>8. QED BY <2>6, <2>7
<1>5. CASE Over
  <2>1. /\ pc = "first" /\ pos["first"] = Len(first) /\ pc' = "idle"
        /\ UNCHANGED <<first, pos, out, i, stops, flag>>
    BY <1>5 DEF SkipWhileAt, AtFirst, Over, Stream, End, config
  <2>2. QED BY <1>1, <1>2, <2>1, Numbers DEF SkipWhileAt, AtFirst, Agrees
<1>6. CASE Stop
  <2>1. /\ pc = "first" /\ pc' = "idle" /\ stops' # 0
        /\ UNCHANGED <<first, pos, out, i, ended, flag>>
    BY <1>1, <1>6 DEF SkipWhileAt, AtFirst, Stop, config
  <2>2. QED BY <1>1, <2>1, Numbers DEF SkipWhileAt, AtFirst
<1>7. QED BY <1>3, <1>4, <1>5, <1>6 DEF Next

\* zip: the item of the first upstream is kept until that of the second comes.
LEMMA ZipStep ==
  ASSUME CombTypeOK, Next, kind = "zip", NEW R,
         \A k \in 1..Len(first) : k <= Len(second) => R[k] = <<first[k], second[k]>>,
         ZipAt, stops = 0 => Agrees(R)
  PROVE  ZipAt' /\ (stops' = 0 => Agrees(R)')
<1>1. stops \in Nat
  BY DEF CombTypeOK
<1>2. CASE CallNext
  <2>1. /\ pc = "idle" /\ pc' = "first" /\ UNCHANGED <<first, second, pos, a, out, stops, ended>>
    BY <1>2 DEF CallNext, NextMerge, NextTake, NextSkip, NextTakeWhile, NextFlatMap, NextPlain,
                Await, End, config, Local
  <2>2. QED BY <1>1, <2>1, Numbers DEF ZipAt, Agrees
<1>3. CASE Value /\ pc = "first"
  <2>1. /\ pc' = "second" /\ a' = first[pos["first"] + 1] /\ UNCHANGED <<out, ended, stops, second>>
    BY <1>3 DEF config, Value, Stream, GotMap, GotFilter, GotScan, GotAsIs, GotSkip, GotSkipWhile,
                GotTakeWhile, GotZip, GotFlatMap, Await, Yield, End, Local
  <2>2. /\ pos["first"] < Len(first) /\ pos'["first"] = pos["first"] + 1 /\ first' = first
        /\ pos'["second"] = pos["second"]
    BY <1>3, FirstMoves DEF config
  <2>3. CASE stops = 0
    <3>1. /\ Len(out) = pos["second"] /\ pos["second"] <= pos["first"]
          /\ pos["second"] = Len(second) \/ pos["first"] = pos["second"]
          /\ ended => pos["second"] = Len(second)
      BY <1>3, <2>2, <2>3, Numbers DEF ZipAt
    <3>2. ZipAt'
      <4>1. pos'["second"] <= pos'["first"] /\ Len(out') = pos'["second"]
        BY <2>1, <2>2, <3>1, Numbers
      <4>2. \/ pos'["second"] = Len(second')
            \/ pos'["first"] = pos'["second"] + 1 /\ pc' = "second" /\ a' = first'[pos'["first"]]
        BY <2>1, <2>2, <3>1
      <4>3. ended' => pos'["second"] = Len(second')
        BY <2>1, <2>2, <3>1
      <4>4. QED BY <2>1, <4>1, <4>2, <4>3 DEF ZipAt
    <3>3. QED BY <2>1, <2>3, <3>2 DEF Agrees
  <2>4. CASE stops # 0
    BY <2>1, <2>4 DEF ZipAt
  <2>5. QED BY <2>3, <2>4
<1>4. CASE Value /\ pc = "second"
  <2> DEFINE x == second[pos["second"] + 1]
  <2>1. /\ pc' = "idle" /\ out' = Append(out, <<a, x>>) /\ UNCHANGED <<ended, stops, first, second>>
    BY <1>4 DEF config, Value, Stream, GotMap, GotFilter, GotScan, GotAsIs, GotSkip, GotSkipWhile,
                GotTakeWhile, GotZip, GotFlatMap, Await, Yield, End, Local
  <2>2. /\ pos["second"] < Len(second) /\ pos'["second"] = pos["second"] + 1
        /\ pos'["first"] = pos["first"]
    BY <1>4, OtherMoves DEF Upstreams, Stream
  <2>3. CASE stops = 0
    <3>1. /\ pos["first"] = pos["second"] + 1 /\ a = first[pos["first"]] /\ Len(out) = pos["second"]
          /\ ~ended
      BY <1>4, <2>2, <2>3, Numbers DEF ZipAt
    <3>2. pos["first"] \in 1..Len(first) /\ pos["first"] <= Len(second) /\ pos["first"] = Len(out) + 1
          /\ pos["second"] + 1 = Len(out) + 1
      BY <2>2, <3>1, Numbers
    <3>3. R[Len(out) + 1] = <<a, x>>
      BY <3>1, <3>2
    <3> DEFINE y == <<a, x>>
    <3>4. R[Len(out) + 1] = y /\ out' = Append(out, y)
      BY <2>1, <3>3
    <3> HIDE DEF x, y
    <3>5. Agrees(R)' /\ Len(out') = Len(out) + 1
      BY <2>3, <3>4, OneMore
    <3>6. ZipAt'
      BY <2>1, <2>2, <2>3, <3>1, <3>5, Numbers DEF ZipAt
    <3>7. QED BY <3>5, <3>6
  <2>4. CASE stops # 0
    <3> HIDE DEF x
    <3> QED BY <2>1, <2>4 DEF ZipAt
  <2>5. QED BY <2>3, <2>4
<1>5. CASE Over
  <2>1. pc \in {"first", "second"}
    BY <1>5 DEF ZipAt, Over
  <2>2. /\ (pc = "first" /\ pos["first"] = Len(first)) \/ (pc = "second" /\ pos["second"] = Len(second))
        /\ pc' = "idle" /\ UNCHANGED <<first, second, pos, out, stops>>
    BY <1>5, <2>1 DEF Over, Stream, End, config
  <2>3. QED BY <1>1, <2>2, Numbers DEF ZipAt, Agrees
<1>6. CASE Stop
  BY <1>1, <1>6 DEF ZipAt, Stop
<1>7. Value => pc = "first" \/ pc = "second"
  BY DEF Value, ZipAt
<1>8. QED BY <1>2, <1>3, <1>4, <1>5, <1>6, <1>7 DEF Next

\* merge: whose turn it is changes with what is given, and at the end of an upstream.
LEMMA MergeStep ==
  ASSUME CombTypeOK, Next, kind = "merge", NEW R,
         \A j \in 1..Len(second) : R[IF j <= Len(first) THEN 2 * j - 1 ELSE Len(first) + j] = second[j],
         \A j \in 1..Len(first) : R[IF j <= Len(second) THEN 2 * j ELSE Len(second) + j] = first[j],
         MergeAt, stops = 0 => Agrees(R)
  PROVE  MergeAt' /\ (stops' = 0 => Agrees(R)')
<1>1. stops \in Nat /\ flag \in BOOLEAN
  BY DEF CombTypeOK
<1>2. CASE CallNext
  <2>1. /\ pc = "idle" /\ UNCHANGED <<first, second, pos, out, stops, ended>>
        /\ flag' = ~flag /\ pc' = IF flag THEN "first" ELSE "second"
    BY <1>2 DEF CallNext, NextMerge, NextTake, NextSkip, NextTakeWhile, NextFlatMap, NextPlain,
                Await, End, config, Local
  <2>2. QED BY <1>1, <2>1, Numbers DEF MergeAt, SecondsTurn, Agrees
<1>3. CASE Value /\ pc = "first"
  <2> DEFINE x == first[pos["first"] + 1]
  <2>1. /\ pc' = "idle" /\ out' = Append(out, x) /\ UNCHANGED <<ended, stops, flag, second>>
    BY <1>3 DEF config, Value, Stream, GotMap, GotFilter, GotScan, GotAsIs, GotSkip, GotSkipWhile,
                GotTakeWhile, GotZip, GotFlatMap, Await, Yield, End, Local
  <2>2. /\ pos["first"] < Len(first) /\ pos'["first"] = pos["first"] + 1 /\ first' = first
        /\ pos'["second"] = pos["second"]
    BY <1>3, FirstMoves DEF config
  <2>3. ~ended /\ Len(out) = pos["first"] + pos["second"] /\ (flag => pos["second"] = Len(second))
    BY <1>3, <2>2, Numbers DEF MergeAt
  <2>4. stops = 0 => /\ pos["second"] = Len(second) \/ pos["second"] = pos["first"] + 1
                     /\ pos["second"] <= pos["first"] + 1
    BY <1>3, <2>2, Numbers DEF MergeAt, SecondsTurn
  <2>5. CASE stops = 0
    <3> DEFINE j == pos["first"] + 1
    <3>1. j \in 1..Len(first) /\ Len(out) + 1 = IF j <= Len(second) THEN 2 * j ELSE Len(second) + j
      <4>1. j \in 1..Len(first)
        BY <2>2, Numbers
      <4>2. CASE j <= Len(second)
        <5>1. pos["second"] = j
          BY <2>4, <2>5, <4>2, Numbers
        <5>2. QED BY <2>3, <4>1, <4>2, <5>1, Numbers
      <4>3. CASE ~(j <= Len(second))
        <5>1. pos["second"] = Len(second)
          BY <2>4, <2>5, <4>3, Numbers
        <5>2. QED BY <2>3, <4>1, <4>3, <5>1, Numbers
      <4>4. QED BY <4>2, <4>3
    <3>2. R[IF j <= Len(second) THEN 2 * j ELSE Len(second) + j] = x
      BY <3>1
    <3>3. R[Len(out) + 1] = x
      BY <3>1, <3>2
    <3> HIDE DEF x
    <3>4. Agrees(R)' /\ Len(out') = Len(out) + 1
      BY <2>1, <2>5, <3>3, OneMore
    <3>5. MergeAt'
      <4>1. Len(out') = pos'["first"] + pos'["second"]
        BY <2>2, <2>3, <3>4, Numbers
      <4>2. SecondsTurn' <=> ~flag
        BY <2>1 DEF SecondsTurn
      <4>3. /\ pos'["first"] > pos'["second"] => pos'["second"] = Len(second)
            /\ pos'["second"] > pos'["first"] + 1 => pos'["first"] = Len(first)
        BY <2>2, <2>4, <2>5, Numbers
      <4>4. \/ pos'["first"] = Len(first) \/ pos'["second"] = Len(second)
            \/ ~flag /\ pos'["first"] = pos'["second"]
            \/ flag /\ pos'["second"] = pos'["first"] + 1
        BY <2>2, <2>3, <2>4, <2>5, Numbers
      <4>5. QED BY <2>1, <2>2, <2>3, <4>1, <4>2, <4>3, <4>4 DEF MergeAt
    <3>6. QED BY <3>4, <3>5
  <2>6. CASE stops # 0
    <3>1. Len(out') = Len(out) + 1
      BY <2>1 DEF CombTypeOK
    <3> HIDE DEF x
    <3>2. QED BY <1>1, <2>1, <2>2, <2>3, <2>6, <3>1, Numbers DEF MergeAt
  <2>7. QED BY <2>5, <2>6
<1>4. CASE Value /\ pc = "second"
  <2> DEFINE x == second[pos["second"] + 1]
  <2>1. /\ pc' = "idle" /\ out' = Append(out, x) /\ UNCHANGED <<ended, stops, flag, first, second>>
    BY <1>4 DEF config, Value, Stream, GotMap, GotFilter, GotScan, GotAsIs, GotSkip, GotSkipWhile,
                GotTakeWhile, GotZip, GotFlatMap, Await, Yield, End, Local
  <2>2. /\ pos["second"] < Len(second) /\ pos'["second"] = pos["second"] + 1
        /\ pos'["first"] = pos["first"]
    BY <1>4, OtherMoves DEF Upstreams, Stream
  <2>3. ~ended /\ Len(out) = pos["first"] + pos["second"] /\ (~flag => pos["first"] = Len(first))
    BY <1>4, <2>2, Numbers DEF MergeAt
  <2>4. stops = 0 => /\ pos["first"] = Len(first) \/ pos["second"] = pos["first"]
                     /\ pos["first"] <= pos["second"]
    BY <1>4, <2>2, Numbers DEF MergeAt, SecondsTurn
  <2>5. CASE stops = 0
    <3> DEFINE j == pos["second"] + 1
    <3>1. j \in 1..Len(second) /\ Len(out) + 1 = IF j <= Len(first) THEN 2 * j - 1 ELSE Len(first) + j
      <4>1. j \in 1..Len(second)
        BY <2>2, Numbers
      <4>2. CASE j <= Len(first)
        <5>1. pos["first"] = pos["second"]
          BY <2>4, <2>5, <4>2, Numbers
        <5>2. QED BY <2>3, <4>1, <4>2, <5>1, Numbers
      <4>3. CASE ~(j <= Len(first))
        <5>1. pos["first"] = Len(first)
          BY <2>4, <2>5, <4>3, Numbers
        <5>2. QED BY <2>3, <4>1, <4>3, <5>1, Numbers
      <4>4. QED BY <4>2, <4>3
    <3>2. R[IF j <= Len(first) THEN 2 * j - 1 ELSE Len(first) + j] = x
      BY <3>1
    <3>3. R[Len(out) + 1] = x
      BY <3>1, <3>2
    <3> HIDE DEF x
    <3>4. Agrees(R)' /\ Len(out') = Len(out) + 1
      BY <2>1, <2>5, <3>3, OneMore
    <3>5. MergeAt'
      <4>1. Len(out') = pos'["first"] + pos'["second"]
        BY <2>2, <2>3, <3>4, Numbers
      <4>2. SecondsTurn' <=> ~flag
        BY <2>1 DEF SecondsTurn
      <4>3. /\ pos'["first"] > pos'["second"] => pos'["second"] = Len(second)
            /\ pos'["second"] > pos'["first"] + 1 => pos'["first"] = Len(first)
        BY <2>2, <2>4, <2>5, Numbers
      <4>4. \/ pos'["first"] = Len(first) \/ pos'["second"] = Len(second)
            \/ ~flag /\ pos'["first"] = pos'["second"]
            \/ flag /\ pos'["second"] = pos'["first"] + 1
        BY <2>2, <2>3, <2>4, <2>5, Numbers
      <4>5. QED BY <2>1, <2>2, <2>3, <4>1, <4>2, <4>3, <4>4 DEF MergeAt
    <3>6. QED BY <3>4, <3>5
  <2>6. CASE stops # 0
    <3>1. Len(out') = Len(out) + 1
      BY <2>1 DEF CombTypeOK
    <3> HIDE DEF x
    <3>2. QED BY <1>1, <2>1, <2>2, <2>3, <2>6, <3>1, Numbers DEF MergeAt
  <2>7. QED BY <2>5, <2>6
<1>5. CASE Over
  <2>1. /\ \/ /\ pc = "first" /\ pos["first"] = Len(first)
              /\ IF flag THEN pc' = "idle" ELSE pc' = "second" /\ ended' = ended
           \/ /\ pc = "second" /\ pos["second"] = Len(second)
              /\ IF flag THEN pc' = "first" /\ ended' = ended ELSE pc' = "idle"
        /\ UNCHANGED <<first, second, pos, out, stops, flag>>
    BY <1>1, <1>5 DEF MergeAt, Over, Stream, Await, End, config
  <2>2. QED BY <1>1, <2>1, Numbers DEF MergeAt, SecondsTurn, Agrees
<1>6. CASE Stop
  <2>1. pc' = "idle" /\ stops' # 0 /\ UNCHANGED <<first, second, pos, out, ended>>
    BY <1>1, <1>6 DEF Stop, config
  <2>2. QED BY <1>1, <2>1 DEF MergeAt
<1>7. Value => pc = "first" \/ pc = "second"
  BY DEF Value, MergeAt
<1>8. QED BY <1>2, <1>3, <1>4, <1>5, <1>6, <1>7 DEF Next

\* flat_map: the inner stream is read to its end before the next item is called for.
LEMMA FlatMapStep ==
  ASSUME CombTypeOK, Next, kind = "flat_map", NEW R,
         \A k \in 1..Len(first) : R[2 * k - 1] = first[k] /\ R[2 * k] = 2 * first[k],
         FlatMapAt, Agrees(R)
  PROVE  FlatMapAt' /\ Agrees(R)'
<1>1. flag \in BOOLEAN
  BY DEF CombTypeOK
<1>2. CASE CallNext
  <2>1. /\ pc = "idle" /\ UNCHANGED <<first, pos, current, flag, out, ended>>
        /\ pc' = IF flag THEN "current" ELSE "first"
    BY <1>2 DEF CallNext, NextMerge, NextTake, NextSkip, NextTakeWhile, NextFlatMap, NextPlain,
                Await, End, config, Local
  <2>2. QED BY <1>1, <2>1, Numbers DEF FlatMapAt, Agrees
<1>3. CASE Value /\ pc = "first"
  <2>1. /\ pc' = "current" /\ flag' = TRUE /\ current' = Two(first[pos["first"] + 1])
        /\ UNCHANGED <<out, ended>>
    BY <1>3 DEF Value, Stream, GotMap, GotFilter, GotScan, GotAsIs, GotSkip, GotSkipWhile,
                GotTakeWhile, GotZip, GotFlatMap, Await, Yield, End, Local
  <2>2. pos["first"] < Len(first) /\ pos'["first"] = pos["first"] + 1 /\ first' = first
    BY <1>3, FirstMoves DEF config
  <2>3. pos'["current"] = 0
    BY <1>3 DEF Value, CombTypeOK, Upstreams
  <2>4. ~ended /\ ~flag /\ Len(out) = 2 * pos["first"]
    BY <1>3, <2>2, Numbers DEF FlatMapAt
  <2>5. QED BY <2>1, <2>2, <2>3, <2>4, Numbers DEF FlatMapAt, Agrees
<1>4. CASE Value /\ pc = "current"
  <2> DEFINE x == current[pos["current"] + 1]
  <2>1. /\ pc' = "idle" /\ out' = Append(out, x) /\ UNCHANGED <<ended, flag, current, first>>
    BY <1>4 DEF config, Value, Stream, GotMap, GotFilter, GotScan, GotAsIs, GotSkip, GotSkipWhile,
                GotTakeWhile, GotZip, GotFlatMap, Await, Yield, End, Local
  <2>2. /\ pos["current"] < Len(current) /\ pos'["current"] = pos["current"] + 1
        /\ pos'["first"] = pos["first"]
    BY <1>4, OtherMoves DEF Upstreams, Stream
  <2>3. /\ flag /\ ~ended /\ pos["first"] \in 1..Len(first) /\ current = Two(first[pos["first"]])
        /\ Len(out) = 2 * (pos["first"] - 1) + pos["current"]
    BY <1>4, Numbers DEF FlatMapAt
  <2>4. pos["current"] \in {0, 1}
    <3>1. Len(current) = 2
      BY <2>3 DEF Two
    <3>2. QED BY <2>2, <3>1, Numbers
  <2>5. R[Len(out) + 1] = x
    <3>1. CASE pos["current"] = 0
      <4>1. Len(out) + 1 = 2 * pos["first"] - 1
        BY <2>3, <3>1, Numbers
      <4>2. x = first[pos["first"]]
        BY <2>3, <3>1 DEF Two
      <4>3. QED BY <2>3, <4>1, <4>2
    <3>2. CASE pos["current"] = 1
      <4>1. Len(out) + 1 = 2 * pos["first"]
        BY <2>3, <3>2, Numbers
      <4>2. x = 2 * first[pos["first"]]
        BY <2>3, <3>2 DEF Two
      <4>3. QED BY <2>3, <4>1, <4>2
    <3>3. QED BY <2>4, <3>1, <3>2
  <2> HIDE DEF x
  <2>6. Agrees(R)' /\ Len(out') = Len(out) + 1
    BY <2>1, <2>5, OneMore
  <2>7. Len(out') = 2 * (pos'["first"] - 1) + pos'["current"] /\ pos'["first"] >= 1
    <3>1. pos["first"] \in Nat /\ pos["current"] \in Nat /\ pos["first"] >= 1
      BY <2>3, Numbers
    <3>2. Len(out') = 2 * (pos["first"] - 1) + pos["current"] + 1
      BY <2>3, <2>6
    <3>3. QED BY <2>2, <3>1, <3>2
  <2>8. QED BY <2>1, <2>2, <2>3, <2>6, <2>7 DEF FlatMapAt
<1>5. CASE Over /\ pc = "current"
  <2>1. /\ pos["current"] = Len(current) /\ flag' = FALSE /\ pc' = "first"
        /\ UNCHANGED <<first, pos, current, out, ended>>
    BY <1>5 DEF Over, Stream, Await, config
  <2>2. /\ flag /\ ~ended /\ current = Two(first[pos["first"]])
        /\ Len(out) = 2 * (pos["first"] - 1) + pos["current"]
    BY <1>5 DEF FlatMapAt
  <2>3. Len(current) = 2
    BY <2>2 DEF Two
  <2>4. Len(out) = 2 * pos["first"]
    <3>1. pos["current"] = 2 /\ pos["first"] \in Nat
      BY <2>1, <2>3, Numbers
    <3>2. QED BY <2>2, <3>1
  <2>5. QED BY <2>1, <2>2, <2>4 DEF FlatMapAt, Agrees
<1>6. CASE Over /\ pc = "first"
  <2>1. /\ pos["first"] = Len(first) /\ flag' = flag /\ pc' = "idle"
        /\ UNCHANGED <<first, pos, current, out>>
    BY <1>6 DEF Over, Stream, End, config
  <2>2. QED BY <1>6, <2>1 DEF FlatMapAt, Agrees
<1>7. CASE Stop
  BY <1>7 DEF FlatMapAt, Agrees, Stop, config
<1>8. pc = "idle" \/ pc = "first" \/ pc = "current"
  BY DEF FlatMapAt
<1>9. ~((Value \/ Over) /\ pc = "idle")
  BY DEF Value, Over
<1>10. QED BY <1>2, <1>3, <1>4, <1>5, <1>6, <1>7, <1>8, <1>9 DEF Next

-----------------------------------------------------------------------------
\* What skip, skip_while, zip and merge give is compared only while no call was stopped.
Bound == kind \in {"skip", "skip_while", "zip", "merge"} => stops = 0

\* The inductive invariant.
CombInv ==
  /\ CombTypeOK
  /\ Bound => Agrees(Reference)
  /\ kind = "map"        => MapAt
  /\ kind = "scan"       => ScanAt
  /\ kind = "filter"     => FilterAt
  /\ kind = "flat_map"   => FlatMapAt
  /\ kind = "take"       => TakeAt
  /\ kind = "skip"       => SkipAt
  /\ kind = "take_while" => TakeWhileAt
  /\ kind = "skip_while" => SkipWhileAt
  /\ kind = "zip"        => ZipAt
  /\ kind = "merge"      => MergeAt

\* Item by item agreement makes a prefix, and with equal lengths the whole.
LEMMA PrefixMeans ==
  ASSUME NEW S, NEW s \in Seq(S), NEW t \in Seq(S), Len(s) <= Len(t), \A k \in 1..Len(s) : s[k] = t[k]
  PROVE  IsPrefix(s, t) /\ (Len(s) = Len(t) => s = t)
<1>1. Len(s) \in Nat /\ Len(t) \in Nat /\ (\A k \in 1..Len(s) : s[k] \in S) /\ (\A k \in 1..Len(t) : t[k] \in S)
  OBVIOUS
<1>2. SubSeq(s, 1, Len(s)) = s
  BY SubSeqFull
<1> DEFINE u == SubSeq(t, 1, Len(s))
<1>3. u \in Seq(S) /\ Len(u) = Len(s) /\ \A k \in 1..Len(s) : u[k] = t[k]
  <2> DEFINE e == Len(s)
  <2>1. e \in Int /\ 1 \in Int /\ e \in Nat /\ \A k \in 1..e : t[k] \in S
    BY <1>1
  <2> HIDE DEF e
  <2>2. /\ SubSeq(t, 1, e) \in Seq(S) /\ Len(SubSeq(t, 1, e)) = IF 1 <= e THEN e - 1 + 1 ELSE 0
        /\ \A k \in 1..(e - 1 + 1) : SubSeq(t, 1, e)[k] = t[1 + k - 1]
    BY <2>1, SubSeqProperties
  <2>3. e - 1 + 1 = e /\ \A k \in 1..e : 1 + k - 1 = k
    BY <2>1
  <2>4. QED BY <2>1, <2>2, <2>3 DEF e
<1>4. u = s
  <2>1. Len(u) = Len(s) /\ \A k \in 1..Len(u) : u[k] = s[k]
    BY <1>3
  <2> HIDE DEF u
  <2>2. QED BY <1>3, <2>1, SeqEqual
<1>5. Len(s) = Len(t) => s = t
  BY SeqEqual
<1>6. QED BY <1>2, <1>4, <1>5 DEF IsPrefix

\* What the reference of the kind at hand is, item by item.
LEMMA ReferenceMeans ==
  ASSUME CombTypeOK
  PROVE  /\ Reference \in Seq(Vals) /\ Len(Reference) \in Nat
         /\ kind = "map" => Len(Reference) = Len(first) /\ \A k \in 1..Len(first) : Reference[k] = Twice(first[k])
         /\ kind = "scan" => /\ Len(Reference) = Len(first)
                             /\ \A k \in 1..Len(first) :
                                  /\ Reference[k] = Sums(first)[k]
                                  /\ Sums(first)[k] = Sums(first)[k - 1] + first[k]
         /\ kind = "filter" =>
              /\ Found(first, 0) = 0 /\ Found(first, Len(first)) = Len(Reference)
              /\ \A k \in 0..Len(first) : Found(first, k) <= Len(Reference)
              /\ \A k \in 1..Len(first) :
                   IF first[k] \in Keep
                   THEN Found(first, k) = Found(first, k - 1) + 1 /\ Reference[Found(first, k)] = first[k]
                   ELSE Found(first, k) = Found(first, k - 1)
         /\ kind = "flat_map" =>
              /\ Len(Reference) = 2 * Len(first)
              /\ \A k \in 1..Len(first) : Reference[2 * k - 1] = first[k] /\ Reference[2 * k] = 2 * first[k]
         /\ kind = "take" => /\ Len(Reference) = Least(count, Len(first))
                             /\ \A k \in 1..Len(first) : k <= count => Reference[k] = first[k]
         /\ kind = "skip" => /\ Len(Reference) = Beyond(count, Len(first))
                             /\ \A k \in 1..Len(first) : k > count => Reference[k - count] = first[k]
         /\ kind = "take_while" => /\ Len(Reference) = Accepted(first)
                                   /\ \A k \in 1..Accepted(first) : Reference[k] = first[k]
         /\ kind = "skip_while" =>
              /\ Len(Reference) = Beyond(Accepted(first), Len(first))
              /\ \A k \in 1..Len(first) : k > Accepted(first) => Reference[k - Accepted(first)] = first[k]
         /\ kind = "zip" =>
              /\ Len(Reference) = Least(Len(first), Len(second))
              /\ \A k \in 1..Len(first) : k <= Len(second) => Reference[k] = <<first[k], second[k]>>
         /\ kind = "merge" =>
              /\ Len(Reference) = Len(first) + Len(second)
              /\ \A j \in 1..Len(second) :
                   Reference[IF j <= Len(first) THEN 2 * j - 1 ELSE Len(first) + j] = second[j]
              /\ \A j \in 1..Len(first) :
                   Reference[IF j <= Len(second) THEN 2 * j ELSE Len(second) + j] = first[j]
<1>1. /\ first \in Seq(Int) /\ second \in Seq(Int) /\ count \in Nat /\ kind \in Kinds
      /\ Len(first) \in Nat /\ Len(second) \in Nat
      /\ DOMAIN first = 1..Len(first)
      /\ \A k \in 1..Len(first) : first[k] \in Int
      /\ \A k \in 1..Len(second) : second[k] \in Int
      /\ Int \subseteq Vals
  BY DEF CombTypeOK, Vals
<1>2. count \in Nat /\ Len(first) \in Nat /\ Len(second) \in Nat
  BY <1>1
<1>3. \A t \in Seq(Int) : t \in Seq(Vals)
  <2>1. \A t \in Seq(Int) : t \in [1..Len(t) -> Vals] /\ Len(t) \in Nat
    BY <1>1
  <2>2. QED BY <2>1
\* A part of the first stream.
<1>4. ASSUME NEW b \in Nat \ {0}, NEW e \in Nat, e <= Len(first), e >= b - 1
       PROVE  /\ SubSeq(first, b, e) \in Seq(Vals) /\ Len(SubSeq(first, b, e)) = e - b + 1
              /\ \A k \in 1..(e - b + 1) : SubSeq(first, b, e)[k] = first[b + k - 1]
  <2>1. b \in Int /\ e \in Int /\ \A k \in b..e : first[k] \in Int
    BY <1>1, <1>4
  <2>2. /\ SubSeq(first, b, e) \in Seq(Int) /\ Len(SubSeq(first, b, e)) = IF b <= e THEN e - b + 1 ELSE 0
        /\ \A k \in 1..(e - b + 1) : SubSeq(first, b, e)[k] = first[b + k - 1]
    BY <2>1, SubSeqProperties
  <2>3. b <= e \/ e - b + 1 = 0
    BY <1>4
  <2>4. QED BY <1>3, <2>2, <2>3
<1>5. CASE kind = "map"
  <2>1. Reference = [k \in 1..Len(first) |-> Twice(first[k])]
    BY <1>1, <1>5 DEF Reference
  <2>2. \A k \in 1..Len(first) : Twice(first[k]) \in Vals
    BY <1>1 DEF Twice
  <2>3. Reference \in [1..Len(first) -> Vals] /\ \A k \in 1..Len(first) : Reference[k] = Twice(first[k])
    BY <2>1, <2>2
  <2>4. Reference \in Seq(Vals) /\ Len(Reference) = Len(first)
    <3>1. Reference \in [1..Len(first) -> Vals]
      BY <2>3
    <3>2. QED BY <1>2, <3>1
  <2>5. QED BY <1>1, <1>5, <2>3, <2>4
<1>6. CASE kind = "scan"
  <2>1. Reference = [k \in 1..Len(first) |-> Sums(first)[k]]
    BY <1>1, <1>6 DEF Reference
  <2>2. /\ \A k \in 0..Len(first) : Sums(first)[k] \in Int
        /\ \A k \in 1..Len(first) : Sums(first)[k] = Sums(first)[k - 1] + first[k]
    BY <1>1, SumsMean
  <2>3. \A k \in 1..Len(first) : Sums(first)[k] \in Vals
    BY <1>1, <2>2
  <2>4. Reference \in [1..Len(first) -> Vals] /\ \A k \in 1..Len(first) : Reference[k] = Sums(first)[k]
    BY <2>1, <2>3
  <2>5. Reference \in Seq(Vals) /\ Len(Reference) = Len(first)
    BY <1>1, <2>4
  <2>6. QED BY <1>1, <1>6, <2>2, <2>4, <2>5
<1>7. CASE kind = "filter"
  <2>1. Reference = FlattenSeq(Singles(first))
    BY <1>7 DEF Reference
  <2>2. /\ FlattenSeq(Singles(first)) \in Seq(Int)
        /\ Len(Flat(Singles(first))[0]) = 0
        /\ Len(Flat(Singles(first))[Len(first)]) = Len(FlattenSeq(Singles(first)))
        /\ \A k \in 0..Len(first) : /\ Len(Flat(Singles(first))[k]) \in Nat
                                    /\ Len(Flat(Singles(first))[k]) <= Len(FlattenSeq(Singles(first)))
        /\ \A k \in 1..Len(first) :
             IF first[k] \in Keep
             THEN /\ Len(Flat(Singles(first))[k]) = Len(Flat(Singles(first))[k - 1]) + 1
                  /\ FlattenSeq(Singles(first))[Len(Flat(Singles(first))[k])] = first[k]
             ELSE Len(Flat(Singles(first))[k]) = Len(Flat(Singles(first))[k - 1])
    BY <1>1, SinglesMean
  <2>3. FlattenSeq(Singles(first)) \in Seq(Vals) /\ Len(FlattenSeq(Singles(first))) \in Nat
    BY <1>3, <2>2
  <2>4. QED BY <1>7, <2>1, <2>2, <2>3 DEF Found
<1>8. CASE kind = "flat_map"
  <2>1. Reference = FlattenSeq([k \in DOMAIN first |-> Two(first[k])])
    BY <1>8 DEF Reference
  <2> DEFINE r == FlattenSeq([k \in DOMAIN first |-> Two(first[k])])
  <2>2. /\ r \in Seq(Int) /\ Len(r) = 2 * Len(first)
        /\ \A k \in 1..Len(first) : r[2 * k - 1] = first[k] /\ r[2 * k] = 2 * first[k]
    BY <1>1, DoublesMean
  <2> HIDE DEF r
  <2>3. Reference = r
    BY <2>1 DEF r
  <2>4. r \in Seq(Vals) /\ Len(r) \in Nat
    BY <1>3, <2>2
  <2>5. QED BY <1>8, <2>2, <2>3, <2>4
<1>9. CASE kind = "take"
  <2> DEFINE e == Least(count, Len(first))
  <2>1. Reference = SubSeq(first, 1, e)
    BY <1>9 DEF Reference
  <2>2. e \in Nat /\ e <= Len(first) /\ e >= 1 - 1 /\ \A k \in 1..Len(first) : k <= count => k \in 1..e
    BY <1>1 DEF Least
  <2> HIDE DEF e
  <2>3. /\ SubSeq(first, 1, e) \in Seq(Vals) /\ Len(SubSeq(first, 1, e)) = e - 1 + 1
        /\ \A k \in 1..(e - 1 + 1) : SubSeq(first, 1, e)[k] = first[1 + k - 1]
    BY <1>4, <2>2
  <2>4. e - 1 + 1 = e /\ \A k \in 1..e : 1 + k - 1 = k
    BY <2>2
  <2>5. Reference \in Seq(Vals) /\ Len(Reference) = e /\ \A k \in 1..e : Reference[k] = first[k]
    BY <2>1, <2>3, <2>4
  <2>6. QED BY <1>9, <2>2, <2>5 DEF e
<1>10. CASE kind = "skip"
  <2>1. Reference = SubSeq(first, count + 1, Len(first))
    BY <1>10 DEF Reference
  <2>2. CASE count <= Len(first)
    <3> DEFINE b == count + 1
               e == Len(first)
    <3>1. b \in Nat \ {0} /\ e \in Nat /\ e <= Len(first) /\ e >= b - 1
      BY <1>1, <2>2
    <3>2. /\ SubSeq(first, b, e) \in Seq(Vals) /\ Len(SubSeq(first, b, e)) = e - b + 1
          /\ \A k \in 1..(e - b + 1) : SubSeq(first, b, e)[k] = first[b + k - 1]
      <4> HIDE DEF b, e
      <4> QED BY <1>4, <3>1
    <3>3. e - b + 1 = Beyond(count, Len(first)) /\ e - b + 1 \in Nat
      BY <1>2, <2>2 DEF Beyond
    <3>4. ASSUME NEW k \in 1..Len(first), k > count PROVE Reference[k - count] = first[k]
      <4>1. k - count \in 1..(e - b + 1) /\ b + (k - count) - 1 = k
        BY <1>1, <3>4
      <4>2. QED BY <2>1, <3>2, <4>1
    <3>5. QED BY <1>10, <2>1, <3>2, <3>3, <3>4
  <2>3. CASE ~(count <= Len(first))
    <3>1. Reference = <<>>
      BY <1>1, <2>1, <2>3, SubSeqEmpty
    <3>2. Beyond(count, Len(first)) = 0 /\ \A k \in 1..Len(first) : ~(k > count)
      BY <1>2, <2>3 DEF Beyond
    <3>3. QED BY <1>10, <3>1, <3>2
  <2>4. QED BY <2>2, <2>3
<1>11. CASE kind = "take_while"
  <2> DEFINE e == Accepted(first)
  <2>1. Reference = SubSeq(first, 1, e)
    BY <1>11 DEF Reference
  <2>2. e \in Nat /\ e <= Len(first) /\ e >= 1 - 1
    BY <1>1, AcceptedMeans
  <2> HIDE DEF e
  <2>3. /\ SubSeq(first, 1, e) \in Seq(Vals) /\ Len(SubSeq(first, 1, e)) = e - 1 + 1
        /\ \A k \in 1..(e - 1 + 1) : SubSeq(first, 1, e)[k] = first[1 + k - 1]
    BY <1>4, <2>2
  <2>4. e - 1 + 1 = e /\ \A k \in 1..e : 1 + k - 1 = k
    BY <2>2
  <2>5. Reference \in Seq(Vals) /\ Len(Reference) = e /\ \A k \in 1..e : Reference[k] = first[k]
    BY <2>1, <2>3, <2>4
  <2>6. QED BY <1>11, <2>2, <2>5 DEF e
<1>12. CASE kind = "skip_while"
  <2> DEFINE n == Accepted(first)
             b == n + 1
             e == Len(first)
  <2>1. Reference = SubSeq(first, b, e)
    BY <1>12 DEF Reference
  <2>2. n \in Nat /\ n <= Len(first)
    BY <1>1, AcceptedMeans
  <2> HIDE DEF n
  <2>3. b \in Nat \ {0} /\ e \in Nat /\ e <= Len(first) /\ e >= b - 1
    BY <1>1, <2>2
  <2>4. /\ SubSeq(first, b, e) \in Seq(Vals) /\ Len(SubSeq(first, b, e)) = e - b + 1
        /\ \A k \in 1..(e - b + 1) : SubSeq(first, b, e)[k] = first[b + k - 1]
    <3> HIDE DEF b, e
    <3> QED BY <1>4, <2>3
  <2>5. e - b + 1 = Beyond(n, Len(first)) /\ e - b + 1 \in Nat
    BY <1>2, <2>2 DEF Beyond
  <2>6. ASSUME NEW k \in 1..Len(first), k > n PROVE Reference[k - n] = first[k]
    <3>1. k - n \in 1..(e - b + 1) /\ b + (k - n) - 1 = k
      BY <1>1, <2>2, <2>6
    <3>2. QED BY <2>1, <2>4, <3>1
  <2>7. QED BY <1>12, <2>1, <2>4, <2>5, <2>6 DEF n
<1>13. CASE kind = "zip"
  <2> DEFINE n == Least(Len(first), Len(second))
  <2>1. Reference = [k \in 1..n |-> <<first[k], second[k]>>]
    BY <1>13 DEF Reference
  <2>2. n \in Nat /\ n <= Len(first) /\ n <= Len(second)
        /\ \A k \in 1..Len(first) : k <= Len(second) => k \in 1..n
    BY <1>1 DEF Least
  <2> HIDE DEF n
  <2>3. \A k \in 1..n : <<first[k], second[k]>> \in Vals
    BY <1>1, <2>2 DEF Vals
  <2>4. Reference \in [1..n -> Vals] /\ \A k \in 1..n : Reference[k] = <<first[k], second[k]>>
    BY <2>1, <2>3
  <2>5. Reference \in Seq(Vals) /\ Len(Reference) = n
    BY <2>2, <2>4
  <2>6. QED BY <1>13, <2>2, <2>4, <2>5 DEF n
<1>14. CASE kind = "merge"
  <2>1. Reference = Turns(first, second)
    BY <1>14 DEF Reference
  <2> DEFINE r == Turns(first, second)
  <2>2. /\ r \in Seq(Int) /\ Len(r) = Len(first) + Len(second)
        /\ \A j \in 1..Len(second) : r[IF j <= Len(first) THEN 2 * j - 1 ELSE Len(first) + j] = second[j]
        /\ \A j \in 1..Len(first) : r[IF j <= Len(second) THEN 2 * j ELSE Len(second) + j] = first[j]
    BY <1>1, TurnsMean
  <2> HIDE DEF r
  <2>3. Reference = r
    BY <2>1 DEF r
  <2>4. r \in Seq(Vals) /\ Len(r) \in Nat
    BY <1>3, <2>2
  <2>5. QED BY <1>14, <2>2, <2>3, <2>4
<1>15. QED
  BY <1>1, <1>5, <1>6, <1>7, <1>8, <1>9, <1>10, <1>11, <1>12, <1>13, <1>14 DEF Kinds

\* The reference speaks of what no step changes.
LEMMA ReferenceStays ==
  ASSUME UNCHANGED config
  PROVE  Reference' = Reference
BY DEF config, Reference

\* It holds at the start.
LEMMA CombStart == Init => CombInv
<1> SUFFICES ASSUME Init PROVE CombInv
  OBVIOUS
<1>1. CombTypeOK
  BY CombTypeInit
<1>2. /\ pos["first"] = 0 /\ pos["second"] = 0 /\ pos["current"] = 0 /\ Len(out) = 0
      /\ pc = "idle" /\ ~ended /\ ~flag /\ remaining = count /\ acc = 0 /\ i = 0 /\ stops = 0
  BY DEF Init, Upstreams
<1>3. /\ Len(first) \in Nat /\ Len(second) \in Nat /\ count \in Nat /\ first \in Seq(Int)
  BY <1>1 DEF CombTypeOK
<1>4. Agrees(Reference)
  BY <1>2 DEF Agrees
<1>5. MapAt /\ AtFirst /\ FlatMapAt
  BY <1>2 DEF MapAt, AtFirst, FlatMapAt
<1>6. ScanAt
  BY <1>2, <1>3, <1>5, SumsMean DEF ScanAt
<1>7. kind = "filter" => FilterAt
  BY <1>1, <1>2, <1>5, ReferenceMeans DEF FilterAt
<1>8. TakeAt
  BY <1>2, <1>3, <1>5 DEF TakeAt, Waiting
<1>9. Accepted(first) \in Nat
  BY <1>3, AcceptedMeans
<1>10. SkipAt /\ TakeWhileAt /\ SkipWhileAt
  BY <1>2, <1>3, <1>5, <1>9 DEF SkipAt, TakeWhileAt, SkipWhileAt, Beyond
<1>11. ZipAt /\ MergeAt
  BY <1>2, <1>3 DEF ZipAt, MergeAt, SecondsTurn
<1>12. QED BY <1>1, <1>4, <1>5, <1>6, <1>7, <1>8, <1>10, <1>11 DEF CombInv

\* Every step keeps it: each kind by its own lemma.
LEMMA CombStep == CombInv /\ [Next]_vars => CombInv'
<1> SUFFICES ASSUME CombInv, [Next]_vars PROVE CombInv'
  OBVIOUS
<1>1. CombTypeOK
  BY DEF CombInv
<1>2. ASSUME UNCHANGED vars PROVE CombInv'
  <2>1. Reference' = Reference
    BY <1>2, ReferenceStays DEF vars
  <2>2. CombTypeOK' /\ (Bound <=> Bound') /\ (Agrees(Reference) <=> Agrees(Reference)')
    BY <1>1, <1>2, <2>1 DEF vars, config, CombTypeOK, Stream, Bound, Agrees
  <2>3. /\ (MapAt <=> MapAt') /\ (ScanAt <=> ScanAt') /\ (FilterAt <=> FilterAt')
        /\ (FlatMapAt <=> FlatMapAt') /\ (TakeAt <=> TakeAt') /\ (TakeWhileAt <=> TakeWhileAt')
    BY <1>2 DEF vars, config, MapAt, AtFirst, ScanAt, FilterAt, FlatMapAt, TakeAt, TakeWhileAt, Waiting
  <2>4. /\ (SkipAt <=> SkipAt') /\ (SkipWhileAt <=> SkipWhileAt') /\ (ZipAt <=> ZipAt')
        /\ (MergeAt <=> MergeAt') /\ kind' = kind
    BY <1>2 DEF vars, config, AtFirst, SkipAt, SkipWhileAt, ZipAt, MergeAt, SecondsTurn
  <2>5. QED BY <2>2, <2>3, <2>4 DEF CombInv
<1>3. ASSUME Next PROVE CombInv'
  <2>1. CombTypeOK'
    BY <1>1, <1>3, CombTypeStep
  <2>2. UNCHANGED config /\ (stops' = stops \/ stops' = stops + 1) /\ kind' = kind /\ kind \in Kinds
        /\ stops \in Nat
    BY <1>1, <1>3 DEF Next, CallNext, Value, Over, Stop, config, CombTypeOK
  <2>3. PICK R : R = Reference
    OBVIOUS
  <2>4. Agrees(Reference)' <=> Agrees(R)'
    BY <2>2, <2>3, ReferenceStays DEF Agrees
  <2>5. (Bound => Agrees(R)) /\ (Bound' => Bound)
    BY <2>2, <2>3 DEF CombInv, Bound
  <2>6. CASE kind = "map"
    <3>1. (\A k \in 1..Len(first) : R[k] = Twice(first[k])) /\ MapAt /\ Agrees(R)
      BY <1>1, <2>3, <2>5, <2>6, ReferenceMeans DEF CombInv, Bound
    <3>2. MapAt' /\ Agrees(R)'
      BY <1>1, <1>3, <2>6, <3>1, MapStep
    <3>3. QED BY <2>1, <2>2, <2>4, <2>6, <3>2 DEF CombInv
  <2>7. CASE kind = "scan"
    <3>1. /\ \A k \in 1..Len(first) : R[k] = Sums(first)[k] /\ Sums(first)[k] = Sums(first)[k - 1] + first[k]
          /\ ScanAt /\ Agrees(R)
      BY <1>1, <2>3, <2>5, <2>7, ReferenceMeans DEF CombInv, Bound
    <3>2. ScanAt' /\ Agrees(R)'
      BY <1>1, <1>3, <2>7, <3>1, ScanStep
    <3>3. QED BY <2>1, <2>2, <2>4, <2>7, <3>2 DEF CombInv
  <2>8. CASE kind = "filter"
    <3>1. /\ \A k \in 1..Len(first) :
               IF first[k] \in Keep
               THEN Found(first, k) = Found(first, k - 1) + 1 /\ R[Found(first, k)] = first[k]
               ELSE Found(first, k) = Found(first, k - 1)
          /\ FilterAt /\ Agrees(R)
      BY <1>1, <2>3, <2>5, <2>8, ReferenceMeans DEF CombInv, Bound
    <3>2. FilterAt' /\ Agrees(R)'
      BY <1>1, <1>3, <2>8, <3>1, FilterStep
    <3>3. QED BY <2>1, <2>2, <2>4, <2>8, <3>2 DEF CombInv
  <2>9. CASE kind = "flat_map"
    <3>1. /\ \A k \in 1..Len(first) : R[2 * k - 1] = first[k] /\ R[2 * k] = 2 * first[k]
          /\ FlatMapAt /\ Agrees(R)
      BY <1>1, <2>3, <2>5, <2>9, ReferenceMeans DEF CombInv, Bound
    <3>2. FlatMapAt' /\ Agrees(R)'
      BY <1>1, <1>3, <2>9, <3>1, FlatMapStep
    <3>3. QED BY <2>1, <2>2, <2>4, <2>9, <3>2 DEF CombInv
  <2>10. CASE kind = "take"
    <3>1. /\ \A k \in 1..Len(first) : k <= count => R[k] = first[k]
          /\ TakeAt /\ Agrees(R)
      BY <1>1, <2>3, <2>5, <2>10, ReferenceMeans DEF CombInv, Bound
    <3>2. TakeAt' /\ Agrees(R)'
      BY <1>1, <1>3, <2>10, <3>1, TakeStep
    <3>3. QED BY <2>1, <2>2, <2>4, <2>10, <3>2 DEF CombInv
  <2>11. CASE kind = "take_while"
    <3>1. /\ \A k \in 1..Accepted(first) : R[k] = first[k]
          /\ TakeWhileAt /\ Agrees(R)
      BY <1>1, <2>3, <2>5, <2>11, ReferenceMeans DEF CombInv, Bound
    <3>2. TakeWhileAt' /\ Agrees(R)'
      BY <1>1, <1>3, <2>11, <3>1, TakeWhileStep
    <3>3. QED BY <2>1, <2>2, <2>4, <2>11, <3>2 DEF CombInv
  <2>12. CASE kind = "skip"
    <3>1. /\ \A k \in 1..Len(first) : k > count => R[k - count] = first[k]
          /\ SkipAt /\ (stops = 0 => Agrees(R))
      BY <1>1, <2>3, <2>5, <2>12, ReferenceMeans DEF CombInv, Bound
    <3>2. SkipAt' /\ (stops' = 0 => Agrees(R)')
      BY <1>1, <1>3, <2>12, <3>1, SkipStep
    <3>3. QED BY <2>1, <2>2, <2>4, <2>12, <3>2 DEF CombInv, Bound
  <2>13. CASE kind = "skip_while"
    <3>1. /\ \A k \in 1..Len(first) : k > Accepted(first) => R[k - Accepted(first)] = first[k]
          /\ SkipWhileAt /\ (stops = 0 => Agrees(R))
      BY <1>1, <2>3, <2>5, <2>13, ReferenceMeans DEF CombInv, Bound
    <3>2. SkipWhileAt' /\ (stops' = 0 => Agrees(R)')
      BY <1>1, <1>3, <2>13, <3>1, SkipWhileStep
    <3>3. QED BY <2>1, <2>2, <2>4, <2>13, <3>2 DEF CombInv, Bound
  <2>14. CASE kind = "zip"
    <3>1. /\ \A k \in 1..Len(first) : k <= Len(second) => R[k] = <<first[k], second[k]>>
          /\ ZipAt /\ (stops = 0 => Agrees(R))
      BY <1>1, <2>3, <2>5, <2>14, ReferenceMeans DEF CombInv, Bound
    <3>2. ZipAt' /\ (stops' = 0 => Agrees(R)')
      BY <1>1, <1>3, <2>14, <3>1, ZipStep
    <3>3. QED BY <2>1, <2>2, <2>4, <2>14, <3>2 DEF CombInv, Bound
  <2>15. CASE kind = "merge"
    <3>1. /\ \A j \in 1..Len(second) : R[IF j <= Len(first) THEN 2 * j - 1 ELSE Len(first) + j] = second[j]
          /\ \A j \in 1..Len(first) : R[IF j <= Len(second) THEN 2 * j ELSE Len(second) + j] = first[j]
          /\ MergeAt /\ (stops = 0 => Agrees(R))
      BY <1>1, <2>3, <2>5, <2>15, ReferenceMeans DEF CombInv, Bound
    <3>2. MergeAt' /\ (stops' = 0 => Agrees(R)')
      BY <1>1, <1>3, <2>15, <3>1, MergeStep
    <3>3. QED BY <2>1, <2>2, <2>4, <2>15, <3>2 DEF CombInv, Bound
  <2>16. QED
    BY <2>2, <2>6, <2>7, <2>8, <2>9, <2>10, <2>11, <2>12, <2>13, <2>14, <2>15 DEF Kinds
<1>4. QED BY <1>2, <1>3

\* What was given, and all of it at the end, by kind.
LEMMA CombExact == CombInv => CombinatorsExact
<1> SUFFICES ASSUME CombInv PROVE CombinatorsExact
  OBVIOUS
<1>1. CombTypeOK
  BY DEF CombInv
<1>2. /\ out \in Seq(Vals) /\ Reference \in Seq(Vals) /\ Len(Reference) \in Nat /\ kind \in Kinds
      /\ count \in Nat /\ stops \in Nat /\ remaining \in Nat /\ first \in Seq(Int)
  BY <1>1, ReferenceMeans DEF CombTypeOK
<1>3. /\ Len(out) \in Nat /\ Len(first) \in Nat /\ Len(second) \in Nat
      /\ pos["first"] \in Nat /\ pos["second"] \in Nat
      /\ pos["first"] <= Len(first) /\ pos["second"] <= Len(second)
  BY <1>1, Numbers
<1>4. Accepted(first) \in Nat /\ Accepted(first) <= Len(first)
  BY <1>2, AcceptedMeans
\* It is enough to compare lengths.
<1>5. Bound => Len(out) <= Len(Reference)
  <2>1. CASE kind = "map"
    BY <1>1, <1>3, <2>1, ReferenceMeans DEF CombInv, MapAt
  <2>2. CASE kind = "scan"
    BY <1>1, <1>3, <2>2, ReferenceMeans DEF CombInv, ScanAt, MapAt
  <2>3. CASE kind = "filter"
    BY <1>1, <1>3, <2>3, ReferenceMeans DEF CombInv, FilterAt
  <2>4. CASE kind = "flat_map"
    <3>1. FlatMapAt /\ Len(Reference) = 2 * Len(first)
      BY <1>1, <2>4, ReferenceMeans DEF CombInv
    <3>2. flag => pos["current"] \in Nat /\ pos["current"] <= 2
      <4>1. flag => Len(current) = 2
        BY <3>1 DEF FlatMapAt, Two
      <4>2. QED BY <1>1, <4>1, Numbers
    <3>3. QED BY <1>3, <3>1, <3>2 DEF FlatMapAt
  <2>5. CASE kind = "take"
    BY <1>1, <1>2, <1>3, <2>5, ReferenceMeans DEF CombInv, TakeAt, Waiting, Least
  <2>6. CASE kind = "skip"
    BY <1>1, <1>2, <1>3, <2>6, ReferenceMeans DEF CombInv, SkipAt, Beyond, Bound
  <2>7. CASE kind = "take_while"
    BY <1>1, <1>2, <1>3, <1>4, <2>7, ReferenceMeans DEF CombInv, TakeWhileAt
  <2>8. CASE kind = "skip_while"
    BY <1>1, <1>2, <1>3, <1>4, <2>8, ReferenceMeans DEF CombInv, SkipWhileAt, Beyond, Bound
  <2>9. CASE kind = "zip"
    BY <1>1, <1>2, <1>3, <2>9, ReferenceMeans DEF CombInv, ZipAt, Least, Bound
  <2>10. CASE kind = "merge"
    BY <1>1, <1>2, <1>3, <2>10, ReferenceMeans DEF CombInv, MergeAt
  <2>11. QED
    BY <1>2, <2>1, <2>2, <2>3, <2>4, <2>5, <2>6, <2>7, <2>8, <2>9, <2>10 DEF Kinds
<1>6. ended /\ Bound /\ (kind = "take" => stops = 0) => Len(out) = Len(Reference)
  <2> SUFFICES ASSUME ended, Bound, kind = "take" => stops = 0 PROVE Len(out) = Len(Reference)
    OBVIOUS
  <2>1. CASE kind = "map"
    BY <1>1, <1>3, <2>1, ReferenceMeans DEF CombInv, MapAt
  <2>2. CASE kind = "scan"
    BY <1>1, <1>3, <2>2, ReferenceMeans DEF CombInv, ScanAt, MapAt
  <2>3. CASE kind = "filter"
    BY <1>1, <1>3, <2>3, ReferenceMeans DEF CombInv, FilterAt
  <2>4. CASE kind = "flat_map"
    BY <1>1, <1>3, <2>4, ReferenceMeans DEF CombInv, FlatMapAt
  <2>5. CASE kind = "take"
    BY <1>1, <1>2, <1>3, <2>5, ReferenceMeans DEF CombInv, TakeAt, Waiting, Least
  <2>6. CASE kind = "skip"
    BY <1>1, <1>2, <1>3, <2>6, ReferenceMeans DEF CombInv, SkipAt, Beyond, Bound
  <2>7. CASE kind = "take_while"
    BY <1>1, <1>2, <1>3, <1>4, <2>7, ReferenceMeans DEF CombInv, TakeWhileAt
  <2>8. CASE kind = "skip_while"
    BY <1>1, <1>2, <1>3, <1>4, <2>8, ReferenceMeans DEF CombInv, SkipWhileAt, Beyond, Bound
  <2>9. CASE kind = "zip"
    BY <1>1, <1>2, <1>3, <2>9, ReferenceMeans DEF CombInv, ZipAt, Least, Bound
  <2>10. CASE kind = "merge"
    BY <1>1, <1>2, <1>3, <2>10, ReferenceMeans DEF CombInv, MergeAt
  <2>11. QED
    BY <1>2, <2>1, <2>2, <2>3, <2>4, <2>5, <2>6, <2>7, <2>8, <2>9, <2>10 DEF Kinds
<1>7. Bound => IsPrefix(out, Reference) /\ (Len(out) = Len(Reference) => out = Reference)
  <2> SUFFICES ASSUME Bound
               PROVE  IsPrefix(out, Reference) /\ (Len(out) = Len(Reference) => out = Reference)
    OBVIOUS
  <2>1. \A k \in 1..Len(out) : out[k] = Reference[k]
    BY DEF CombInv, Agrees
  <2>2. PICK o, r : o = out /\ r = Reference
    OBVIOUS
  <2>3. o \in Seq(Vals) /\ r \in Seq(Vals) /\ Len(o) <= Len(r) /\ \A k \in 1..Len(o) : o[k] = r[k]
    BY <1>2, <1>5, <2>1, <2>2
  <2>4. IsPrefix(o, r) /\ (Len(o) = Len(r) => o = r)
    BY <2>3, PrefixMeans
  <2>5. QED BY <2>2, <2>4
<1>8. PullsMatchReference
  BY <1>6, <1>7 DEF PullsMatchReference, Bound
<1>9. (ended /\ kind = "merge") => Len(out) = Len(first) + Len(second)
  BY DEF CombInv, MergeAt
<1>10. StopIsHarmless
  BY <1>6, <1>7, <1>9 DEF StopIsHarmless, Bound
<1>11. QED BY <1>8, <1>10 DEF CombinatorsExact

\* The invariant holds in every reachable state.
THEOREM CombInvariant == Spec => []CombInv
BY CombStart, CombStep, PTL DEF Spec

\* Each combinator gives what its name says.
THEOREM CombinatorsAreExact == Spec => []CombinatorsExact
BY CombInvariant, CombExact, PTL

-----------------------------------------------------------------------------
(***************************************************************************)
(* Headers. The entries that sorted_entries gives are those of every name  *)
(* in turn, joined: all that has(), get() and iteration say follows from   *)
(* that. A live iteration has given a name that was there all along, or is *)
(* not yet past its last entry; a change to one name moves the entries of  *)
(* the names after it by as much as it adds, so that it puts none of them  *)
(* behind the iteration unless it removes one.                             *)
(***************************************************************************)
\* The entries chosen among the first j, for every j.
Upto(l, S) ==
  LET upto[j \in 0..Len(l)] ==
        IF j = 0 THEN <<>> ELSE IF j \in S THEN Append(upto[j - 1], l[j]) ELSE upto[j - 1]
  IN upto

\* It is built from the left, and Chosen is the last of it.
LEMMA UptoMeans ==
  ASSUME NEW T, NEW l \in Seq(T), NEW S
  PROVE  /\ Chosen(l, S) = Upto(l, S)[Len(l)]
         /\ \A k \in 0..Len(l) : Upto(l, S)[k] \in Seq(T)
         /\ Upto(l, S)[0] = <<>>
         /\ \A k \in 1..Len(l) :
              Upto(l, S)[k] = IF k \in S THEN Append(Upto(l, S)[k - 1], l[k]) ELSE Upto(l, S)[k - 1]
<1> DEFINE h == Len(l)
           V == Seq(T)
           F == [k \in 1..h |-> [v \in V |-> IF k \in S THEN Append(v, l[k]) ELSE v]]
           P(r) == r = [j \in 0..h |-> IF j = 0 THEN <<>> ELSE IF j \in S THEN Append(r[j - 1], l[j]) ELSE r[j - 1]]
<1>1. h \in Nat /\ (\A k \in 1..h : l[k] \in T) /\ <<>> \in V
  OBVIOUS
<1>2. \A k \in 1..h : \A v \in V : (IF k \in S THEN Append(v, l[k]) ELSE v) \in V
  <2> HIDE DEF h
  <2> QED BY <1>1
<1>3. PICK r \in [0..h -> V] : r[0] = <<>> /\ \A k \in 1..h : r[k] = F[k][r[k - 1]]
  <2>1. F \in [1..h -> [V -> V]]
    BY <1>2
  <2> DEFINE v0 == <<>>
  <2>2. h \in Nat /\ v0 \in V
    BY <1>1
  <2> HIDE DEF F, V, h, v0
  <2>3. Solvable(h, V, v0, F)
    BY <2>1, <2>2, LineRecursion
  <2>4. QED BY <2>3 DEF v0, Solvable
<1>4. \A k \in 1..h : r[k] = IF k \in S THEN Append(r[k - 1], l[k]) ELSE r[k - 1]
  <2> SUFFICES ASSUME NEW k \in 1..h PROVE r[k] = IF k \in S THEN Append(r[k - 1], l[k]) ELSE r[k - 1]
    OBVIOUS
  <2>1. k - 1 \in 0..h
    BY <1>1
  <2>2. r[k - 1] \in V
    BY <2>1
  <2>3. F[k][r[k - 1]] = IF k \in S THEN Append(r[k - 1], l[k]) ELSE r[k - 1]
    <3> HIDE DEF V, h
    <3> QED BY <2>2
  <2>4. QED BY <1>3, <2>3
<1>5. P(r)
  <2>1. r = [j \in 0..h |-> r[j]]
    OBVIOUS
  <2>2. ASSUME NEW j \in 0..h
        PROVE  r[j] = IF j = 0 THEN <<>> ELSE IF j \in S THEN Append(r[j - 1], l[j]) ELSE r[j - 1]
    <3>1. j # 0 => j \in 1..h
      BY <1>1
    <3>2. QED BY <1>3, <1>4, <3>1
  <2> HIDE DEF h, V
  <2>3. QED BY <2>1, <2>2
<1> DEFINE q == Upto(l, S)
<1>6. P(q)
  <2>1. q = CHOOSE x : P(x)
    BY Zenon DEF Upto
  <2>2. P(CHOOSE x : P(x))
    <3> HIDE DEF P
    <3> QED BY <1>5, Zenon
  <2>3. QED BY ONLY <2>1, <2>2, Zenon
<1>7. \A j \in 0..h : q[j] = IF j = 0 THEN <<>> ELSE IF j \in S THEN Append(q[j - 1], l[j]) ELSE q[j - 1]
  <2>1. q = [j \in 0..h |-> IF j = 0 THEN <<>> ELSE IF j \in S THEN Append(q[j - 1], l[j]) ELSE q[j - 1]]
    BY <1>6, Zenon
  <2> HIDE DEF q, h
  <2>2. QED BY <2>1
<1>8. Chosen(l, S) = q[h]
  BY Zenon DEF Chosen, Upto
<1> HIDE DEF q
<1>9. q[0] = <<>> /\ \A k \in 1..h : q[k] = IF k \in S THEN Append(q[k - 1], l[k]) ELSE q[k - 1]
  <2>1. 0 \in 0..h /\ \A k \in 1..h : k \in 0..h /\ k # 0
    BY <1>1
  <2> HIDE DEF h
  <2>2. QED BY <1>7, <2>1
<1>10. \A k \in 0..h : q[k] \in V
  <2> DEFINE W == {k \in 0..h : q[k] \in V}
  <2> HIDE DEF V, h
  <2>1. 0 \in W
    <3>1. 0 \in 0..h
      BY <1>1
    <3>2. QED BY <1>1, <1>9, <3>1
  <2>2. ASSUME NEW k \in 1..h, k - 1 \in W PROVE k \in W
    <3>1. q[k - 1] \in V
      BY <2>2
    <3>2. q[k] \in V
      BY <1>2, <1>9, <3>1
    <3>3. k \in 0..h
      BY <1>1
    <3>4. QED BY <3>2, <3>3
  <2>3. \A k \in 0..h : k \in W
    <3> HIDE DEF W
    <3> QED BY <1>1, <2>1, <2>2, UpTo
  <2>4. QED BY <2>3
<1>11. QED BY <1>8, <1>9, <1>10 DEF q

\* What Named has of a longer list.
LEMMA NamedOfAppend ==
  ASSUME NEW T, NEW l \in Seq(T), NEW e \in T, NEW n
  PROVE  Named(Append(l, e), n) = IF e.name = n THEN Append(Named(l, n), e) ELSE Named(l, n)
<1> DEFINE h == Len(l)
           x == Append(l, e)
           S == {j \in DOMAIN l : l[j].name = n}
           R == {j \in DOMAIN x : x[j].name = n}
           u == Upto(l, S)
           w == Upto(x, R)
<1>1. /\ h \in Nat /\ x \in Seq(T) /\ Len(x) = h + 1 /\ x[h + 1] = e
      /\ \A k \in 1..h : x[k] = l[k]
      /\ DOMAIN l = 1..h /\ DOMAIN x = 1..(h + 1)
  OBVIOUS
<1>2. \A k \in 1..h : k \in S <=> k \in R
  BY <1>1
<1>3. h + 1 \in R <=> e.name = n
  BY <1>1
<1>4. Named(l, n) = u[h] /\ Named(x, n) = w[h + 1]
  <2>1. Chosen(l, S) = u[h]
    BY UptoMeans
  <2>2. Chosen(x, R) = w[Len(x)]
    <3>1. x \in Seq(T)
      BY <1>1
    <3> HIDE DEF R, x
    <3>2. QED BY <3>1, UptoMeans
  <2>3. QED BY <1>1, <2>1, <2>2 DEF Named
<1>5. u[0] = <<>> /\ \A k \in 1..h : u[k] = IF k \in S THEN Append(u[k - 1], l[k]) ELSE u[k - 1]
  <2> HIDE DEF S
  <2> QED BY UptoMeans
<1>6. w[0] = <<>> /\ \A k \in 1..(h + 1) : w[k] = IF k \in R THEN Append(w[k - 1], x[k]) ELSE w[k - 1]
  <2>1. x \in Seq(T) /\ Len(x) = h + 1
    BY <1>1
  <2> HIDE DEF R, x
  <2>2. w[0] = <<>> /\ \A k \in 1..Len(x) : w[k] = IF k \in R THEN Append(w[k - 1], x[k]) ELSE w[k - 1]
    BY <2>1, UptoMeans
  <2>3. QED BY <2>1, <2>2
<1> HIDE DEF S, R, u, w, x
<1> DEFINE W == {k \in 0..h : u[k] = w[k]}
<1>7. \A k \in 0..h : k \in W
  <2>1. 0 \in W
    BY <1>1, <1>5, <1>6
  <2>2. ASSUME NEW k \in 1..h, k - 1 \in W PROVE k \in W
    <3>1. u[k - 1] = w[k - 1] /\ k \in 1..(h + 1) /\ k \in 0..h
      BY <1>1, <2>2
    <3>2. u[k] = w[k]
      BY <1>1, <1>2, <1>5, <1>6, <3>1
    <3>3. QED BY <3>1, <3>2
  <2>3. QED
    <3> HIDE DEF W, h
    <3> QED BY <1>1, <2>1, <2>2, UpTo
<1>8. u[h] = w[h]
  <2>1. h \in 0..h
    BY <1>1
  <2>2. QED BY <1>7, <2>1
<1>9. w[h + 1] = IF h + 1 \in R THEN Append(w[h], x[h + 1]) ELSE w[h]
  <2>1. h + 1 \in 1..(h + 1) /\ h + 1 - 1 = h
    BY <1>1
  <2>2. QED BY <1>6, <2>1
<1>10. Named(x, n) = IF e.name = n THEN Append(Named(l, n), e) ELSE Named(l, n)
  BY <1>1, <1>3, <1>4, <1>8, <1>9
<1>11. QED BY <1>10 DEF x

\* No entries, none of any name.
LEMMA NamedOfNone ==
  ASSUME NEW T, NEW l \in Seq(T), NEW n
  PROVE  Len(l) = 0 => Named(l, n) = <<>>
<1> DEFINE S == {j \in DOMAIN l : l[j].name = n}
<1> HIDE DEF S
<1>1. Chosen(l, S) = Upto(l, S)[Len(l)] /\ Upto(l, S)[0] = <<>>
  BY UptoMeans
<1>2. QED BY <1>1 DEF Named, S

\* Named gives entries of the list that have the name, and none only when there is none.
LEMMA NamedMeans ==
  ASSUME NEW T, NEW l \in Seq(T), NEW n
  PROVE  /\ Named(l, n) \in Seq(T)
         /\ \A j \in 1..Len(Named(l, n)) : Named(l, n)[j].name = n
         /\ Named(l, n) # <<>> <=> n \in NamesOf(l)
<1> DEFINE h == Len(l)
           S == {j \in DOMAIN l : l[j].name = n}
           u == Upto(l, S)
<1>1. h \in Nat /\ DOMAIN l = 1..h /\ \A k \in 1..h : l[k] \in T /\ (k \in S <=> l[k].name = n)
  OBVIOUS
<1>2. Named(l, n) = u[h]
  <2>1. Chosen(l, S) = u[h]
    <3> HIDE DEF S
    <3> QED BY UptoMeans
  <2>2. QED BY <2>1 DEF Named
<1>3. /\ \A k \in 0..h : u[k] \in Seq(T)
      /\ u[0] = <<>>
      /\ \A k \in 1..h : u[k] = IF k \in S THEN Append(u[k - 1], l[k]) ELSE u[k - 1]
  <2> HIDE DEF S
  <2> QED BY UptoMeans
<1> HIDE DEF S, u
<1> DEFINE Ok(k) == /\ \A j \in 1..Len(u[k]) : u[k][j].name = n
                    /\ u[k] # <<>> <=> \E j \in 1..k : l[j].name = n
           W == {k \in 0..h : Ok(k)}
<1>4. 0 \in W
  BY <1>1, <1>3
<1>5. ASSUME NEW k \in 1..h, k - 1 \in W PROVE k \in W
  <2>1. k - 1 \in 0..h /\ k \in 0..h /\ Ok(k - 1)
    BY <1>1, <1>5
  <2> DEFINE x == u[k - 1]
  <2>2. x \in Seq(T) /\ u[k] = IF k \in S THEN Append(x, l[k]) ELSE x
    BY <1>3, <2>1
  <2>3. (\A j \in 1..Len(x) : x[j].name = n) /\ (x # <<>> <=> \E j \in 1..(k - 1) : l[j].name = n)
    BY <2>1
  <2>4. \A j \in 1..k : j \in 1..(k - 1) \/ j = k
    BY <1>1
  <2>5. \A j \in 1..(k - 1) : j \in 1..k
    BY <1>1
  <2> HIDE DEF x
  <2>6. CASE k \in S
    <3>1. l[k].name = n /\ k \in 1..k
      BY <1>1, <2>6
    <3>2. /\ Len(u[k]) = Len(x) + 1 /\ Len(x) \in Nat /\ u[k][Len(x) + 1] = l[k]
          /\ \A j \in 1..Len(x) : u[k][j] = x[j]
      BY <1>1, <2>2, <2>6
    <3>3. \A j \in 1..Len(u[k]) : j \in 1..Len(x) \/ j = Len(x) + 1
      BY <3>2
    <3>4. u[k] # <<>>
      BY <3>2
    <3>5. \A j \in 1..Len(u[k]) : u[k][j].name = n
      BY <2>3, <3>1, <3>2, <3>3
    <3>6. QED BY <2>1, <3>1, <3>4, <3>5
  <2>7. CASE k \notin S
    <3>1. l[k].name # n /\ u[k] = x
      BY <1>1, <2>2, <2>7
    <3>2. (\E j \in 1..k : l[j].name = n) <=> (\E j \in 1..(k - 1) : l[j].name = n)
      BY <2>4, <2>5, <3>1
    <3>3. QED BY <2>1, <2>3, <3>1, <3>2
  <2>8. QED BY <2>6, <2>7
<1>6. \A k \in 0..h : k \in W
  <2> HIDE DEF W, h
  <2> QED BY <1>1, <1>4, <1>5, UpTo
<1>7. h \in 0..h
  BY <1>1
<1>8. Ok(h) /\ u[h] \in Seq(T)
  BY <1>3, <1>6, <1>7
<1>9. n \in NamesOf(l) <=> \E j \in 1..h : l[j].name = n
  BY <1>1 DEF NamesOf
<1>10. QED BY <1>2, <1>8, <1>9

\* What is not of that name stays.
LEMMA NamedOfWithout ==
  ASSUME NEW T, NEW l \in Seq(T), NEW n, NEW m, m # n
  PROVE  Without(l, n) \in Seq(T) /\ Named(Without(l, n), m) = Named(l, m)
<1> DEFINE h == Len(l)
           S == {j \in DOMAIN l : l[j].name = m}
           R == {j \in DOMAIN l : l[j].name # n}
           u == Upto(l, S)
           w == Upto(l, R)
<1>1. /\ h \in Nat /\ h \in 0..h
      /\ \A k \in 1..h : l[k] \in T /\ (k \in S <=> l[k].name = m) /\ (k \in R <=> l[k].name # n)
  OBVIOUS
<1>2. Named(l, m) = u[h] /\ Without(l, n) = w[h]
  <2>1. Chosen(l, S) = u[h] /\ Chosen(l, R) = w[h]
    <3> HIDE DEF S, R
    <3> QED BY UptoMeans
  <2>2. QED BY <2>1 DEF Named, Without
<1>3. u[0] = <<>> /\ \A k \in 1..h : u[k] = IF k \in S THEN Append(u[k - 1], l[k]) ELSE u[k - 1]
  <2> HIDE DEF S
  <2> QED BY UptoMeans
<1>4. /\ w[0] = <<>> /\ \A k \in 1..h : w[k] = IF k \in R THEN Append(w[k - 1], l[k]) ELSE w[k - 1]
      /\ \A k \in 0..h : w[k] \in Seq(T)
  <2> HIDE DEF R
  <2> QED BY UptoMeans
<1> HIDE DEF S, R, u, w
<1> DEFINE W == {k \in 0..h : Named(w[k], m) = u[k]}
<1>5. 0 \in W
  <2> DEFINE x == w[0]
  <2>1. x \in Seq(T) /\ Len(x) = 0 /\ u[0] = <<>> /\ 0 \in 0..h
    BY <1>1, <1>3, <1>4
  <2> HIDE DEF x
  <2>2. Named(x, m) = <<>>
    BY <2>1, NamedOfNone
  <2>3. QED BY <2>1, <2>2 DEF x
<1>6. ASSUME NEW k \in 1..h, k - 1 \in W PROVE k \in W
  <2>1. k - 1 \in 0..h /\ k \in 0..h /\ Named(w[k - 1], m) = u[k - 1] /\ l[k] \in T
    BY <1>1, <1>6
  <2> DEFINE x == w[k - 1]
             e == l[k]
  <2>2. x \in Seq(T) /\ e \in T
    BY <1>4, <2>1
  <2>3. w[k] = IF e.name # n THEN Append(x, e) ELSE x
    BY <1>1, <1>4
  <2>4. u[k] = IF e.name = m THEN Append(u[k - 1], e) ELSE u[k - 1]
    BY <1>1, <1>3
  <2>5. Named(x, m) = u[k - 1]
    BY <2>1
  <2> HIDE DEF x, e
  <2>6. Named(Append(x, e), m) = IF e.name = m THEN Append(Named(x, m), e) ELSE Named(x, m)
    BY <2>2, NamedOfAppend
  <2>7. Named(w[k], m) = u[k]
    BY <2>3, <2>4, <2>5, <2>6
  <2>8. QED BY <2>1, <2>7
<1>7. \A k \in 0..h : k \in W
  <2> HIDE DEF W, h
  <2> QED BY <1>1, <1>5, <1>6, UpTo
<1>8. Named(w[h], m) = u[h] /\ w[h] \in Seq(T)
  BY <1>1, <1>4, <1>7
<1>9. QED BY <1>2, <1>8

\* Where the elements of the flattening come from.
LEMMA FlatPlaces ==
  ASSUME NEW S, NEW ss \in Seq(Seq(S))
  PROVE  /\ \A k \in 1..Len(ss) :
              /\ Len(Flat(ss)[k]) = Len(Flat(ss)[k - 1]) + Len(ss[k])
              /\ \A m \in 1..Len(ss[k]) : Flat(ss)[Len(ss)][Len(Flat(ss)[k - 1]) + m] = ss[k][m]
         /\ \A j \in 1..Len(Flat(ss)[Len(ss)]) :
              \E k \in 1..Len(ss) : Len(Flat(ss)[k - 1]) < j /\ j <= Len(Flat(ss)[k])
<1> DEFINE h == Len(ss)
           f == Flat(ss)
<1>1. h \in Nat /\ \A k \in 1..h : ss[k] \in Seq(S)
  OBVIOUS
<1>2. /\ \A k \in 0..h : f[k] \in Seq(S)
      /\ f[0] = <<>>
      /\ \A k \in 1..h : f[k] = f[k - 1] \o ss[k]
  BY FlatMeans
<1>3. \A k \in 0..h : \A j \in 1..Len(f[k]) : f[h][j] = f[k][j]
  BY FlatGrows
<1> HIDE DEF f, h
<1>4. ASSUME NEW k \in 1..h
      PROVE  /\ Len(f[k]) = Len(f[k - 1]) + Len(ss[k])
             /\ \A m \in 1..Len(ss[k]) : f[h][Len(f[k - 1]) + m] = ss[k][m]
  <2>1. k - 1 \in 0..h /\ k \in 0..h
    BY <1>1
  <2>2. PICK x, y : x = f[k - 1] /\ y = ss[k]
    OBVIOUS
  <2>3. x \in Seq(S) /\ y \in Seq(S) /\ f[k] = x \o y
    BY <1>1, <1>2, <2>1, <2>2
  <2>4. /\ Len(x \o y) = Len(x) + Len(y) /\ Len(x) \in Nat /\ Len(y) \in Nat
        /\ \A j \in 1..Len(x) + Len(y) : (x \o y)[j] = IF j <= Len(x) THEN x[j] ELSE y[j - Len(x)]
    BY <2>3, ConcatProperties
  <2>5. ASSUME NEW m \in 1..Len(y) PROVE f[h][Len(x) + m] = y[m]
    <3>1. Len(x) + m \in 1..(Len(x) + Len(y)) /\ ~(Len(x) + m <= Len(x)) /\ Len(x) + m - Len(x) = m
      BY <2>4
    <3>2. (x \o y)[Len(x) + m] = y[m]
      BY <2>4, <3>1
    <3>3. f[h][Len(x) + m] = f[k][Len(x) + m]
      BY <1>3, <2>1, <2>3, <2>4, <3>1
    <3>4. QED BY <2>3, <3>2, <3>3
  <2>6. QED BY <2>2, <2>3, <2>4, <2>5
<1>5. ASSUME NEW j \in 1..Len(f[h]) PROVE \E k \in 1..h : Len(f[k - 1]) < j /\ j <= Len(f[k])
  <2> DEFINE T == {k \in 0..h : j <= Len(f[k])}
  <2>1. h \in T
    <3>1. h \in 0..h /\ Len(f[h]) \in Nat
      BY <1>1, <1>2
    <3>2. QED BY <3>1
  <2>2. PICK k \in T : \A m \in T : k <= m
    <3>1. T \in SUBSET Nat /\ T # {}
      BY <1>1, <2>1
    <3> HIDE DEF T
    <3>2. QED BY <3>1, LeastOf
  <2>3. k \in 0..h /\ j <= Len(f[k])
    BY <2>2
  <2>4. k # 0
    <3>1. Len(f[0]) = 0
      BY <1>2
    <3>2. QED BY <2>3, <3>1
  <2>5. k \in 1..h /\ k - 1 \in 0..h /\ ~(k <= k - 1)
    BY <1>1, <2>3, <2>4
  <2>6. k - 1 \notin T
    BY <2>2, <2>5
  <2>7. Len(f[k - 1]) \in Nat /\ ~(j <= Len(f[k - 1]))
    BY <1>2, <2>5, <2>6
  <2>8. QED BY <2>3, <2>5, <2>7
<1>6. QED BY <1>4, <1>5 DEF f, h

\* When only one part has another length, all lengths up to it and beyond it are known.
LEMMA OnePart ==
  ASSUME NEW S, NEW ss \in Seq(Seq(S)), NEW tt \in Seq(Seq(S)), Len(ss) = Len(tt), NEW p \in 1..Len(ss),
         \A k \in 1..Len(ss) : k # p => Len(ss[k]) = Len(tt[k])
  PROVE  \A k \in 0..Len(ss) :
           Len(Flat(tt)[k]) = Len(Flat(ss)[k]) + (IF k >= p THEN Len(tt[p]) - Len(ss[p]) ELSE 0)
<1>1. PICK h : h = Len(ss)
  OBVIOUS
<1>2. PICK f : f = Flat(ss)
  OBVIOUS
<1>3. PICK g : g = Flat(tt)
  OBVIOUS
<1>4. /\ h \in Nat /\ p \in 1..h
      /\ \A k \in 1..h : ss[k] \in Seq(S) /\ tt[k] \in Seq(S)
      /\ \A k \in 1..h : Len(ss[k]) \in Nat /\ Len(tt[k]) \in Nat
  BY <1>1
<1>5. \A k \in 0..h : f[k] \in Seq(S)
  BY <1>1, <1>2, FlatMeans
<1>6. \A k \in 0..h : g[k] \in Seq(S)
  BY <1>1, <1>3, FlatMeans
<1>7. f[0] = <<>> /\ g[0] = <<>>
  <2>1. f[0] = <<>>
    BY <1>2, FlatMeans
  <2>2. g[0] = <<>>
    BY <1>3, FlatMeans
  <2>3. QED BY <2>1, <2>2
<1>8. \A k \in 1..h : Len(f[k]) = Len(f[k - 1]) + Len(ss[k])
  BY <1>1, <1>2, FlatPlaces
<1>9. \A k \in 1..h : Len(g[k]) = Len(g[k - 1]) + Len(tt[k])
  BY <1>1, <1>3, FlatPlaces
<1>10. \A k \in 0..h : Len(f[k]) \in Nat /\ Len(g[k]) \in Nat
  BY <1>5, <1>6
<1>11. \A k \in 1..h : k # p => Len(ss[k]) = Len(tt[k])
  BY <1>1
<1> DEFINE D(k) == Len(g[k]) = Len(f[k]) + (IF k >= p THEN Len(tt[p]) - Len(ss[p]) ELSE 0)
           W == {k \in 0..h : D(k)}
<1>12. 0 \in W
  <2>1. ~(0 >= p) /\ Len(f[0]) = 0 /\ Len(g[0]) = 0 /\ 0 \in 0..h
    BY <1>4, <1>7
  <2>2. D(0)
    BY <2>1
  <2>3. QED BY <2>1, <2>2
<1>13. ASSUME NEW k \in 1..h, k - 1 \in W PROVE k \in W
  <2>1. k \in 0..h /\ k - 1 \in 0..h /\ D(k - 1)
    <3>1. k \in 0..h /\ k - 1 \in 0..h
      BY <1>4
    <3> HIDE DEF D
    <3>2. QED BY <1>13, <3>1
  <2>2. PICK x, y, u, v, d : /\ x = Len(f[k - 1]) /\ y = Len(g[k - 1]) /\ u = Len(ss[k]) /\ v = Len(tt[k])
                             /\ d = Len(tt[p]) - Len(ss[p])
    OBVIOUS
  <2>3. x \in Nat /\ y \in Nat /\ u \in Nat /\ v \in Nat /\ d \in Int /\ k \in Nat /\ p \in Nat
    <3>1. x \in Nat /\ y \in Nat
      BY <1>10, <2>1, <2>2
    <3>2. u \in Nat /\ v \in Nat
      BY <1>4, <2>2
    <3>3. Len(tt[p]) \in Nat /\ Len(ss[p]) \in Nat
      BY <1>4
    <3>4. k \in Nat /\ p \in Nat
      BY <1>4
    <3>5. QED BY <2>2, <3>1, <3>2, <3>3, <3>4
  <2>4. y = x + (IF k - 1 >= p THEN d ELSE 0) /\ Len(f[k]) = x + u /\ Len(g[k]) = y + v
    BY <1>8, <1>9, <2>1, <2>2
  <2>5. (k # p => u = v) /\ (k = p => d = v - u)
    BY <1>11, <2>2
  <2>6. y + v = x + u + (IF k >= p THEN d ELSE 0)
    BY <2>3, <2>4, <2>5
  <2>7. D(k)
    BY <2>2, <2>4, <2>6
  <2>8. QED BY <2>1, <2>7
<1>14. \A k \in 0..h : k \in W
  <2> HIDE DEF W
  <2> QED BY <1>4, <1>12, <1>13, UpTo
<1>15. \A k \in 0..h : D(k)
  BY <1>14
<1>16. QED BY <1>1, <1>2, <1>3, <1>15

\* A name and a value, or the values that were joined.
Entry == [name : ToSet(Keys), value : {Plain, Trace}]
Given == [name : ToSet(Keys), value : Seq({Plain, Trace})]

\* What Join does to the last entry, or adds.
LEMMA JoinMeans ==
  ASSUME NEW m \in Seq(Given), NEW e \in Entry
  PROVE  /\ Join(m, e) \in Seq(Given)
         /\ (e.name = Cookie \/ m = <<>> \/ m[Len(m)].name # e.name) =>
              Join(m, e) = Append(m, Header(e.name, <<e.value>>))
         /\ (e.name # Cookie /\ m # <<>> /\ m[Len(m)].name = e.name) =>
              /\ Len(Join(m, e)) = Len(m) /\ \A j \in 1..(Len(m) - 1) : Join(m, e)[j] = m[j]
              /\ Join(m, e)[Len(m)] = Header(e.name, Append(m[Len(m)].value, e.value))
<1>1. e.name \in ToSet(Keys) /\ e.value \in {Plain, Trace}
  BY DEF Entry
<1>2. CASE e.name = Cookie \/ m = <<>> \/ m[Len(m)].name # e.name
  <2>1. Join(m, e) = Append(m, Header(e.name, <<e.value>>))
    BY <1>2 DEF Join, Last
  <2>2. Header(e.name, <<e.value>>) \in Given
    BY <1>1 DEF Header, Given
  <2>3. QED BY <1>2, <2>1, <2>2
<1>3. CASE ~(e.name = Cookie \/ m = <<>> \/ m[Len(m)].name # e.name)
  <2>1. PICK h : h = Len(m)
    OBVIOUS
  <2>2. h \in Nat /\ h \in 1..h /\ DOMAIN m = 1..h /\ (\A j \in 1..h : m[j] \in Given)
    <3>1. m # <<>> /\ Len(m) \in Nat /\ DOMAIN m = 1..Len(m) /\ (\A j \in 1..Len(m) : m[j] \in Given)
      BY <1>3
    <3>2. Len(m) # 0
      BY <3>1
    <3>3. QED BY <2>1, <3>1, <3>2
  <2>3. PICK d : d = m[h]
    OBVIOUS
  <2>4. /\ d = [name |-> d.name, value |-> d.value]
        /\ d.name = e.name /\ d.value \in Seq({Plain, Trace})
    BY <1>3, <2>1, <2>2, <2>3 DEF Given
  <2>5. PICK c : c = Header(e.name, Append(d.value, e.value))
    OBVIOUS
  <2>6. c \in Given
    <3>1. Append(d.value, e.value) \in Seq({Plain, Trace})
      BY <1>1, <2>4
    <3>2. QED BY <1>1, <2>5, <3>1 DEF Header, Given
  <2>7. Join(m, e) = [m EXCEPT ![h] = c]
    <3>1. Join(m, e) = [m EXCEPT ![h].value = Append(@, e.value)]
      BY <1>3, <2>1 DEF Join, Last
    <3>2. [d EXCEPT !.value = Append(@, e.value)] = c
      <4>1. \A x, y, z : [[name |-> x, value |-> y] EXCEPT !.value = z] = [name |-> x, value |-> z]
        OBVIOUS
      <4>2. PICK x, y : x = d.name /\ y = d.value
        OBVIOUS
      <4>3. d = [name |-> x, value |-> y] /\ x = e.name
        BY <2>4, <4>2
      <4>4. PICK z : z = Append(y, e.value)
        OBVIOUS
      <4>5. [d EXCEPT !.value = Append(@, e.value)] = [[name |-> x, value |-> y] EXCEPT !.value = z]
        BY <4>2, <4>3, <4>4
      <4>6. c = [name |-> x, value |-> z]
        BY <2>5, <4>2, <4>3, <4>4 DEF Header
      <4>7. QED BY <4>1, <4>5, <4>6
    <3>3. QED BY <2>2, <2>3, <3>1, <3>2
  <2>8. /\ [m EXCEPT ![h] = c] \in Seq(Given) /\ Len([m EXCEPT ![h] = c]) = Len(m)
        /\ \A j \in 1..Len(m) : [m EXCEPT ![h] = c][j] = IF j = h THEN c ELSE m[j]
    BY <2>1, <2>2, <2>6, ExceptSeq
  <2>9. /\ Join(m, e) \in Seq(Given) /\ Len(Join(m, e)) = h
        /\ \A j \in 1..h : Join(m, e)[j] = IF j = h THEN c ELSE m[j]
    BY <2>1, <2>7, <2>8
  <2>10. \A j \in 1..(h - 1) : j \in 1..h /\ j # h
    BY <2>2
  <2>11. QED BY <1>3, <2>1, <2>2, <2>3, <2>5, <2>9, <2>10
<1>4. QED BY <1>2, <1>3

\* The entry or, of set-cookie, the entries that the first j of g are joined to.
Joined(g, n, j) ==
  IF n = Cookie THEN [k \in 1..j |-> Header(n, <<g[k].value>>)]
  ELSE IF j = 0 THEN <<>> ELSE <<Header(n, [k \in 1..j |-> g[k].value])>>

\* Their types and names.
LEMMA JoinedType ==
  ASSUME NEW g \in Seq(Entry), NEW n \in ToSet(Keys), NEW j \in 0..Len(g)
  PROVE  /\ Joined(g, n, j) \in Seq(Given)
         /\ Len(Joined(g, n, j)) = IF n = Cookie THEN j ELSE IF j = 0 THEN 0 ELSE 1
         /\ \A k \in 1..Len(Joined(g, n, j)) : Joined(g, n, j)[k].name = n
<1>1. j \in Nat /\ \A k \in 1..j : g[k] \in Entry /\ g[k].value \in {Plain, Trace}
  <2>1. j \in Nat /\ \A k \in 1..j : k \in 1..Len(g)
    OBVIOUS
  <2>2. \A k \in 1..j : g[k] \in Entry
    BY <2>1
  <2>3. \A d \in Entry : d.value \in {Plain, Trace}
    BY DEF Entry
  <2>4. QED BY <2>1, <2>2, <2>3
<1>2. CASE n = Cookie
  <2>1. \A k \in 1..j : Header(n, <<g[k].value>>) \in Given /\ Header(n, <<g[k].value>>).name = n
    BY <1>1 DEF Header, Given
  <2>2. PICK y : y = Joined(g, n, j)
    OBVIOUS
  <2>3. y = [k \in 1..j |-> Header(n, <<g[k].value>>)]
    BY <1>2, <2>2 DEF Joined
  <2>4. y \in Seq(Given) /\ Len(y) = j /\ \A k \in 1..j : y[k].name = n
    BY <1>1, <2>1, <2>3
  <2>5. QED BY <1>2, <2>2, <2>4
<1>3. CASE n # Cookie /\ j = 0
  BY <1>3 DEF Joined
<1>4. CASE n # Cookie /\ j # 0
  <2>1. PICK y : y = [k \in 1..j |-> g[k].value]
    OBVIOUS
  <2>2. y \in Seq({Plain, Trace})
    BY <1>1, <2>1
  <2>3. Header(n, y) \in Given /\ Header(n, y).name = n
    BY <2>2 DEF Header, Given
  <2>4. Joined(g, n, j) = <<Header(n, y)>>
    BY <1>4, <2>1 DEF Joined
  <2>5. QED BY <1>4, <2>3, <2>4
<1>5. QED BY <1>2, <1>3, <1>4

\* One more of them, after entries of which the last has another name.
LEMMA JoinedStep ==
  ASSUME NEW m \in Seq(Given), NEW n \in ToSet(Keys), m = <<>> \/ m[Len(m)].name # n,
         NEW g \in Seq(Entry), NEW j \in 1..Len(g), g[j].name = n
  PROVE  Join(m \o Joined(g, n, j - 1), g[j]) = m \o Joined(g, n, j)
<1>1. PICK x : x = Joined(g, n, j - 1)
  OBVIOUS
<1>2. PICK z : z = Joined(g, n, j)
  OBVIOUS
<1>3. PICK e : e = g[j]
  OBVIOUS
<1>4. j \in Nat /\ j - 1 \in 0..Len(g) /\ j \in 0..Len(g) /\ e \in Entry /\ e.name = n
  BY <1>3
<1>5. x \in Seq(Given) /\ z \in Seq(Given) /\ Len(x) \in Nat /\ Len(m) \in Nat
  BY <1>1, <1>2, <1>4, JoinedType
<1>6. m \o x \in Seq(Given) /\ m \o z \in Seq(Given)
  BY <1>5, ConcatProperties
<1>7. e.value \in {Plain, Trace}
  BY <1>4 DEF Entry
<1>8. CASE n = Cookie
  <2>1. PICK h : h = Header(n, <<e.value>>)
    OBVIOUS
  <2>2. h \in Given
    BY <1>7, <2>1 DEF Header, Given
  <2>3. z = x \o <<h>>
    <3>1. /\ x = [k \in 1..(j - 1) |-> Header(n, <<g[k].value>>)]
          /\ z = [k \in 1..j |-> Header(n, <<g[k].value>>)]
      BY <1>1, <1>2, <1>8 DEF Joined
    <3>2. Len(x) = j - 1 /\ Len(z) = j
      BY <1>1, <1>2, <1>4, <1>8, JoinedType
    <3>3. \A k \in 1..j : z[k] = IF k <= j - 1 THEN x[k] ELSE h
      <4>1. \A k \in 1..j : (k <= j - 1 => k \in 1..(j - 1)) /\ (~(k <= j - 1) => k = j)
        BY <1>4
      <4>2. \A k \in 1..(j - 1) : k \in 1..j
        BY <1>4
      <4>3. \A k \in 1..j : z[k] = Header(n, <<g[k].value>>)
        BY <3>1
      <4>4. \A k \in 1..(j - 1) : x[k] = Header(n, <<g[k].value>>)
        BY <3>1
      <4>5. QED BY <1>3, <2>1, <4>1, <4>2, <4>3, <4>4
    <3>4. <<h>> \in Seq(Given) /\ Len(<<h>>) = 1 /\ <<h>>[1] = h
      BY <2>2
    <3>5. PICK y : y = <<h>>
      OBVIOUS
    <3>6. /\ x \o y \in Seq(Given) /\ Len(x \o y) = Len(x) + Len(y)
          /\ \A k \in 1..Len(x) + Len(y) : (x \o y)[k] = IF k <= Len(x) THEN x[k] ELSE y[k - Len(x)]
      BY <1>5, <3>4, <3>5, ConcatProperties
    <3>7. Len(x \o y) = j /\ \A k \in 1..j : (x \o y)[k] = z[k]
      <4>1. Len(y) = 1 /\ y[1] = h
        BY <3>4, <3>5
      <4>2. Len(x) + Len(y) = j
        BY <1>4, <3>2, <4>1
      <4>3. \A k \in 1..j : ~(k <= j - 1) => k - (j - 1) = 1
        BY <1>4
      <4>4. \A k \in 1..j : (x \o y)[k] = IF k <= j - 1 THEN x[k] ELSE y[k - (j - 1)]
        BY <3>2, <3>6, <4>2
      <4>5. \A k \in 1..j : (x \o y)[k] = IF k <= j - 1 THEN x[k] ELSE h
        BY <4>1, <4>3, <4>4
      <4>6. QED BY <3>3, <3>6, <4>2, <4>5
    <3>8. z = x \o y
      BY <1>5, <3>2, <3>6, <3>7, SeqEqual
    <3>9. QED BY <3>5, <3>8
  <2>4. Join(m \o x, e) = Append(m \o x, h)
    <3>1. PICK y : y = m \o x
      OBVIOUS
    <3>2. y \in Seq(Given) /\ e.name = Cookie /\ h = Header(e.name, <<e.value>>)
      BY <1>4, <1>6, <1>8, <2>1, <3>1
    <3>3. Join(y, e) = Append(y, h)
      BY <1>4, <3>2, JoinMeans
    <3>4. QED BY <3>1, <3>3
  <2>5. Append(m \o x, h) = (m \o x) \o <<h>>
    BY <1>6, <2>2, AppendIsConcat
  <2>6. (m \o x) \o <<h>> = m \o (x \o <<h>>)
    <3>1. <<h>> \in Seq(Given)
      BY <2>2
    <3>2. QED BY <1>5, <3>1, ConcatAssociative
  <2>7. QED BY <1>1, <1>2, <1>3, <2>3, <2>4, <2>5, <2>6
<1>9. CASE n # Cookie /\ j = 1
  <2>1. PICK h : h = Header(n, <<e.value>>)
    OBVIOUS
  <2>2. h \in Given
    BY <1>7, <2>1 DEF Header, Given
  <2>3. x = <<>>
    BY <1>1, <1>9 DEF Joined
  <2>4. z = <<h>>
    <3>1. [k \in 1..1 |-> g[k].value] = <<g[1].value>>
      OBVIOUS
    <3>2. z = <<Header(n, [k \in 1..1 |-> g[k].value])>>
      BY <1>2, <1>9 DEF Joined
    <3>3. QED BY <1>3, <1>9, <2>1, <3>1, <3>2
  <2>5. m \o x = m
    BY <2>3, ConcatEmptySeq
  <2>6. Join(m, e) = Append(m, h)
    BY <1>4, <2>1, JoinMeans
  <2>7. Append(m, h) = m \o <<h>>
    BY <2>2, AppendIsConcat
  <2>8. QED BY <1>1, <1>2, <1>3, <2>4, <2>5, <2>6, <2>7
<1>10. CASE n # Cookie /\ j # 1
  <2>1. PICK u : u = [k \in 1..(j - 1) |-> g[k].value]
    OBVIOUS
  <2>2. PICK v : v = [k \in 1..j |-> g[k].value]
    OBVIOUS
  <2>3. /\ u \in Seq({Plain, Trace}) /\ v \in Seq({Plain, Trace}) /\ Len(u) = j - 1 /\ Len(v) = j
        /\ (\A k \in 1..(j - 1) : u[k] = g[k].value) /\ (\A k \in 1..j : v[k] = g[k].value)
    <3>1. \A k \in 1..j : g[k].value \in {Plain, Trace}
      <4>1. \A k \in 1..j : k \in 1..Len(g)
        BY <1>4
      <4>2. \A k \in 1..j : g[k] \in Entry
        BY <4>1
      <4>3. \A d \in Entry : d.value \in {Plain, Trace}
        BY DEF Entry
      <4>4. QED BY <4>2, <4>3
    <3>2. j - 1 \in Nat /\ \A k \in 1..(j - 1) : k \in 1..j
      BY <1>4
    <3>3. \A k \in 1..(j - 1) : g[k].value \in {Plain, Trace}
      BY <3>1, <3>2
    <3>4. u \in [1..(j - 1) -> {Plain, Trace}] /\ v \in [1..j -> {Plain, Trace}]
      BY <2>1, <2>2, <3>1, <3>3
    <3>5. QED BY <1>4, <2>1, <2>2, <3>2, <3>4
  <2>4. Append(u, e.value) = v
    <3>1. PICK w : w = Append(u, e.value)
      OBVIOUS
    <3>2. w \in Seq({Plain, Trace}) /\ Len(w) = j /\ (\A k \in 1..(j - 1) : w[k] = u[k]) /\ w[j] = e.value
      BY <1>4, <1>7, <2>3, <3>1
    <3>3. \A k \in 1..j : k \in 1..(j - 1) \/ k = j
      BY <1>4
    <3>4. \A k \in 1..j : w[k] = v[k]
      BY <1>3, <2>3, <3>2, <3>3
    <3>5. w = v
      BY <2>3, <3>2, <3>4, SeqEqual
    <3>6. QED BY <3>1, <3>5
  <2>5. x = <<Header(n, u)>> /\ z = <<Header(n, v)>>
    <3>1. j - 1 # 0 /\ j # 0
      BY <1>4, <1>10
    <3>2. QED BY <1>1, <1>2, <1>10, <2>1, <2>2, <3>1 DEF Joined
  <2>6. PICK b, c : b = Header(n, u) /\ c = Header(n, v)
    OBVIOUS
  <2>7. b \in Given /\ c \in Given /\ b.name = n /\ b.value = u
    BY <2>3, <2>6 DEF Header, Given
  <2>8. x = <<b>> /\ z = <<c>> /\ Len(x) = 1 /\ Len(z) = 1 /\ x[1] = b /\ z[1] = c
    BY <2>5, <2>6
  <2>9. PICK y : y = m \o x
    OBVIOUS
  <2>10. PICK w : w = m \o z
    OBVIOUS
  <2>11. PICK l : l = Len(m)
    OBVIOUS
  <2>12. y \in Seq(Given) /\ Len(y) = l + 1 /\ y[l + 1] = b /\ \A k \in 1..l : y[k] = m[k]
    <3>1. Len(m \o x) = l + 1 /\ \A k \in 1..(l + 1) : (m \o x)[k] = IF k <= l THEN m[k] ELSE x[k - l]
      BY <1>5, <2>8, <2>11, ConcatProperties
    <3>2. /\ l + 1 \in 1..(l + 1) /\ ~(l + 1 <= l) /\ l + 1 - l = 1
          /\ \A k \in 1..l : k \in 1..(l + 1) /\ k <= l
      BY <1>5, <2>11
    <3>3. QED BY <1>6, <2>8, <2>9, <3>1, <3>2
  <2>13. w \in Seq(Given) /\ Len(w) = l + 1 /\ w[l + 1] = c /\ \A k \in 1..l : w[k] = m[k]
    <3>1. Len(m \o z) = l + 1 /\ \A k \in 1..(l + 1) : (m \o z)[k] = IF k <= l THEN m[k] ELSE z[k - l]
      BY <1>5, <2>8, <2>11, ConcatProperties
    <3>2. /\ l + 1 \in 1..(l + 1) /\ ~(l + 1 <= l) /\ l + 1 - l = 1
          /\ \A k \in 1..l : k \in 1..(l + 1) /\ k <= l
      BY <1>5, <2>11
    <3>3. QED BY <1>6, <2>8, <2>10, <3>1, <3>2
  <2>14. PICK q : q = Join(y, e)
    OBVIOUS
  <2>15. l \in Nat /\ y # <<>> /\ y[Len(y)].name = e.name /\ y[Len(y)].value = u
    BY <1>4, <1>5, <2>7, <2>11, <2>12
  <2>16. /\ q \in Seq(Given) /\ Len(q) = Len(y) /\ \A k \in 1..(Len(y) - 1) : q[k] = y[k]
         /\ q[Len(y)] = Header(e.name, Append(y[Len(y)].value, e.value))
    BY <1>4, <1>10, <2>12, <2>14, <2>15, JoinMeans
  <2>17. q[l + 1] = c /\ \A k \in 1..l : q[k] = y[k]
    <3>1. l + 1 - 1 = l
      BY <2>15
    <3>2. QED BY <1>4, <2>4, <2>6, <2>12, <2>15, <2>16, <3>1
  <2>18. \A k \in 1..(l + 1) : k \in 1..l \/ k = l + 1
    BY <2>15
  <2>19. \A k \in 1..Len(q) : q[k] = w[k]
    BY <2>12, <2>13, <2>16, <2>17, <2>18
  <2>20. q = w
    BY <2>12, <2>13, <2>16, <2>19, SeqEqual
  <2>21. QED BY <1>1, <1>2, <1>3, <2>9, <2>10, <2>14, <2>20
<1>11. QED BY <1>8, <1>9, <1>10

\* The list that sorted_entries builds from the first j of the sorted entries, for every j.
Joins(s) ==
  LET merged[j \in 0..Len(s)] == IF j = 0 THEN <<>> ELSE Join(merged[j - 1], s[j]) IN merged

\* It is built from the left, and sorted_entries gives the last of it.
LEMMA JoinsMean ==
  ASSUME NEW s \in Seq(Entry)
  PROVE  /\ \A k \in 0..Len(s) : Joins(s)[k] \in Seq(Given)
         /\ Joins(s)[0] = <<>>
         /\ \A k \in 1..Len(s) : Joins(s)[k] = Join(Joins(s)[k - 1], s[k])
<1> DEFINE h == Len(s)
           V == Seq(Given)
           F == [k \in 1..h |-> [v \in V |-> Join(v, s[k])]]
           P(r) == r = [j \in 0..h |-> IF j = 0 THEN <<>> ELSE Join(r[j - 1], s[j])]
<1>1. h \in Nat /\ (\A k \in 1..h : s[k] \in Entry) /\ <<>> \in V
  OBVIOUS
<1>2. \A k \in 1..h : \A v \in V : Join(v, s[k]) \in V
  <2> SUFFICES ASSUME NEW k \in 1..h, NEW v \in Seq(Given) PROVE Join(v, s[k]) \in Seq(Given)
    OBVIOUS
  <2>1. PICK e : e = s[k]
    OBVIOUS
  <2>2. e \in Entry
    BY <1>1, <2>1
  <2>3. Join(v, e) \in Seq(Given)
    BY <2>2, JoinMeans
  <2>4. QED BY <2>1, <2>3
<1>3. PICK r \in [0..h -> V] : r[0] = <<>> /\ \A k \in 1..h : r[k] = F[k][r[k - 1]]
  <2>1. F \in [1..h -> [V -> V]]
    BY <1>2
  <2> DEFINE v0 == <<>>
  <2>2. h \in Nat /\ v0 \in V
    BY <1>1
  <2> HIDE DEF F, V, h, v0
  <2>3. Solvable(h, V, v0, F)
    BY <2>1, <2>2, LineRecursion
  <2>4. QED BY <2>3 DEF v0, Solvable
<1>4. \A k \in 1..h : r[k] = Join(r[k - 1], s[k])
  <2> SUFFICES ASSUME NEW k \in 1..h PROVE r[k] = Join(r[k - 1], s[k])
    OBVIOUS
  <2>1. k - 1 \in 0..h
    BY <1>1
  <2>2. r[k - 1] \in V
    BY <2>1
  <2>3. F[k][r[k - 1]] = Join(r[k - 1], s[k])
    <3> HIDE DEF V, h
    <3> QED BY <2>2
  <2>4. QED BY <1>3, <2>3
<1>5. P(r)
  <2>1. r = [j \in 0..h |-> r[j]]
    OBVIOUS
  <2>2. ASSUME NEW j \in 0..h PROVE r[j] = IF j = 0 THEN <<>> ELSE Join(r[j - 1], s[j])
    <3>1. j # 0 => j \in 1..h
      BY <1>1
    <3>2. QED BY <1>3, <1>4, <3>1
  <2> HIDE DEF h, V
  <2>3. QED BY <2>1, <2>2
<1> DEFINE q == Joins(s)
<1>6. P(q)
  <2>1. q = CHOOSE x : P(x)
    BY Zenon DEF Joins
  <2>2. P(CHOOSE x : P(x))
    <3> HIDE DEF P
    <3> QED BY <1>5, Zenon
  <2>3. QED BY ONLY <2>1, <2>2, Zenon
<1>7. \A j \in 0..h : q[j] = IF j = 0 THEN <<>> ELSE Join(q[j - 1], s[j])
  <2>1. q = [j \in 0..h |-> IF j = 0 THEN <<>> ELSE Join(q[j - 1], s[j])]
    BY <1>6, Zenon
  <2> HIDE DEF q, h
  <2>2. QED BY <2>1
<1> HIDE DEF q
<1>8. q[0] = <<>> /\ \A k \in 1..h : q[k] = Join(q[k - 1], s[k])
  <2>1. 0 \in 0..h /\ \A k \in 1..h : k \in 0..h /\ k # 0
    BY <1>1
  <2> HIDE DEF h
  <2>2. QED BY <1>7, <2>1
<1>9. \A k \in 0..h : q[k] \in V
  <2> DEFINE W == {k \in 0..h : q[k] \in V}
  <2> HIDE DEF V, h
  <2>1. 0 \in W
    <3>1. 0 \in 0..h
      BY <1>1
    <3>2. QED BY <1>1, <1>8, <3>1
  <2>2. ASSUME NEW k \in 1..h, k - 1 \in W PROVE k \in W
    <3>1. q[k - 1] \in V
      BY <2>2
    <3>2. q[k] \in V
      BY <1>2, <1>8, <3>1
    <3>3. k \in 0..h
      BY <1>1
    <3>4. QED BY <3>2, <3>3
  <2>3. \A k \in 0..h : k \in W
    <3> HIDE DEF W
    <3> QED BY <1>1, <2>1, <2>2, UpTo
  <2>4. QED BY <2>3
<1>10. QED BY <1>8, <1>9 DEF q

\* The headers of one name, and what they are joined to; for every name in order.
Groups(l) == [k \in DOMAIN Keys |-> Named(l, Keys[k])]
Merged(l) == [k \in DOMAIN Keys |-> Joined(Groups(l)[k], Keys[k], Len(Groups(l)[k]))]

\* The names are a sequence in which each occurs once.
LEMMA KeysMean ==
  /\ Len(Keys) \in Nat /\ DOMAIN Keys = 1..Len(Keys)
  /\ \A k \in 1..Len(Keys) : Keys[k] \in ToSet(Keys)
  /\ \A k, j \in 1..Len(Keys) : Keys[k] = Keys[j] => k = j
  /\ \A n \in ToSet(Keys) : \E k \in 1..Len(Keys) : Keys[k] = n
  /\ Cookie \in ToSet(Keys)
<1>1. Keys \in Seq(ToSet(Keys)) /\ IsInjective(Keys) /\ Cookie \in ToSet(Keys)
  BY HeadersAssumption DEF HeadersAssumption
<1>2. Len(Keys) \in Nat /\ DOMAIN Keys = 1..Len(Keys) /\ \A k \in 1..Len(Keys) : Keys[k] \in ToSet(Keys)
  <2>1. PICK S : S = ToSet(Keys)
    OBVIOUS
  <2>2. Keys \in Seq(S)
    BY <1>1, <2>1
  <2>3. Len(Keys) \in Nat /\ DOMAIN Keys = 1..Len(Keys) /\ \A k \in 1..Len(Keys) : Keys[k] \in S
    BY <2>2
  <2>4. QED BY <2>1, <2>3
<1>3. \A k, j \in 1..Len(Keys) : Keys[k] = Keys[j] => k = j
  BY <1>1, <1>2 DEF IsInjective
<1>4. \A n \in ToSet(Keys) : \E k \in 1..Len(Keys) : Keys[k] = n
  BY <1>2 DEF ToSet
<1>5. QED BY <1>1, <1>2, <1>3, <1>4

\* Their types and names.
LEMMA GroupsMean ==
  ASSUME NEW l \in Seq(Entry)
  PROVE  /\ Groups(l) \in Seq(Seq(Entry)) /\ Len(Groups(l)) = Len(Keys)
         /\ Merged(l) \in Seq(Seq(Given)) /\ Len(Merged(l)) = Len(Keys)
         /\ \A k \in 1..Len(Keys) :
              /\ Groups(l)[k] = Named(l, Keys[k]) /\ Groups(l)[k] \in Seq(Entry) /\ Len(Groups(l)[k]) \in Nat
              /\ \A j \in 1..Len(Groups(l)[k]) : Groups(l)[k][j].name = Keys[k]
              /\ Merged(l)[k] = Joined(Groups(l)[k], Keys[k], Len(Groups(l)[k])) /\ Merged(l)[k] \in Seq(Given)
              /\ \A j \in 1..Len(Merged(l)[k]) : Merged(l)[k][j].name = Keys[k]
<1>1. PICK h : h = Len(Keys)
  OBVIOUS
<1>2. h \in Nat /\ DOMAIN Keys = 1..h /\ \A k \in 1..h : Keys[k] \in ToSet(Keys)
  BY <1>1, KeysMean
<1>3. PICK g : g = Groups(l)
  OBVIOUS
<1>4. PICK m : m = Merged(l)
  OBVIOUS
<1>5. g = [k \in 1..h |-> Named(l, Keys[k])]
  BY <1>2, <1>3 DEF Groups
<1>6. m = [k \in 1..h |-> Joined(g[k], Keys[k], Len(g[k]))]
  BY <1>2, <1>3, <1>4 DEF Merged
<1>7. ASSUME NEW k \in 1..h
      PROVE  /\ g[k] = Named(l, Keys[k]) /\ g[k] \in Seq(Entry) /\ Len(g[k]) \in Nat
             /\ \A j \in 1..Len(g[k]) : g[k][j].name = Keys[k]
  <2>1. g[k] = Named(l, Keys[k])
    BY <1>5
  <2>2. Named(l, Keys[k]) \in Seq(Entry) /\ \A j \in 1..Len(Named(l, Keys[k])) : Named(l, Keys[k])[j].name = Keys[k]
    <3>1. PICK n : n = Keys[k]
      OBVIOUS
    <3>2. Named(l, n) \in Seq(Entry) /\ \A j \in 1..Len(Named(l, n)) : Named(l, n)[j].name = n
      BY NamedMeans
    <3>3. QED BY <3>1, <3>2
  <2>3. g[k] \in Seq(Entry)
    BY <2>1, <2>2
  <2>4. QED BY <2>1, <2>2, <2>3
<1>8. ASSUME NEW k \in 1..h
      PROVE  /\ m[k] = Joined(g[k], Keys[k], Len(g[k])) /\ m[k] \in Seq(Given)
             /\ \A j \in 1..Len(m[k]) : m[k][j].name = Keys[k]
  <2>1. m[k] = Joined(g[k], Keys[k], Len(g[k]))
    BY <1>6
  <2>2. PICK x, n, j : x = g[k] /\ n = Keys[k] /\ j = Len(g[k])
    OBVIOUS
  <2>3. x \in Seq(Entry) /\ n \in ToSet(Keys) /\ j \in 0..Len(x)
    BY <1>2, <1>7, <2>2
  <2>4. Joined(x, n, j) \in Seq(Given) /\ \A p \in 1..Len(Joined(x, n, j)) : Joined(x, n, j)[p].name = n
    BY <2>3, JoinedType
  <2>5. QED BY <2>1, <2>2, <2>4
<1>9. g \in Seq(Seq(Entry)) /\ Len(g) = h
  <2>1. g \in [1..h -> Seq(Entry)]
    BY <1>5, <1>7
  <2>2. QED BY <1>2, <2>1
<1>10. m \in Seq(Seq(Given)) /\ Len(m) = h
  <2>1. m \in [1..h -> Seq(Given)]
    BY <1>6, <1>8
  <2>2. QED BY <1>2, <2>1
<1>11. QED BY <1>1, <1>3, <1>4, <1>7, <1>8, <1>9, <1>10

\* Where an entry is that sorted_entries gives, and what its name is; f stands for the flattening.
Places(l, h, f) ==
  /\ \A k \in 0..h : f[k] \in Seq(Given) /\ Len(f[k]) \in Nat
  /\ f[0] = <<>>
  /\ \A k \in 1..h : f[k] = f[k - 1] \o Merged(l)[k]
  /\ \A k \in 1..h : Len(f[k]) = Len(f[k - 1]) + Len(Merged(l)[k])
  /\ \A k \in 1..h : \A j \in 1..Len(Merged(l)[k]) :
       f[h][Len(f[k - 1]) + j] = Merged(l)[k][j]
  /\ \A k \in 0..h : Len(f[k]) <= Len(f[h]) /\ \A j \in 1..Len(f[k]) : f[h][j] = f[k][j]
  /\ \A j \in 1..Len(f[h]) : \E k \in 1..h :
       Len(f[k - 1]) < j /\ j <= Len(f[k]) /\ f[h][j].name = Keys[k]

\* The flattening of what is joined for every name has such places.
LEMMA MergedPlaces ==
  ASSUME NEW l \in Seq(Entry)
  PROVE  Places(l, Len(Keys), Flat(Merged(l)))
<1>1. PICK h : h = Len(Keys)
  OBVIOUS
<1>2. PICK f : f = Flat(Merged(l))
  OBVIOUS
<1>3. PICK m : m = Merged(l)
  OBVIOUS
<1>4. m \in Seq(Seq(Given)) /\ Len(m) = h /\ h \in Nat
  BY <1>3, <1>1, GroupsMean, KeysMean
<1>5. \A k \in 1..h : m[k] \in Seq(Given) /\ \A j \in 1..Len(m[k]) : m[k][j].name = Keys[k]
  BY <1>3, <1>1, GroupsMean
<1>6. /\ \A k \in 0..h : f[k] \in Seq(Given)
      /\ f[0] = <<>>
      /\ \A k \in 1..h : f[k] = f[k - 1] \o m[k]
  BY <1>3, <1>4, <1>2, FlatMeans
<1>7. /\ \A k \in 1..h :
           /\ Len(f[k]) = Len(f[k - 1]) + Len(m[k])
           /\ \A j \in 1..Len(m[k]) : f[h][Len(f[k - 1]) + j] = m[k][j]
      /\ \A j \in 1..Len(f[h]) : \E k \in 1..h : Len(f[k - 1]) < j /\ j <= Len(f[k])
  <2>1. m \in Seq(Seq(Given))
    BY <1>4
  <2>2. /\ \A k \in 1..Len(m) :
             /\ Len(Flat(m)[k]) = Len(Flat(m)[k - 1]) + Len(m[k])
             /\ \A j \in 1..Len(m[k]) : Flat(m)[Len(m)][Len(Flat(m)[k - 1]) + j] = m[k][j]
        /\ \A j \in 1..Len(Flat(m)[Len(m)]) : \E k \in 1..Len(m) : Len(Flat(m)[k - 1]) < j /\ j <= Len(Flat(m)[k])
    BY <2>1, FlatPlaces
  <2>3. Len(m) = h /\ Flat(m) = f
    BY <1>3, <1>4, <1>2
  <2>4. QED BY <2>2, <2>3
<1>8. \A k \in 0..h : Len(f[k]) <= Len(f[h]) /\ \A j \in 1..Len(f[k]) : f[h][j] = f[k][j]
  <2>1. m \in Seq(Seq(Given))
    BY <1>4
  <2>2. \A k \in 0..Len(m) : /\ Len(Flat(m)[k]) <= Len(Flat(m)[Len(m)])
                             /\ \A j \in 1..Len(Flat(m)[k]) : Flat(m)[Len(m)][j] = Flat(m)[k][j]
    BY <2>1, FlatGrows
  <2>3. Len(m) = h /\ Flat(m) = f
    BY <1>3, <1>4, <1>2
  <2>4. QED BY <2>2, <2>3
<1>9. \A k \in 0..h : Len(f[k]) \in Nat
  BY <1>6
<1>10. ASSUME NEW j \in 1..Len(f[h])
      PROVE  \E k \in 1..h : Len(f[k - 1]) < j /\ j <= Len(f[k]) /\ f[h][j].name = Keys[k]
  <2>1. PICK k \in 1..h : Len(f[k - 1]) < j /\ j <= Len(f[k])
    BY <1>7
  <2>2. PICK b, c : b = Len(f[k - 1]) /\ c = Len(m[k])
    OBVIOUS
  <2>3. b \in Nat /\ c \in Nat /\ b < j /\ j <= b + c /\ j \in Nat
    <3>1. k - 1 \in 0..h /\ k \in 0..h
      BY <1>4
    <3>2. b \in Nat /\ Len(f[h]) \in Nat /\ h \in 0..h
      BY <1>4, <1>9, <2>2, <3>1
    <3>3. c \in Nat
      BY <1>5, <2>2
    <3>4. Len(f[k]) = b + c
      BY <1>7, <2>2
    <3>5. j \in Nat
      BY <3>2
    <3>6. b < j /\ j <= b + c
      BY <2>1, <2>2, <3>4
    <3>7. QED BY <3>2, <3>3, <3>5, <3>6
  <2>4. j - b \in 1..c /\ b + (j - b) = j
    BY <2>3
  <2>5. f[h][b + (j - b)] = m[k][j - b]
    BY <1>7, <2>2, <2>4
  <2>6. m[k][j - b].name = Keys[k]
    BY <1>5, <2>2, <2>4
  <2>7. QED BY <2>1, <2>4, <2>5, <2>6
<1>11. Places(l, h, f)
  BY <1>3, <1>6, <1>7, <1>8, <1>9, <1>10 DEF Places
<1>12. QED BY <1>11, <1>1, <1>2

\* The entries that are given are those of every name in turn, joined.
LEMMA EntriesAre ==
  ASSUME NEW l \in Seq(Entry)
  PROVE  sorted_entries(l) = Flat(Merged(l))[Len(Keys)]
<1>1. PICK h : h = Len(Keys)
  OBVIOUS
<1>2. PICK g : g = Groups(l)
  OBVIOUS
<1>3. PICK m : m = Merged(l)
  OBVIOUS
<1>4. PICK f : f = Flat(m)
  OBVIOUS
<1>5. PICK d : d = Flat(g)
  OBVIOUS
<1>6. PICK s : s = d[h]
  OBVIOUS
<1>7. PICK q : q = Joins(s)
  OBVIOUS
<1>8. h \in Nat /\ h \in 0..h /\ \A k \in 1..h : Keys[k] \in ToSet(Keys)
  BY <1>1, KeysMean
<1>9. /\ g \in Seq(Seq(Entry)) /\ Len(g) = h
      /\ \A k \in 1..h : /\ g[k] \in Seq(Entry) /\ Len(g[k]) \in Nat
                         /\ \A j \in 1..Len(g[k]) : g[k][j].name = Keys[k]
                         /\ m[k] = Joined(g[k], Keys[k], Len(g[k]))
  BY <1>1, <1>2, <1>3, GroupsMean
<1>10. Sorted(l, Keys) = s
  <2>1. Sorted(l, Keys) = FlattenSeq(g)
    BY <1>2 DEF Sorted, Groups
  <2>2. FlattenSeq(g) = Flat(g)[Len(g)]
    BY <1>9, FlatIsWhole
  <2>3. QED BY <1>5, <1>6, <1>9, <2>1, <2>2
<1>11. \A k \in 0..h : d[k] \in Seq(Entry) /\ Len(d[k]) \in Nat
  <2>1. \A k \in 0..h : d[k] \in Seq(Entry)
    BY <1>5, <1>9, FlatMeans
  <2>2. QED BY <2>1
<1>12. d[0] = <<>>
  BY <1>5, <1>9, FlatMeans
<1>13. \A k \in 1..h : /\ Len(d[k]) = Len(d[k - 1]) + Len(g[k])
                       /\ \A j \in 1..Len(g[k]) : s[Len(d[k - 1]) + j] = g[k][j]
  <2>1. g \in Seq(Seq(Entry))
    BY <1>9
  <2>2. \A k \in 1..Len(g) :
          /\ Len(Flat(g)[k]) = Len(Flat(g)[k - 1]) + Len(g[k])
          /\ \A j \in 1..Len(g[k]) : Flat(g)[Len(g)][Len(Flat(g)[k - 1]) + j] = g[k][j]
    BY <2>1, FlatPlaces
  <2>3. Len(g) = h /\ Flat(g) = d /\ Flat(g)[h] = s
    BY <1>5, <1>6, <1>9
  <2>4. QED BY <2>2, <2>3
<1>14. \A k \in 0..h : Len(d[k]) <= Len(s)
  BY <1>5, <1>6, <1>9, FlatGrows
<1>15. s \in Seq(Entry) /\ Len(s) \in Nat
  BY <1>6, <1>8, <1>11
<1>16. q[0] = <<>> /\ \A k \in 1..Len(s) : q[k] = Join(q[k - 1], s[k])
  BY <1>7, <1>15, JoinsMean
<1>17. sorted_entries(l) = q[Len(s)]
  <2>1. sorted_entries(l) = Joins(Sorted(l, Keys))[Len(Sorted(l, Keys))]
    BY Zenon DEF sorted_entries, Joins
  <2>2. QED BY <1>7, <1>10, <2>1
<1>18. /\ \A k \in 0..h : f[k] \in Seq(Given) /\ Len(f[k]) \in Nat
       /\ f[0] = <<>>
       /\ \A k \in 1..h : f[k] = f[k - 1] \o m[k]
       /\ \A k \in 0..h : Len(f[k]) <= Len(f[h]) /\ \A j \in 1..Len(f[k]) : f[h][j] = f[k][j]
       /\ \A j \in 1..Len(f[h]) : \E k \in 1..h :
            Len(f[k - 1]) < j /\ j <= Len(f[k]) /\ f[h][j].name = Keys[k]
  <2>1. Places(l, Len(Keys), Flat(Merged(l)))
    BY MergedPlaces
  <2>2. Places(l, h, f)
    BY <1>1, <1>3, <1>4, <2>1
  <2>3. QED BY <1>3, <2>2 DEF Places
\* What the groups before it end in has another name than a group.
<1>19. ASSUME NEW k \in 1..h PROVE f[k - 1] = <<>> \/ f[k - 1][Len(f[k - 1])].name # Keys[k]
  <2>1. PICK x, p : x = f[k - 1] /\ p = Len(x)
    OBVIOUS
  <2>2. k - 1 \in 0..h
    BY <1>8
  <2>3. x \in Seq(Given) /\ p \in Nat /\ p <= Len(f[h]) /\ Len(f[h]) \in Nat
    BY <1>8, <1>18, <2>1, <2>2
  <2>4. CASE p = 0
    BY <2>1, <2>3, <2>4, EmptySeq
  <2>5. CASE p # 0
    <3>1. p \in 1..Len(f[h]) /\ p \in 1..Len(f[k - 1])
      BY <2>1, <2>3, <2>5
    <3>2. PICK j \in 1..h : Len(f[j - 1]) < p /\ f[h][p].name = Keys[j]
      BY <1>18, <3>1
    <3>3. j # k
      BY <2>1, <2>3, <3>2
    <3>4. Keys[j] # Keys[k]
      BY <1>1, <3>3, KeysMean
    <3>5. f[h][p] = x[p]
      BY <1>18, <2>1, <2>2, <3>1
    <3>6. QED BY <2>1, <3>2, <3>4, <3>5
  <2>6. QED BY <2>4, <2>5
<1> DEFINE T == {k \in 0..h : q[Len(d[k])] = f[k]}
<1>20. 0 \in T
  BY <1>8, <1>12, <1>16, <1>18
<1>21. ASSUME NEW k \in 1..h, k - 1 \in T PROVE k \in T
  <2>1. k \in 0..h /\ k - 1 \in 0..h /\ q[Len(d[k - 1])] = f[k - 1]
    BY <1>8, <1>21
  <2>2. PICK x, y, n, b, c : x = f[k - 1] /\ y = g[k] /\ n = Keys[k] /\ b = Len(d[k - 1]) /\ c = Len(y)
    OBVIOUS
  <2>3. /\ x \in Seq(Given) /\ y \in Seq(Entry) /\ n \in ToSet(Keys) /\ b \in Nat /\ c \in Nat
        /\ x = <<>> \/ x[Len(x)].name # n
        /\ \A j \in 1..c : y[j].name = n
    <3>1. x \in Seq(Given) /\ (x = <<>> \/ x[Len(x)].name # n)
      BY <1>18, <1>19, <2>1, <2>2
    <3>2. y \in Seq(Entry) /\ n \in ToSet(Keys) /\ c \in Nat /\ \A j \in 1..c : y[j].name = n
      BY <1>8, <1>9, <2>2
    <3>3. b \in Nat
      BY <1>11, <2>1, <2>2
    <3>4. QED BY <3>1, <3>2, <3>3
  <2>4. q[b] = x /\ Len(d[k]) = b + c /\ b + c <= Len(s) /\ \A j \in 1..c : s[b + j] = y[j]
    BY <1>13, <1>14, <2>1, <2>2
  <2> DEFINE U == {j \in 0..c : q[b + j] = x \o Joined(y, n, j)}
  <2>5. 0 \in U
    <3>1. Joined(y, n, 0) = <<>>
      BY DEF Joined
    <3>2. x \o Joined(y, n, 0) = x
      BY <2>3, <3>1, ConcatEmptySeq
    <3>3. b + 0 = b /\ 0 \in 0..c
      BY <2>3
    <3>4. QED BY <2>4, <3>2, <3>3
  <2>6. ASSUME NEW j \in 1..c, j - 1 \in U PROVE j \in U
    <3>1. j \in 0..c /\ q[b + (j - 1)] = x \o Joined(y, n, j - 1)
      BY <2>3, <2>6
    <3>2. b + j \in 1..Len(s) /\ b + j - 1 = b + (j - 1)
      BY <1>15, <2>3, <2>4
    <3>3. q[b + j] = Join(q[b + (j - 1)], y[j])
      <4>1. q[b + j] = Join(q[b + j - 1], s[b + j])
        <5>1. PICK p : p = b + j
          OBVIOUS
        <5>2. p \in 1..Len(s)
          BY <3>2, <5>1
        <5>3. q[p] = Join(q[p - 1], s[p])
          BY <1>16, <5>2
        <5>4. b \in Int /\ j \in Int
          BY <2>3
        <5>5. QED BY <5>1, <5>3, <5>4
      <4>2. s[b + j] = y[j]
        BY <2>4
      <4>3. QED BY <3>2, <4>1, <4>2
    <3>4. j \in 1..Len(y) /\ y[j].name = n
      BY <2>2, <2>3
    <3>5. Join(x \o Joined(y, n, j - 1), y[j]) = x \o Joined(y, n, j)
      BY <2>3, <3>4, JoinedStep
    <3>6. QED BY <3>1, <3>3, <3>5
  <2>7. \A j \in 0..c : j \in U
    <3> HIDE DEF U
    <3> QED BY <2>3, <2>5, <2>6, UpTo
  <2>8. c \in 0..c
    BY <2>3
  <2>9. q[b + c] = x \o Joined(y, n, c)
    BY <2>7, <2>8
  <2>10. x \o Joined(y, n, c) = f[k]
    BY <1>9, <1>18, <2>2
  <2>11. QED BY <2>1, <2>4, <2>9, <2>10
<1>22. \A k \in 0..h : k \in T
  <2> HIDE DEF T
  <2> QED BY <1>8, <1>20, <1>21, UpTo
<1>23. q[Len(s)] = f[h]
  BY <1>6, <1>8, <1>22
<1>24. QED BY <1>1, <1>3, <1>4, <1>17, <1>23

\* How many entries there are of a name, and where.
NameAt(l, h, f, k) ==
  /\ Len(f[k]) \in Nat /\ Len(f[k - 1]) \in Nat /\ Len(f[h]) \in Nat /\ Len(f[k]) <= Len(f[h])
  /\ Len(f[k]) = Len(f[k - 1]) +
       (IF Keys[k] = Cookie THEN Len(Named(l, Keys[k])) ELSE IF Named(l, Keys[k]) = <<>> THEN 0 ELSE 1)
  /\ \A j \in 1..Len(f[h]) : f[h][j].name = Keys[k] <=> Len(f[k - 1]) < j /\ j <= Len(f[k])

\* Every name that is there has such places.
LEMMA NamePlaces ==
  ASSUME NEW l \in Seq(Entry), NEW f, Places(l, Len(Keys), f), NEW k \in 1..Len(Keys)
  PROVE  NameAt(l, Len(Keys), f, k)
<1>1. PICK h : h = Len(Keys)
  OBVIOUS
<1>2. h \in Nat /\ k - 1 \in 0..h /\ k \in 0..h /\ h \in 0..h /\ k \in 1..h /\ Places(l, h, f)
  BY <1>1, KeysMean
<1>3. PICK m : m = Merged(l)
  OBVIOUS
<1>4. PICK b, c, e : b = Len(f[k - 1]) /\ c = Len(m[k]) /\ e = Len(f[h])
  OBVIOUS
<1>5. b \in Nat /\ Len(f[k]) \in Nat /\ e \in Nat /\ Len(f[k]) <= e
  BY <1>2, <1>4 DEF Places
<1>6. Len(f[k]) = b + c
  BY <1>2, <1>3, <1>4 DEF Places
<1>7. PICK g, n, z : g = Named(l, Keys[k]) /\ n = Keys[k] /\ z = Len(g)
  OBVIOUS
<1>8. g \in Seq(Entry) /\ z \in Nat /\ m[k] = Joined(g, n, z) /\ \A j \in 1..Len(m[k]) : m[k][j].name = n
  <2>1. k \in 1..Len(Keys)
    OBVIOUS
  <2>2. /\ Groups(l)[k] = Named(l, Keys[k]) /\ Groups(l)[k] \in Seq(Entry) /\ Len(Groups(l)[k]) \in Nat
        /\ Merged(l)[k] = Joined(Groups(l)[k], Keys[k], Len(Groups(l)[k]))
        /\ \A j \in 1..Len(Merged(l)[k]) : Merged(l)[k][j].name = Keys[k]
    BY <2>1, GroupsMean
  <2>3. QED BY <1>3, <1>7, <2>2
<1>9. n \in ToSet(Keys)
  BY <1>7, KeysMean
<1>10. c = IF n = Cookie THEN z ELSE IF g = <<>> THEN 0 ELSE 1
  <2>1. z \in 0..Len(g)
    BY <1>7, <1>8
  <2>2. Len(Joined(g, n, z)) = IF n = Cookie THEN z ELSE IF z = 0 THEN 0 ELSE 1
    BY <1>8, <1>9, <2>1, JoinedType
  <2>3. z = 0 <=> g = <<>>
    <3>1. g # <<>> => Len(g) \in Nat \ {0}
      BY <1>8, EmptySeq
    <3>2. QED BY <1>7, <3>1
  <2>4. QED BY <1>4, <1>8, <2>2, <2>3
<1>11. ASSUME NEW j \in 1..e PROVE f[h][j].name = n <=> b < j /\ j <= b + c
  <2>1. ASSUME f[h][j].name = n PROVE b < j /\ j <= b + c
    <3>1. PICK p \in 1..h : Len(f[p - 1]) < j /\ j <= Len(f[p]) /\ f[h][j].name = Keys[p]
      BY <1>2, <1>4 DEF Places
    <3>2. p = k
      BY <1>1, <1>2, <1>7, <2>1, <3>1, KeysMean
    <3>3. QED BY <1>4, <1>6, <3>1, <3>2
  <2>2. ASSUME b < j, j <= b + c PROVE f[h][j].name = n
    <3>1. c \in Nat
      BY <1>8, <1>10
    <3>2. j - b \in 1..c /\ b + (j - b) = j
      BY <1>5, <2>2, <3>1
    <3>3. f[h][b + (j - b)] = m[k][j - b]
      BY <1>2, <1>3, <1>4, <3>2 DEF Places
    <3>4. m[k][j - b].name = n
      BY <1>4, <1>8, <3>2
    <3>5. QED BY <3>2, <3>3, <3>4
  <2>3. QED BY <2>1, <2>2
<1>12. NameAt(l, h, f, k)
  BY <1>4, <1>5, <1>6, <1>7, <1>10, <1>11 DEF NameAt
<1>13. QED BY <1>1, <1>12

\* Chosen from a range, the number of entries is that of the places.
LEMMA ChosenRange ==
  ASSUME NEW T, NEW l \in Seq(T), NEW S, NEW b \in Nat, NEW c \in Nat, b + c <= Len(l),
         \A j \in 1..Len(l) : j \in S <=> b < j /\ j <= b + c
  PROVE  Len(Chosen(l, S)) = c
<1>1. PICK h : h = Len(l)
  OBVIOUS
<1>2. PICK u : u = Upto(l, S)
  OBVIOUS
<1>3. h \in Nat /\ b + c <= h /\ \A j \in 1..h : j \in S <=> b < j /\ j <= b + c
  BY <1>1
<1>4. /\ Chosen(l, S) = u[h]
      /\ \A k \in 0..h : u[k] \in Seq(T)
      /\ u[0] = <<>>
      /\ \A k \in 1..h : u[k] = IF k \in S THEN Append(u[k - 1], l[k]) ELSE u[k - 1]
  <2>1. /\ Chosen(l, S) = Upto(l, S)[Len(l)]
        /\ \A k \in 0..Len(l) : Upto(l, S)[k] \in Seq(T)
        /\ Upto(l, S)[0] = <<>>
        /\ \A k \in 1..Len(l) :
             Upto(l, S)[k] = IF k \in S THEN Append(Upto(l, S)[k - 1], l[k]) ELSE Upto(l, S)[k - 1]
    BY UptoMeans
  <2>2. QED BY <1>1, <1>2, <2>1
<1>5. \A k \in 1..h : l[k] \in T
  BY <1>1
<1> DEFINE N(k) == IF k <= b THEN 0 ELSE IF k <= b + c THEN k - b ELSE c
           W == {k \in 0..h : Len(u[k]) = N(k)}
<1>6. 0 \in W
  BY <1>3, <1>4
<1>7. ASSUME NEW k \in 1..h, k - 1 \in W PROVE k \in W
  <2>1. k \in 0..h /\ k - 1 \in 0..h /\ k \in Nat
    BY <1>3
  <2>2. PICK x : x = u[k - 1]
    OBVIOUS
  <2>3. x \in Seq(T) /\ u[k] = IF k \in S THEN Append(x, l[k]) ELSE x
    BY <1>4, <2>1, <2>2
  <2>4. Len(u[k]) = IF k \in S THEN Len(x) + 1 ELSE Len(x)
    BY <1>5, <2>3
  <2>5. Len(x) = N(k - 1)
    BY <1>7, <2>2
  <2>6. (k \in S <=> b < k /\ k <= b + c) => (IF k \in S THEN N(k - 1) + 1 ELSE N(k - 1)) = N(k)
    BY <2>1
  <2>7. Len(u[k]) = N(k)
    BY <1>3, <2>4, <2>5, <2>6
  <2>8. QED BY <2>1, <2>7
<1>8. \A k \in 0..h : k \in W
  <2> HIDE DEF W
  <2> QED BY <1>3, <1>6, <1>7, UpTo
<1>9. h \in 0..h /\ N(h) = c
  BY <1>3
<1>10. Len(u[h]) = N(h)
  BY <1>8, <1>9
<1>11. QED BY <1>4, <1>9, <1>10

\* The three ways to read a list agree.
LEMMA ReadingsAgree ==
  ASSUME headers \in Seq(Entry)
  PROVE  ReadersAgree
<1>1. PICK l : l = headers
  OBVIOUS
<1>2. PICK h, f : h = Len(Keys) /\ f = Flat(Merged(l))
  OBVIOUS
<1>3. l \in Seq(Entry) /\ h \in Nat
  BY <1>1, <1>2, KeysMean
<1>4. Places(l, h, f)
  <2>1. Places(l, Len(Keys), Flat(Merged(l)))
    BY <1>3, MergedPlaces
  <2>2. QED BY <1>2, <2>1
<1>5. \A k \in 1..h : NameAt(l, h, f, k)
  <2>1. Places(l, Len(Keys), f)
    BY <1>2, <1>4
  <2>2. \A k \in 1..Len(Keys) : NameAt(l, Len(Keys), f, k)
    BY <1>3, <2>1, NamePlaces
  <2>3. QED BY <1>2, <2>2
<1>6. PICK E : E = f[h]
  OBVIOUS
<1>7. sorted_entries(headers) = E
  <2>1. sorted_entries(l) = Flat(Merged(l))[Len(Keys)]
    BY <1>3, EntriesAre
  <2>2. QED BY <1>1, <1>2, <1>6, <2>1
<1>8. E \in Seq(Given) /\ Len(E) \in Nat /\ DOMAIN E = 1..Len(E)
  <2>1. h \in 0..h
    BY <1>3
  <2>2. E \in Seq(Given)
    BY <1>4, <1>6, <2>1 DEF Places
  <2>3. QED BY <2>2
<1>9. ASSUME NEW n \in ToSet(Keys) \ {Cookie}, ~Hidden(n)
      PROVE  /\ has(n) <=> Cardinality({j \in DOMAIN E : E[j].name = n}) = 1
             /\ has(n) => Header(n, get(n)) \in ToSet(E)
  <2>1. PICK k \in 1..h : Keys[k] = n
    BY <1>2, KeysMean
  <2>2. PICK g, b, c : g = Named(l, n) /\ b = Len(f[k - 1]) /\ c = Len(f[k])
    OBVIOUS
  <2>3. /\ c \in Nat /\ b \in Nat /\ c <= Len(E) /\ c = b + (IF g = <<>> THEN 0 ELSE 1)
        /\ \A j \in 1..Len(E) : E[j].name = n <=> b < j /\ j <= c
    <3>1. NameAt(l, h, f, k)
      BY <1>5
    <3>2. n # Cookie
      OBVIOUS
    <3>3. QED BY <1>6, <2>1, <2>2, <3>1, <3>2 DEF NameAt
  <2>4. has(n) <=> g # <<>>
    BY <1>1, <1>9, <2>2 DEF has, Holds
  <2> DEFINE P == {j \in DOMAIN E : E[j].name = n}
  <2>5. CASE g = <<>>
    <3>1. P = {}
      BY <1>8, <2>3, <2>5
    <3> HIDE DEF P
    <3>2. Cardinality(P) = 0
      <4>1. Cardinality({}) = 0
        BY FS_EmptySet
      <4>2. QED BY <3>1, <4>1
    <3>3. QED BY <2>4, <2>5, <3>2 DEF P
  <2>6. CASE g # <<>>
    <3>1. c \in 1..Len(E) /\ c = b + 1 /\ c \in DOMAIN E
      BY <1>8, <2>3, <2>6
    <3>2. P = {c}
      BY <1>8, <2>3, <3>1
    <3>3. Cardinality(P) = 1
      <4> HIDE DEF P
      <4>1. Cardinality({c}) = 1
        BY FS_Singleton
      <4>2. QED BY <3>2, <4>1
    <3>4. E[c] = Header(n, get(n))
      <4>1. PICK z : z = Len(g)
        OBVIOUS
      <4>2. Merged(l)[k] = Joined(g, n, z) /\ g \in Seq(Entry) /\ z \in Nat
        <5>1. k \in 1..Len(Keys)
          BY <1>2
        <5>2. /\ Groups(l)[k] = Named(l, Keys[k]) /\ Groups(l)[k] \in Seq(Entry) /\ Len(Groups(l)[k]) \in Nat
              /\ Merged(l)[k] = Joined(Groups(l)[k], Keys[k], Len(Groups(l)[k]))
          BY <1>3, <5>1, GroupsMean
        <5>3. QED BY <2>1, <2>2, <4>1, <5>2
      <4>3. z # 0
        BY <2>6, <4>1, <4>2, EmptySeq
      <4>4. PICK v : v = [j \in 1..z |-> g[j].value]
        OBVIOUS
      <4>5. Joined(g, n, z) = <<Header(n, v)>>
        BY <4>3, <4>4 DEF Joined
      <4>6. get(n) = v
        <5>1. get(n) = [j \in DOMAIN g |-> g[j].value]
          BY <1>1, <1>9, <2>2 DEF get
        <5>2. DOMAIN g = 1..z
          BY <4>1, <4>2
        <5>3. QED BY <4>4, <5>1, <5>2
      <4>7. PICK y : y = Merged(l)[k]
        OBVIOUS
      <4>8. y = <<Header(n, v)>> /\ Len(y) = 1 /\ y[1] = Header(n, v)
        BY <4>2, <4>5, <4>7
      <4>9. E[b + 1] = y[1]
        <5>1. \A j \in 1..Len(y) : f[h][Len(f[k - 1]) + j] = y[j]
          BY <1>4, <4>7 DEF Places
        <5>2. 1 \in 1..Len(y)
          BY <4>8
        <5>3. QED BY <1>6, <2>2, <5>1, <5>2
      <4>10. QED BY <3>1, <4>6, <4>8, <4>9
    <3>5. E[c] \in ToSet(E)
      BY <3>1 DEF ToSet
    <3>6. QED BY <2>4, <2>6, <3>3, <3>4, <3>5
  <2>7. QED BY <2>5, <2>6
<1>10. /\ Len(get_set_cookie) = Len(Named(E, Cookie))
       /\ ~Hidden(Cookie) => Len(get(Cookie)) = Len(Named(E, Cookie))
  <2>1. PICK k \in 1..h : Keys[k] = Cookie
    BY <1>2, KeysMean
  <2>2. PICK g, b, c : g = Named(l, Cookie) /\ b = Len(f[k - 1]) /\ c = Len(g)
    OBVIOUS
  <2>3. g \in Seq(Entry) /\ c \in Nat /\ DOMAIN g = 1..c
    <3>1. g \in Seq(Entry)
      BY <1>3, <2>2, NamedMeans
    <3>2. QED BY <2>2, <3>1
  <2>4. b \in Nat /\ b + c <= Len(E) /\ \A j \in 1..Len(E) : E[j].name = Cookie <=> b < j /\ j <= b + c
    <3>1. NameAt(l, h, f, k)
      BY <1>5
    <3>2. QED BY <1>6, <2>1, <2>2, <3>1 DEF NameAt
  <2> DEFINE S == {j \in DOMAIN E : E[j].name = Cookie}
  <2>5. \A j \in 1..Len(E) : j \in S <=> b < j /\ j <= b + c
    BY <1>8, <2>4
  <2>6. Named(E, Cookie) = Chosen(E, S)
    BY DEF Named
  <2> HIDE DEF S
  <2>7. Len(Chosen(E, S)) = c
    BY <1>8, <2>3, <2>4, <2>5, ChosenRange
  <2>8. Len(get_set_cookie) = c
    <3>1. get_set_cookie = [j \in 1..c |-> g[j].value]
      BY <1>1, <2>2, <2>3 DEF get_set_cookie
    <3>2. QED BY <2>3, <3>1
  <2>8a. ~Hidden(Cookie) => get(Cookie) = get_set_cookie
    BY DEF get, get_set_cookie
  <2>9. QED BY <2>6, <2>7, <2>8, <2>8a
<1>11. QED BY <1>7, <1>9, <1>10 DEF ReadersAgree

-----------------------------------------------------------------------------
\* The types. A name that was there all along is there.
HeadersTypeOK ==
  /\ headers \in Seq(Entry) /\ guard \in Guards
  /\ at \in Nat /\ removed \in BOOLEAN /\ seen \subseteq ToSet(Keys)
  /\ constant \subseteq NamesOf(headers)

\* A live iteration has given such a name or is not yet past it.
StillAhead ==
  at > 0 /\ ~removed =>
    \A k \in 1..Len(Keys) :
      Keys[k] \in constant => Keys[k] \in seen \/ at <= Len(Flat(Merged(headers))[k])

\* The inductive invariant.
HeadersInv == HeadersTypeOK /\ StillAhead

\* It holds at the start.
LEMMA HeadersStart == HeadersInit => HeadersInv
<1> SUFFICES ASSUME HeadersInit PROVE HeadersInv
  OBVIOUS
<1>1. headers \in Seq(Entry)
  <2>1. CASE headers = <<>>
    BY <2>1
  <2>2. CASE headers # <<>>
    <3>1. PICK n, m \in ToSet(Keys) : headers = <<Header(n, Plain), Header(m, Plain)>>
      BY <2>2 DEF HeadersInit
    <3>2. Header(n, Plain) \in Entry /\ Header(m, Plain) \in Entry
      BY DEF Header, Entry
    <3>3. QED BY <3>1, <3>2
  <2>3. QED BY <2>1, <2>2
<1>2. guard \in Guards /\ at = 0 /\ seen = {} /\ constant = {} /\ removed = FALSE
  BY DEF HeadersInit
<1>3. HeadersTypeOK
  BY <1>1, <1>2 DEF HeadersTypeOK
<1>4. ~(at > 0)
  BY <1>2
<1>5. StillAhead
  BY <1>4 DEF StillAhead
<1>6. QED BY <1>3, <1>5 DEF HeadersInv

\* A change moves all entries from its name on by as much: unless one goes, none comes back
\* under the iteration.
LEMMA ChangeKeeps ==
  ASSUME HeadersInv, NEW l \in Seq(Entry), NEW n \in ToSet(Keys), NEW v, HeadersTo(l, n, v),
         \A m \in ToSet(Keys) \ {n} : Named(l, m) = Named(headers, m)
  PROVE  HeadersInv'
<1>1. PICK s, t : s = headers /\ t = headers'
  OBVIOUS
<1>2. s \in Seq(Entry) /\ t \in Seq(Entry) /\ \A m \in ToSet(Keys) \ {n} : Named(t, m) = Named(s, m)
  <2>1. t = s \/ t = l
    BY <1>1 DEF HeadersTo
  <2>2. s \in Seq(Entry)
    BY <1>1 DEF HeadersInv, HeadersTypeOK
  <2>3. QED BY <1>1, <2>1, <2>2
<1>3. /\ constant' = constant \cap NamesOf(t) /\ UNCHANGED <<guard, at, seen>>
      /\ removed' = (removed \/ Len(sorted_entries(t)) < Len(sorted_entries(s)))
  BY <1>1 DEF HeadersTo
<1>4. HeadersTypeOK'
  <2>1. /\ guard \in Guards /\ at \in Nat /\ seen \subseteq ToSet(Keys)
    BY DEF HeadersInv, HeadersTypeOK
  <2>2. guard' \in Guards /\ at' \in Nat /\ seen' \subseteq ToSet(Keys)
    BY <1>3, <2>1
  <2>3. removed' \in BOOLEAN
    BY <1>3, Zenon
  <2>4. headers' \in Seq(Entry) /\ constant' \subseteq NamesOf(headers')
    BY <1>1, <1>2, <1>3
  <2>5. QED BY <2>2, <2>3, <2>4 DEF HeadersTypeOK
<1>5. ASSUME at > 0, ~removed'
      PROVE  \A k \in 1..Len(Keys) :
               Keys[k] \in constant' => Keys[k] \in seen' \/ at <= Len(Flat(Merged(t))[k])
  <2>1. PICK x, y : x = Merged(s) /\ y = Merged(t)
    OBVIOUS
  <2>2. PICK h : h = Len(Keys)
    OBVIOUS
  <2>3. PICK p \in 1..h : Keys[p] = n
    BY <2>2, KeysMean
  <2>4. h \in Nat /\ x \in Seq(Seq(Given)) /\ y \in Seq(Seq(Given)) /\ Len(x) = h /\ Len(y) = h
    BY <1>2, <2>1, <2>2, GroupsMean, KeysMean
  <2>5. ASSUME NEW k \in 1..h, k # p PROVE Len(x[k]) = Len(y[k])
    <3>1. Keys[k] \in ToSet(Keys) \ {n}
      BY <2>2, <2>3, <2>5, KeysMean
    <3>2. Named(t, Keys[k]) = Named(s, Keys[k])
      BY <1>2, <3>1
    <3>3. k \in 1..Len(Keys)
      BY <2>2
    <3>4. /\ x[k] = Joined(Groups(s)[k], Keys[k], Len(Groups(s)[k])) /\ Groups(s)[k] = Named(s, Keys[k])
          /\ y[k] = Joined(Groups(t)[k], Keys[k], Len(Groups(t)[k])) /\ Groups(t)[k] = Named(t, Keys[k])
      BY <1>2, <2>1, <3>3, GroupsMean
    <3>5. QED BY <3>2, <3>4
  <2>6. PICK f, g, d : f = Flat(x) /\ g = Flat(y) /\ d = Len(y[p]) - Len(x[p])
    OBVIOUS
  <2>7. \A k \in 0..h : Len(g[k]) = Len(f[k]) + (IF k >= p THEN d ELSE 0)
    <3>1. \A k \in 0..Len(x) :
            Len(Flat(y)[k]) = Len(Flat(x)[k]) + (IF k >= p THEN Len(y[p]) - Len(x[p]) ELSE 0)
      <4>1. p \in 1..Len(x) /\ Len(x) = Len(y) /\ \A k \in 1..Len(x) : k # p => Len(x[k]) = Len(y[k])
        BY <2>3, <2>4, <2>5
      <4>2. x \in Seq(Seq(Given)) /\ y \in Seq(Seq(Given))
        BY <2>4
      <4>3. QED BY <4>1, <4>2, OnePart
    <3>2. QED BY <2>4, <2>6, <3>1
  <2>8. \A k \in 0..h : Len(f[k]) \in Nat /\ Len(g[k]) \in Nat
    <3>1. \A k \in 0..Len(x) : Flat(x)[k] \in Seq(Given)
      BY <2>4, FlatMeans
    <3>2. \A k \in 0..Len(y) : Flat(y)[k] \in Seq(Given)
      BY <2>4, FlatMeans
    <3>3. \A k \in 0..h : f[k] \in Seq(Given) /\ g[k] \in Seq(Given)
      BY <2>4, <2>6, <3>1, <3>2
    <3>4. QED BY <3>3
  <2>9. d \in Int
    <3>1. x[p] \in Seq(Given) /\ y[p] \in Seq(Given)
      BY <2>3, <2>4
    <3>2. Len(x[p]) \in Nat /\ Len(y[p]) \in Nat
      BY <3>1
    <3>3. QED BY <2>6, <3>2
  <2>10. ~removed /\ ~(Len(g[h]) < Len(f[h]))
    <3>1. sorted_entries(t) = g[h] /\ sorted_entries(s) = f[h]
      BY <1>2, <2>1, <2>2, <2>6, EntriesAre
    <3>2. QED BY <1>3, <1>5, <3>1
  <2>11. d >= 0
    <3>1. h \in 0..h /\ h >= p
      BY <2>3, <2>4
    <3>2. Len(g[h]) = Len(f[h]) + d /\ Len(g[h]) \in Nat /\ Len(f[h]) \in Nat
      BY <2>7, <2>8, <3>1
    <3>3. QED BY <2>9, <2>10, <3>2
  <2>12. \A k \in 1..h : Len(f[k]) <= Len(g[k])
    <3>1. SUFFICES ASSUME NEW k \in 1..h PROVE Len(f[k]) <= Len(g[k])
      OBVIOUS
    <3>2. k \in 0..h
      BY <2>4
    <3>3. PICK b, c : b = Len(f[k]) /\ c = Len(g[k])
      OBVIOUS
    <3>4. b \in Nat /\ c \in Nat
      BY <2>8, <3>2, <3>3
    <3>5. c = b + (IF k >= p THEN d ELSE 0)
      BY <2>7, <3>2, <3>3
    <3>6. c = b + d \/ c = b
      BY <2>9, <3>4, <3>5
    <3>7. b <= c
      BY <2>9, <2>11, <3>4, <3>6
    <3>8. QED BY <3>3, <3>7
  <2>13. \A k \in 1..h : Keys[k] \in constant => Keys[k] \in seen \/ at <= Len(f[k])
    BY <1>1, <1>5, <2>1, <2>2, <2>6, <2>10 DEF HeadersInv, StillAhead
  <2>14. ASSUME NEW k \in 1..h, Keys[k] \in constant' PROVE Keys[k] \in seen' \/ at <= Len(g[k])
    <3>1. Keys[k] \in constant /\ seen' = seen
      BY <1>3, <2>14
    <3>2. Keys[k] \in seen \/ at <= Len(f[k])
      BY <2>13, <3>1
    <3>3. k \in 0..h /\ at \in Nat
      BY <2>4 DEF HeadersInv, HeadersTypeOK
    <3>4. Len(f[k]) \in Nat /\ Len(g[k]) \in Nat /\ Len(f[k]) <= Len(g[k])
      BY <2>8, <2>12, <3>3
    <3>5. QED BY <3>1, <3>2, <3>3, <3>4
  <2>15. QED BY <2>1, <2>2, <2>6, <2>14
<1>6. StillAhead'
  <2>1. at' = at
    BY <1>3
  <2>2. QED BY <1>1, <1>5, <2>1 DEF StillAhead
<1>7. QED BY <1>4, <1>6 DEF HeadersInv

\* The iteration starts before every name, and leaves an entry only when it has given it.
LEMMA IterationKeeps ==
  ASSUME HeadersInv, IterBegin \/ IterNext
  PROVE  HeadersInv'
<1>1. PICK l, h, f : l = headers /\ h = Len(Keys) /\ f = Flat(Merged(l))
  OBVIOUS
<1>2. l \in Seq(Entry) /\ h \in Nat /\ at \in Nat /\ constant \subseteq NamesOf(l)
  BY <1>1, KeysMean DEF HeadersInv, HeadersTypeOK
<1>3. Places(l, h, f)
  <2>1. Places(l, Len(Keys), Flat(Merged(l)))
    BY <1>2, MergedPlaces
  <2>2. QED BY <1>1, <2>1
<1>4. \A k \in 1..h : NameAt(l, h, f, k)
  <2>1. Places(l, Len(Keys), f)
    BY <1>1, <1>3
  <2>2. \A k \in 1..Len(Keys) : NameAt(l, Len(Keys), f, k)
    BY <1>2, <2>1, NamePlaces
  <2>3. QED BY <1>1, <2>2
<1>5. sorted_entries(l) = f[h]
  BY <1>1, <1>2, EntriesAre
\* The last place of a name that is there.
<1>6. ASSUME NEW k \in 1..h, Keys[k] \in NamesOf(l)
      PROVE  Len(f[k]) \in 1..Len(f[h]) /\ f[h][Len(f[k])].name = Keys[k]
  <2>1. PICK z, b, c, e : z = Len(Named(l, Keys[k])) /\ b = Len(f[k - 1]) /\ c = Len(f[k]) /\ e = Len(f[h])
    OBVIOUS
  <2>2. Named(l, Keys[k]) # <<>> /\ z \in Nat \ {0}
    <3>1. PICK n : n = Keys[k]
      OBVIOUS
    <3>2. Named(l, n) \in Seq(Entry) /\ Named(l, n) # <<>>
      BY <1>2, <1>6, <3>1, NamedMeans
    <3>3. Len(Named(l, n)) \in Nat \ {0}
      BY <3>2, EmptySeq
    <3>4. QED BY <2>1, <3>1, <3>2, <3>3
  <2>3. /\ b \in Nat /\ c \in Nat /\ e \in Nat /\ c <= e
        /\ c = b + (IF Keys[k] = Cookie THEN z ELSE 1)
        /\ \A j \in 1..e : f[h][j].name = Keys[k] <=> b < j /\ j <= c
    BY <1>4, <2>1, <2>2 DEF NameAt
  <2>4. c \in 1..e /\ b < c /\ c <= c
    BY <2>2, <2>3
  <2>5. QED BY <2>1, <2>3, <2>4
<1>7. CASE IterBegin
  <2>1. at' = 1 /\ seen' = {} /\ constant' = NamesOf(l) /\ removed' = FALSE /\ headers' = l /\ guard' = guard
    BY <1>1, <1>7 DEF IterBegin
  <2>2. HeadersTypeOK'
    <3>1. guard \in Guards
      BY DEF HeadersInv, HeadersTypeOK
    <3>2. QED BY <1>2, <2>1, <3>1 DEF HeadersTypeOK
  <2>3. \A k \in 1..h : Keys[k] \in NamesOf(l) => 1 <= Len(f[k])
    BY <1>6
  <2>4. StillAhead'
    BY <1>1, <2>1, <2>3 DEF StillAhead
  <2>5. QED BY <2>2, <2>4 DEF HeadersInv
<1>8. CASE IterNext
  <2>1. PICK E : E = f[h]
    OBVIOUS
  <2>2. /\ at \in 1..Len(E) + 1 /\ at' = at + 1
        /\ seen' = seen \cup {E[j].name : j \in {at} \cap DOMAIN E}
        /\ UNCHANGED <<headers, guard, constant, removed>>
    BY <1>1, <1>5, <1>8, <2>1 DEF IterNext
  <2>3. E \in Seq(Given) /\ Len(E) \in Nat /\ DOMAIN E = 1..Len(E)
    <3>1. h \in 0..h
      BY <1>2
    <3>2. E \in Seq(Given)
      BY <1>3, <2>1, <3>1 DEF Places
    <3>3. QED BY <3>2
  <2>4. HeadersTypeOK'
    <3>1. \A j \in DOMAIN E : E[j].name \in ToSet(Keys)
      <4>1. \A j \in DOMAIN E : E[j] \in Given
        BY <2>3
      <4>2. \A d \in Given : d.name \in ToSet(Keys)
        BY DEF Given
      <4>3. QED BY <4>1, <4>2
    <3>2. seen' \subseteq ToSet(Keys)
      <4>1. seen \subseteq ToSet(Keys)
        BY DEF HeadersInv, HeadersTypeOK
      <4>2. QED BY <2>2, <3>1, <4>1
    <3>3. at' \in Nat
      BY <1>2, <2>2
    <3>4. headers' \in Seq(Entry) /\ guard' \in Guards /\ constant' \subseteq NamesOf(headers')
      BY <2>2 DEF HeadersInv, HeadersTypeOK
    <3>5. removed' \in BOOLEAN
      <4>1. removed \in BOOLEAN
        BY DEF HeadersInv, HeadersTypeOK
      <4>2. QED BY <2>2, <4>1, Zenon
    <3>6. QED BY <3>2, <3>3, <3>4, <3>5 DEF HeadersTypeOK
  <2>5. ASSUME ~removed, NEW k \in 1..h, Keys[k] \in constant
        PROVE  Keys[k] \in seen' \/ at + 1 <= Len(f[k])
    <3>1. at > 0
      BY <2>2
    <3>2. Keys[k] \in seen \/ at <= Len(f[k])
      BY <1>1, <2>5, <3>1 DEF HeadersInv, StillAhead
    <3>3. Keys[k] \in NamesOf(l)
      BY <1>2, <2>5
    <3>4. Len(f[k]) \in 1..Len(E) /\ E[Len(f[k])].name = Keys[k]
      BY <1>6, <2>1, <3>3
    <3>5. CASE Keys[k] \in seen
      BY <2>2, <3>5
    <3>6. CASE at = Len(f[k])
      <4>1. at \in {at} \cap DOMAIN E /\ E[at].name = Keys[k]
        BY <2>3, <3>4, <3>6
      <4>2. Keys[k] \in {E[j].name : j \in {at} \cap DOMAIN E}
        BY <4>1
      <4>3. QED BY <2>2, <4>2
    <3>7. CASE at < Len(f[k])
      BY <1>2, <2>3, <3>4, <3>7
    <3>8. QED BY <1>2, <2>3, <3>2, <3>4, <3>5, <3>6, <3>7
  <2>6. StillAhead'
    <3>1. ASSUME ~removed' PROVE \A k \in 1..h : Keys[k] \in constant' => Keys[k] \in seen' \/ at' <= Len(f[k])
      <4>1. ~removed /\ constant' = constant /\ at' = at + 1
        BY <2>2, <3>1
      <4>2. QED BY <2>5, <4>1
    <3>2. headers' = l
      BY <1>1, <2>2
    <3>3. QED BY <1>1, <3>1, <3>2 DEF StillAhead
  <2>7. QED BY <2>4, <2>6 DEF HeadersInv
<1>9. QED BY <1>7, <1>8

\* Every step keeps the invariant.
LEMMA HeadersStep == HeadersInv /\ [HeadersNext]_headerVars => HeadersInv'
<1> SUFFICES ASSUME HeadersInv, [HeadersNext]_headerVars PROVE HeadersInv'
  OBVIOUS
<1>1. CASE UNCHANGED headerVars
  <2>1. UNCHANGED <<headers, guard, at, seen, constant, removed>>
    BY <1>1 DEF headerVars
  <2>2. HeadersTypeOK'
    BY <2>1 DEF HeadersInv, HeadersTypeOK
  <2>3. StillAhead'
    BY <2>1 DEF HeadersInv, StillAhead
  <2>4. QED BY <2>2, <2>3 DEF HeadersInv
<1>2. CASE IterBegin \/ IterNext
  BY <1>2, IterationKeeps
<1>3. headers \in Seq(Entry)
  BY DEF HeadersInv, HeadersTypeOK
<1>4. ASSUME NEW n \in ToSet(Keys), NEW v \in {Plain, Trace}, NEW s \in Seq(Entry),
             \A m \in ToSet(Keys) \ {n} : Named(s, m) = Named(headers, m)
      PROVE  /\ Append(s, Header(n, v)) \in Seq(Entry)
             /\ \A m \in ToSet(Keys) \ {n} : Named(Append(s, Header(n, v)), m) = Named(headers, m)
  <2>1. PICK e : e = Header(n, v)
    OBVIOUS
  <2>2. e \in Entry /\ e.name = n
    BY <2>1 DEF Header, Entry
  <2>3. \A m : Named(Append(s, e), m) = IF e.name = m THEN Append(Named(s, m), e) ELSE Named(s, m)
    BY <2>2, NamedOfAppend
  <2>4. Append(s, e) \in Seq(Entry)
    BY <2>2
  <2>5. \A m \in ToSet(Keys) \ {n} : Named(Append(s, e), m) = Named(headers, m)
    BY <1>4, <2>2, <2>3
  <2>6. QED BY <2>1, <2>4, <2>5
<1>5. ASSUME NEW n \in ToSet(Keys)
      PROVE  /\ Without(headers, n) \in Seq(Entry)
             /\ \A m \in ToSet(Keys) \ {n} : Named(Without(headers, n), m) = Named(headers, m)
  <2>1. \A m : m # n => Without(headers, n) \in Seq(Entry) /\ Named(Without(headers, n), m) = Named(headers, m)
    BY <1>3, NamedOfWithout
  <2>2. Without(headers, n) \in Seq(Entry)
    <3>1. \E m : m # n
      <4>1. Plain # n \/ Trace # n
        BY HeadersAssumption DEF HeadersAssumption
      <4>2. QED BY <4>1
    <3>2. QED BY <2>1, <3>1
  <2>3. QED BY <2>1, <2>2
<1>6. ASSUME NEW n \in ToSet(Keys), HeaderErase(n) PROVE HeadersInv'
  <2>1. HeadersTo(Without(headers, n), n, Plain)
    BY <1>6 DEF HeaderErase
  <2>2. PICK l : l = Without(headers, n)
    OBVIOUS
  <2>3. l \in Seq(Entry) /\ HeadersTo(l, n, Plain) /\ \A m \in ToSet(Keys) \ {n} : Named(l, m) = Named(headers, m)
    BY <1>5, <2>1, <2>2
  <2>4. QED BY <2>3, ChangeKeeps
<1>7. ASSUME NEW n \in ToSet(Keys), NEW v \in {Plain, Trace}, HeaderAppend(n, v) PROVE HeadersInv'
  <2>1. PICK l : l = Append(headers, Header(n, v))
    OBVIOUS
  <2>2. l \in Seq(Entry) /\ \A m \in ToSet(Keys) \ {n} : Named(l, m) = Named(headers, m)
    BY <1>3, <1>4, <2>1
  <2>3. HeadersTo(l, n, v)
    BY <1>7, <2>1 DEF HeaderAppend
  <2>4. QED BY <2>2, <2>3, ChangeKeeps
<1>8. ASSUME NEW n \in ToSet(Keys), NEW v \in {Plain, Trace}, HeaderSet(n, v) PROVE HeadersInv'
  <2>1. PICK s : s = Without(headers, n)
    OBVIOUS
  <2>2. s \in Seq(Entry) /\ \A m \in ToSet(Keys) \ {n} : Named(s, m) = Named(headers, m)
    BY <1>5, <2>1
  <2>3. PICK l : l = Append(s, Header(n, v))
    OBVIOUS
  <2>4. l \in Seq(Entry) /\ \A m \in ToSet(Keys) \ {n} : Named(l, m) = Named(headers, m)
    BY <1>4, <2>2, <2>3
  <2>5. HeadersTo(l, n, v)
    BY <1>8, <2>1, <2>3 DEF HeaderSet
  <2>6. QED BY <2>4, <2>5, ChangeKeeps
<1>9. QED BY <1>1, <1>2, <1>6, <1>7, <1>8 DEF HeadersNext

\* The invariant holds in every reachable state.
THEOREM HeadersInvariant == HeadersSpec => []HeadersInv
BY HeadersStart, HeadersStep, PTL DEF HeadersSpec

\* However the list is changed, has(), get() and iteration, also one under way, agree.
THEOREM HeadersAreExact == HeadersSpec => []HeadersExact
<1>1. HeadersInv => HeadersExact
  <2> SUFFICES ASSUME HeadersInv PROVE HeadersExact
    OBVIOUS
  <2>1. headers \in Seq(Entry) /\ at \in Nat /\ constant \subseteq NamesOf(headers)
    BY DEF HeadersInv, HeadersTypeOK
  <2>2. ReadersAgree
    BY <2>1, ReadingsAgree
  <2>3. ASSUME at > Len(sorted_entries(headers)), ~removed, NEW n \in constant PROVE n \in seen
    <3>1. PICK l, h, f : l = headers /\ h = Len(Keys) /\ f = Flat(Merged(l))
      OBVIOUS
    <3>2. Places(l, h, f)
      <4>1. Places(l, Len(Keys), Flat(Merged(l)))
        BY <2>1, <3>1, MergedPlaces
      <4>2. QED BY <3>1, <4>1
    <3>3. h \in Nat /\ sorted_entries(headers) = f[h]
      BY <2>1, <3>1, EntriesAre, KeysMean
    <3>4. n \in ToSet(Keys)
      <4>1. PICK j \in DOMAIN headers : headers[j].name = n
        BY <2>1 DEF NamesOf
      <4>2. headers[j] \in Entry
        BY <2>1, <4>1
      <4>3. QED BY <4>1, <4>2 DEF Entry
    <3>5. PICK k \in 1..h : Keys[k] = n
      BY <3>1, <3>4, KeysMean
    <3>6. Len(f[k]) \in Nat /\ Len(f[h]) \in Nat /\ Len(f[k]) <= Len(f[h])
      <4>1. k \in 0..h /\ h \in 0..h
        BY <3>3
      <4>2. QED BY <3>2, <4>1 DEF Places
    <3>7. at > Len(f[h])
      BY <2>3, <3>3
    <3>8. at > 0 /\ ~(at <= Len(f[k]))
      BY <2>1, <3>6, <3>7
    <3>9. n \in seen \/ at <= Len(f[k])
      BY <2>3, <3>1, <3>5, <3>8 DEF HeadersInv, StillAhead
    <3>10. QED BY <3>8, <3>9
  <2>4. IterationSkipsNothing
    BY <2>3 DEF IterationSkipsNothing
  <2>5. QED BY <2>2, <2>4 DEF HeadersExact
<1>2. QED BY <1>1, HeadersInvariant, PTL

-----------------------------------------------------------------------------
(***************************************************************************)
(* A URL and its params. A list that is sent as a query and decoded again  *)
(* is the same list: percent_encode leaves no ampersand and no equals sign *)
(* in a text, so the query is split where it was joined, and each escaped  *)
(* character is told by its two digits. The loops are recursive functions, *)
(* and what they compute follows by the least place at which they would    *)
(* differ.                                                                 *)
(***************************************************************************)

\* The characters a query is sent in.
Sent == Characters \cup {"%", "+", "&", "=", "0", "1", "2", "3", "4", "5", "6", "B", "D"}

\* Each of the escaped characters has two digits of its own.
LEMMA HexMeans ==
  /\ DOMAIN Hex = {"space", "%", "&", "+", "=", "A"}
  /\ \A c \in DOMAIN Hex :
       /\ Hex[c] = <<Hex[c][1], Hex[c][2]>>
       /\ Hex[c][1] \in {"2", "3", "4"} /\ Hex[c][2] \in {"0", "5", "6", "B", "D", "1"}
  /\ \A c, d \in DOMAIN Hex : Hex[c] = Hex[d] => c = d
<1>1. DOMAIN Hex = {"space", "%", "&", "+", "=", "A"}
  BY DEF Hex
<1>2. /\ Hex["space"] = <<"2", "0">> /\ Hex["%"] = <<"2", "5">> /\ Hex["&"] = <<"2", "6">>
      /\ Hex["+"] = <<"2", "B">> /\ Hex["="] = <<"3", "D">> /\ Hex["A"] = <<"4", "1">>
  BY DEF Hex
<1>3. /\ <<"2", "0">>[1] = "2" /\ <<"2", "0">>[2] = "0" /\ <<"2", "5">>[1] = "2" /\ <<"2", "5">>[2] = "5"
      /\ <<"2", "6">>[1] = "2" /\ <<"2", "6">>[2] = "6" /\ <<"2", "B">>[1] = "2" /\ <<"2", "B">>[2] = "B"
      /\ <<"3", "D">>[1] = "3" /\ <<"3", "D">>[2] = "D" /\ <<"4", "1">>[1] = "4" /\ <<"4", "1">>[2] = "1"
  OBVIOUS
<1>4. /\ Hex["space"][1] = "2" /\ Hex["space"][2] = "0" /\ Hex["%"][1] = "2" /\ Hex["%"][2] = "5"
      /\ Hex["&"][1] = "2" /\ Hex["&"][2] = "6" /\ Hex["+"][1] = "2" /\ Hex["+"][2] = "B"
      /\ Hex["="][1] = "3" /\ Hex["="][2] = "D" /\ Hex["A"][1] = "4" /\ Hex["A"][2] = "1"
  BY <1>2, <1>3
<1>5. ASSUME NEW c \in DOMAIN Hex
      PROVE  /\ Hex[c] = <<Hex[c][1], Hex[c][2]>>
             /\ Hex[c][1] \in {"2", "3", "4"} /\ Hex[c][2] \in {"0", "5", "6", "B", "D", "1"}
  <2>1. Hex[c] = <<Hex[c][1], Hex[c][2]>>
    BY <1>1, <1>2, <1>4
  <2>2. Hex[c][1] \in {"2", "3", "4"} /\ Hex[c][2] \in {"0", "5", "6", "B", "D", "1"}
    BY <1>1, <1>4
  <2>3. QED BY <2>1, <2>2
<1>6. ASSUME NEW c \in DOMAIN Hex, NEW d \in DOMAIN Hex, Hex[c] = Hex[d] PROVE c = d
  <2>1. Hex[c][1] = Hex[d][1] /\ Hex[c][2] = Hex[d][2]
    BY <1>6
  <2>2. QED BY <1>1, <1>4, <2>1
<1>7. QED BY <1>1, <1>5, <1>6

\* What a character is sent as.
Escaped(c) == IF c = "space" THEN <<"+">> ELSE IF c \in DOMAIN Hex \ {"A"} THEN <<"%">> \o Hex[c] ELSE <<c>>

\* A sequence of one.
LEMMA One ==
  ASSUME NEW S, NEW x \in S
  PROVE  <<x>> \in Seq(S) /\ Len(<<x>>) = 1 /\ <<x>>[1] = x
OBVIOUS

\* One and two make three.
LEMMA OneAndTwo ==
  ASSUME NEW x, NEW y, NEW z
  PROVE  <<x>> \o <<y, z>> = <<x, y, z>>
<1> DEFINE S == {x, y, z}
<1>1. <<x>> \in Seq(S) /\ <<y, z>> \in Seq(S) /\ <<x, y, z>> \in Seq(S)
  OBVIOUS
<1>2. <<x>> \o <<y, z>> \in Seq(S) /\ Len(<<x>> \o <<y, z>>) = 3
  BY <1>1
<1>3. \A j \in 1..3 : (<<x>> \o <<y, z>>)[j] = <<x, y, z>>[j]
  BY <1>1
<1>4. QED
  <2> DEFINE p == <<x>> \o <<y, z>>
             q == <<x, y, z>>
  <2>1. p \in Seq(S) /\ q \in Seq(S) /\ Len(p) = Len(q) /\ \A j \in 1..Len(p) : p[j] = q[j]
    BY <1>1, <1>2, <1>3
  <2> HIDE DEF p, q
  <2>2. p = q
    BY <2>1
  <2>3. QED BY <2>2 DEF p, q

\* One character or three, and no separator among them.
LEMMA EscapedMeans ==
  ASSUME NEW c \in Characters
  PROVE  /\ Escaped(c) \in Seq(Sent)
         /\ \A j \in 1..Len(Escaped(c)) : Escaped(c)[j] \notin {"&", "="}
         /\ \/ Escaped(c) = <<"+">> /\ c = "space"
            \/ Escaped(c) = <<c>> /\ c \notin {"space", "%", "+"}
            \/ Escaped(c) = <<"%", Hex[c][1], Hex[c][2]>> /\ c \in DOMAIN Hex
<1>1. DOMAIN Hex = {"space", "%", "&", "+", "=", "A"}
  BY HexMeans
<1>2. CASE c = "space"
  <2>1. Escaped(c) = <<"+">>
    BY <1>2 DEF Escaped
  <2>2. "+" \in Sent
    BY DEF Sent
  <2>3. <<"+">> \in Seq(Sent) /\ Len(<<"+">>) = 1 /\ <<"+">>[1] = "+"
    BY <2>2, One
  <2>4. \A j \in 1..Len(Escaped(c)) : Escaped(c)[j] \notin {"&", "="}
    BY <2>1, <2>3
  <2>5. QED BY <1>2, <2>1, <2>3, <2>4
<1>3. CASE c # "space" /\ c \in DOMAIN Hex \ {"A"}
  <2>1. PICK x, y : x = Hex[c][1] /\ y = Hex[c][2]
    OBVIOUS
  <2>2. Hex[c] = <<x, y>> /\ x \in {"2", "3", "4"} /\ y \in {"0", "5", "6", "B", "D", "1"}
    BY <1>3, <2>1, HexMeans
  <2>3. Escaped(c) = <<"%">> \o <<x, y>>
    BY <1>3, <2>2 DEF Escaped
  <2>4. Escaped(c) = <<"%", x, y>>
    BY <2>3, OneAndTwo
  <2>5. "%" \in Sent /\ x \in Sent /\ y \in Sent
    BY <2>2 DEF Sent
  <2>6. <<"%", x, y>> \in Seq(Sent)
    BY <2>5
  <2>7. \A j \in 1..Len(<<"%", x, y>>) : <<"%", x, y>>[j] \notin {"&", "="}
    <3>1. x \notin {"&", "="} /\ y \notin {"&", "="}
      BY <2>2
    <3>2. QED BY <3>1
  <2>8. QED BY <1>3, <2>1, <2>4, <2>6, <2>7
<1>4. CASE c # "space" /\ c \notin DOMAIN Hex \ {"A"}
  <2>1. Escaped(c) = <<c>>
    BY <1>4 DEF Escaped
  <2>2. c \in Sent /\ c \notin {"space", "%", "+", "&", "="}
    BY <1>1, <1>4 DEF Sent
  <2>3. <<c>> \in Seq(Sent) /\ Len(<<c>>) = 1 /\ <<c>>[1] = c
    <3>1. c \in Sent
      BY <2>2
    <3>2. QED BY ONLY <3>1, One
  <2>4. \A j \in 1..Len(Escaped(c)) : Escaped(c)[j] \notin {"&", "="}
    <3>1. <<c>>[1] \notin {"&", "="}
      BY <2>2, <2>3, Zenon
    <3>2. \A j \in 1..1 : j = 1
      OBVIOUS
    <3>3. Len(Escaped(c)) = 1 /\ Escaped(c)[1] \notin {"&", "="}
      BY <2>1, <2>3, <3>1, Zenon
    <3>4. QED BY <3>2, <3>3
  <2>5. QED BY <2>1, <2>2, <2>3, <2>4
<1>5. QED BY <1>2, <1>3, <1>4

\* A text is sent character by character.
Escapes(s) == [k \in DOMAIN s |-> Escaped(s[k])]

LEMMA EncodeMeans ==
  ASSUME NEW s \in Seq(Characters)
  PROVE  /\ Escapes(s) \in Seq(Seq(Sent)) /\ Len(Escapes(s)) = Len(s)
         /\ \A k \in 1..Len(s) : Escapes(s)[k] = Escaped(s[k]) /\ s[k] \in Characters
         /\ percent_encode(s) = Flat(Escapes(s))[Len(s)]
         /\ percent_encode(s) \in Seq(Sent)
         /\ \A j \in 1..Len(percent_encode(s)) : percent_encode(s)[j] \notin {"&", "="}
<1>1. PICK m, h : m = Escapes(s) /\ h = Len(s)
  OBVIOUS
<1>2. h \in Nat /\ DOMAIN s = 1..h /\ \A k \in 1..h : s[k] \in Characters
  BY <1>1
<1>3. m = [k \in 1..h |-> Escaped(s[k])] /\ \A k \in 1..h : m[k] = Escaped(s[k])
  BY <1>1, <1>2 DEF Escapes
<1>4. \A k \in 1..h : m[k] \in Seq(Sent)
  BY <1>2, <1>3, EscapedMeans
<1>5. m \in Seq(Seq(Sent)) /\ Len(m) = h
  BY <1>2, <1>3, <1>4
<1>6. percent_encode(s) = FlattenSeq(m)
  BY <1>1 DEF percent_encode, Escapes, Escaped
<1>7. FlattenSeq(m) = Flat(m)[Len(m)]
  <2>1. m \in Seq(Seq(Sent))
    BY <1>5
  <2>2. QED BY <2>1, FlatIsWhole
<1>8. PICK e : e = percent_encode(s)
  OBVIOUS
<1>9. e = Flat(m)[h] /\ e = Flat(m)[Len(m)]
  BY <1>5, <1>6, <1>7, <1>8
<1>10. e \in Seq(Sent)
  <2>1. \A k \in 0..Len(m) : Flat(m)[k] \in Seq(Sent)
    <3>1. m \in Seq(Seq(Sent))
      BY <1>5
    <3>2. QED BY <3>1, FlatMeans
  <2>2. h \in 0..Len(m)
    BY <1>2, <1>5
  <2>3. QED BY <1>9, <2>1, <2>2
<1>11. ASSUME NEW j \in 1..Len(e) PROVE e[j] \notin {"&", "="}
  <2>1. /\ \A k \in 1..Len(m) :
             /\ Len(Flat(m)[k]) = Len(Flat(m)[k - 1]) + Len(m[k])
             /\ \A i2 \in 1..Len(m[k]) : Flat(m)[Len(m)][Len(Flat(m)[k - 1]) + i2] = m[k][i2]
        /\ \A i2 \in 1..Len(Flat(m)[Len(m)]) :
             \E k \in 1..Len(m) : Len(Flat(m)[k - 1]) < i2 /\ i2 <= Len(Flat(m)[k])
    <3>1. m \in Seq(Seq(Sent))
      BY <1>5
    <3>2. QED BY <3>1, FlatPlaces
  <2>2. PICK k \in 1..h : Len(Flat(m)[k - 1]) < j /\ j <= Len(Flat(m)[k])
    BY <1>5, <1>9, <2>1
  <2>3. PICK b, c : b = Len(Flat(m)[k - 1]) /\ c = Len(m[k])
    OBVIOUS
  <2>4. b \in Nat /\ c \in Nat /\ j \in Nat
    <3>1. k - 1 \in 0..Len(m)
      BY <1>2, <1>5
    <3>2. Flat(m)[k - 1] \in Seq(Sent)
      <4>1. m \in Seq(Seq(Sent))
        BY <1>5
      <4>2. \A n \in 0..Len(m) : Flat(m)[n] \in Seq(Sent)
        BY <4>1, FlatMeans
      <4>3. QED BY <3>1, <4>2
    <3>3. b \in Nat
      BY <2>3, <3>2
    <3>4. c \in Nat
      BY <1>4, <2>3
    <3>5. j \in Nat
      BY <1>10
    <3>6. QED BY <3>3, <3>4, <3>5
  <2>5. b < j /\ j <= b + c
    BY <1>5, <2>1, <2>2, <2>3
  <2>6. j - b \in 1..c /\ b + (j - b) = j
    BY <2>4, <2>5
  <2>7. e[b + (j - b)] = m[k][j - b]
    BY <1>5, <1>9, <2>1, <2>3, <2>6
  <2>8. \A n \in 1..Len(Escaped(s[k])) : Escaped(s[k])[n] \notin {"&", "="}
    BY <1>2, EscapedMeans
  <2>9. m[k][j - b] \notin {"&", "="}
    BY <1>3, <2>3, <2>6, <2>8
  <2>10. QED BY <2>6, <2>7, <2>9
<1>12. QED BY <1>1, <1>2, <1>3, <1>5, <1>8, <1>9, <1>10, <1>11


-----------------------------------------------------------------------------
\* What has been decoded after every character.
Decoded(s) ==
  LET done[j \in 0..Len(s)] ==
        IF j = 0 THEN [out |-> <<>>, skip |-> 0] ELSE DecodeAt(s, j, done[j - 1])
  IN done

\* What a pass of the loop keeps.
LEMMA DecodeAtType ==
  ASSUME NEW C, {"space", "%", "&", "+", "=", "A"} \subseteq C, NEW s \in Seq(C), NEW k \in 1..Len(s),
         NEW v \in [out : Seq(C), skip : Nat]
  PROVE  DecodeAt(s, k, v) \in [out : Seq(C), skip : Nat]
<1>1. v.out \in Seq(C) /\ v.skip \in Nat /\ s[k] \in C
  OBVIOUS
<1>2. CASE v.skip > 0
  <2>1. DecodeAt(s, k, v) = [v EXCEPT !.skip = @ - 1]
    BY <1>2 DEF DecodeAt
  <2>2. v.skip - 1 \in Nat
    BY <1>1, <1>2
  <2>3. QED BY <2>1, <2>2
<1>3. CASE ~(v.skip > 0) /\ IsByte(s, k)
  <2>1. PICK d : d = CHOOSE c \in DOMAIN Hex : Hex[c] = <<s[k + 1], s[k + 2]>>
    OBVIOUS
  <2>2. \E c \in DOMAIN Hex : Hex[c] = <<s[k + 1], s[k + 2]>>
    BY <1>3 DEF IsByte
  <2>3. d \in DOMAIN Hex
    BY <2>1, <2>2, Zenon
  <2>4. d \in C
    BY <2>3, HexMeans
  <2>5. DecodeAt(s, k, v) = [out |-> Append(v.out, d), skip |-> 2]
    BY <1>3, <2>1 DEF DecodeAt
  <2>6. Append(v.out, d) \in Seq(C)
    BY <1>1, <2>4
  <2>7. QED BY <2>5, <2>6
<1>4. CASE ~(v.skip > 0) /\ ~IsByte(s, k)
  <2>1. PICK d : d = IF s[k] = "+" THEN "space" ELSE s[k]
    OBVIOUS
  <2>2. DecodeAt(s, k, v) = [out |-> Append(v.out, d), skip |-> 0]
    BY <1>4, <2>1 DEF DecodeAt
  <2>3. d \in C
    BY <1>1, <2>1
  <2>4. Append(v.out, d) \in Seq(C)
    BY <1>1, <2>3
  <2>5. QED BY <2>2, <2>4
<1>5. QED BY <1>2, <1>3, <1>4

\* It is built from the left, and percent_decode returns the last of it.
LEMMA DecodedMeans ==
  ASSUME NEW C, {"space", "%", "&", "+", "=", "A"} \subseteq C, NEW s \in Seq(C)
  PROVE  /\ percent_decode(s) = Decoded(s)[Len(s)].out
         /\ \A k \in 0..Len(s) : Decoded(s)[k] \in [out : Seq(C), skip : Nat]
         /\ Decoded(s)[0] = [out |-> <<>>, skip |-> 0]
         /\ \A k \in 1..Len(s) : Decoded(s)[k] = DecodeAt(s, k, Decoded(s)[k - 1])
<1> DEFINE h == Len(s)
           V == [out : Seq(C), skip : Nat]
           v0 == [out |-> <<>>, skip |-> 0]
           F == [k \in 1..h |-> [v \in V |-> DecodeAt(s, k, v)]]
           P(r) == r = [i2 \in 0..h |-> IF i2 = 0 THEN [out |-> <<>>, skip |-> 0] ELSE DecodeAt(s, i2, r[i2 - 1])]
<1>1. h \in Nat /\ v0 \in V
  OBVIOUS
<1>2. \A k \in 1..h : \A v \in V : DecodeAt(s, k, v) \in V
  BY DecodeAtType
<1>3. PICK r \in [0..h -> V] : r[0] = v0 /\ \A k \in 1..h : r[k] = F[k][r[k - 1]]
  <2>1. F \in [1..h -> [V -> V]]
    BY <1>2
  <2>2. h \in Nat /\ v0 \in V
    BY <1>1
  <2> HIDE DEF F, V, h, v0
  <2>3. Solvable(h, V, v0, F)
    BY <2>1, <2>2, LineRecursion
  <2>4. QED BY <2>3 DEF Solvable
<1>4. \A k \in 1..h : r[k] = DecodeAt(s, k, r[k - 1])
  <2> SUFFICES ASSUME NEW k \in 1..h PROVE r[k] = DecodeAt(s, k, r[k - 1])
    OBVIOUS
  <2>1. k - 1 \in 0..h
    BY <1>1
  <2>2. r[k - 1] \in V
    BY <2>1
  <2>3. F[k][r[k - 1]] = DecodeAt(s, k, r[k - 1])
    <3> HIDE DEF V, h
    <3> QED BY <2>2
  <2>4. QED BY <1>3, <2>3
<1>5. P(r)
  <2>1. r = [i2 \in 0..h |-> r[i2]]
    OBVIOUS
  <2>2. ASSUME NEW i2 \in 0..h
        PROVE  r[i2] = IF i2 = 0 THEN [out |-> <<>>, skip |-> 0] ELSE DecodeAt(s, i2, r[i2 - 1])
    <3>1. i2 # 0 => i2 \in 1..h
      BY <1>1
    <3>2. QED BY <1>3, <1>4, <3>1
  <2> HIDE DEF h, V
  <2>3. QED BY <2>1, <2>2
<1> DEFINE q == Decoded(s)
<1>6. P(q)
  <2>1. q = CHOOSE x : P(x)
    BY Zenon DEF Decoded
  <2>2. P(CHOOSE x : P(x))
    <3> HIDE DEF P
    <3> QED BY <1>5, Zenon
  <2>3. QED BY ONLY <2>1, <2>2, Zenon
<1>7. \A i2 \in 0..h : q[i2] = IF i2 = 0 THEN [out |-> <<>>, skip |-> 0] ELSE DecodeAt(s, i2, q[i2 - 1])
  <2>1. q = [i2 \in 0..h |-> IF i2 = 0 THEN [out |-> <<>>, skip |-> 0] ELSE DecodeAt(s, i2, q[i2 - 1])]
    BY <1>6, Zenon
  <2> HIDE DEF q, h
  <2>2. QED BY <2>1
<1>8. percent_decode(s) = q[h].out
  BY Zenon DEF percent_decode, Decoded
<1> HIDE DEF q
<1>9. q[0] = v0 /\ \A k \in 1..h : q[k] = DecodeAt(s, k, q[k - 1])
  <2>1. 0 \in 0..h /\ \A k \in 1..h : k \in 0..h /\ k # 0
    BY <1>1
  <2> HIDE DEF h
  <2>2. QED BY <1>7, <2>1
<1>10. \A k \in 0..h : q[k] \in V
  <2> DEFINE W == {k \in 0..h : q[k] \in V}
  <2> HIDE DEF V, h, v0
  <2>1. 0 \in W
    <3>1. 0 \in 0..h
      BY <1>1
    <3>2. q[0] \in V
      BY <1>1, <1>9, <3>1
    <3>3. QED BY <3>1, <3>2
  <2>2. ASSUME NEW k \in 1..h, k - 1 \in W PROVE k \in W
    <3>1. q[k - 1] \in V
      BY <2>2
    <3>2. q[k] \in V
      BY <1>2, <1>9, <3>1
    <3>3. k \in 0..h
      BY <1>1
    <3>4. QED BY <3>2, <3>3
  <2>3. \A k \in 0..h : k \in W
    <3> HIDE DEF W
    <3> QED BY <1>1, <2>1, <2>2, UpTo
  <2>4. QED BY <2>3
<1>11. QED BY <1>8, <1>9, <1>10 DEF q

\* So it gives a text.
LEMMA DecodeType ==
  ASSUME NEW C, {"space", "%", "&", "+", "=", "A"} \subseteq C, NEW s \in Seq(C)
  PROVE  percent_decode(s) \in Seq(C)
<1>1. percent_decode(s) = Decoded(s)[Len(s)].out /\ \A k \in 0..Len(s) : Decoded(s)[k] \in [out : Seq(C), skip : Nat]
  BY DecodedMeans
<1>2. Len(s) \in 0..Len(s)
  OBVIOUS
<1>3. Decoded(s)[Len(s)] \in [out : Seq(C), skip : Nat]
  BY <1>1, <1>2
<1>4. QED BY <1>1, <1>3


\* The three ways through the loop: what is passed over,
LEMMA DecodePasses ==
  ASSUME NEW s, NEW k, NEW o, NEW n \in Nat, n > 0
  PROVE  DecodeAt(s, k, [out |-> o, skip |-> n]) = [out |-> o, skip |-> n - 1]
BY DEF DecodeAt

\* what stands for itself,
LEMMA DecodePlain ==
  ASSUME NEW s, NEW k, NEW o, s[k] # "%"
  PROVE  DecodeAt(s, k, [out |-> o, skip |-> 0])
           = [out |-> Append(o, IF s[k] = "+" THEN "space" ELSE s[k]), skip |-> 0]
<1>1. ~IsByte(s, k)
  BY DEF IsByte
<1>2. PICK v : v = [out |-> o, skip |-> 0]
  OBVIOUS
<1>3. v.out = o /\ ~(v.skip > 0)
  BY <1>2
<1>4. DecodeAt(s, k, v) = [out |-> Append(v.out, IF s[k] = "+" THEN "space" ELSE s[k]), skip |-> 0]
  BY <1>1, <1>3, Zenon DEF DecodeAt
<1>5. QED BY <1>2, <1>3, <1>4

\* and what two digits stand for.
LEMMA DecodeByte ==
  ASSUME NEW s, NEW k, NEW o, NEW c \in DOMAIN Hex,
         s[k] = "%", k + 2 <= Len(s), Hex[c] = <<s[k + 1], s[k + 2]>>
  PROVE  DecodeAt(s, k, [out |-> o, skip |-> 0]) = [out |-> Append(o, c), skip |-> 2]
<1>1. IsByte(s, k)
  BY Zenon DEF IsByte
<1>2. PICK v : v = [out |-> o, skip |-> 0]
  OBVIOUS
<1>3. v.out = o /\ ~(v.skip > 0)
  BY <1>2
<1>4. PICK d : d = CHOOSE x \in DOMAIN Hex : Hex[x] = <<s[k + 1], s[k + 2]>>
  OBVIOUS
<1>5. d \in DOMAIN Hex /\ Hex[d] = <<s[k + 1], s[k + 2]>>
  BY <1>4, Zenon
<1>6. d = c
  <2>1. Hex[d] = Hex[c]
    BY <1>5, Zenon
  <2>2. QED BY <1>5, <2>1, HexMeans, Zenon
<1>7. DecodeAt(s, k, v) = [out |-> Append(v.out, d), skip |-> 2]
  BY <1>1, <1>3, <1>4, Zenon DEF DecodeAt
<1>8. QED BY <1>2, <1>3, <1>6, <1>7, Zenon

\* What a character is sent as is decoded to it.
LEMMA DecodeEscaped ==
  ASSUME NEW e \in Seq(Sent), NEW c \in Characters, NEW b \in Nat, b + Len(Escaped(c)) <= Len(e),
         \A n \in 1..Len(Escaped(c)) : e[b + n] = Escaped(c)[n],
         NEW o, Decoded(e)[b] = [out |-> o, skip |-> 0]
  PROVE  Decoded(e)[b + Len(Escaped(c))] = [out |-> Append(o, c), skip |-> 0]
<1>1. PICK f, h : f = Decoded(e) /\ h = Len(e)
  OBVIOUS
<1>2. \A k \in 1..h : f[k] = DecodeAt(e, k, f[k - 1])
  <2>1. {"space", "%", "&", "+", "=", "A"} \subseteq Sent
    BY HexMeans, UrlAssumption DEF UrlAssumption, Sent
  <2>2. \A k \in 1..Len(e) : Decoded(e)[k] = DecodeAt(e, k, Decoded(e)[k - 1])
    BY <2>1, DecodedMeans
  <2>3. QED BY <1>1, <2>2
<1>3. h \in Nat
  BY <1>1
<1>4. f[b] = [out |-> o, skip |-> 0]
  BY <1>1
<1>5. ASSUME NEW x, Escaped(c) = <<x>>, (x = "+" /\ c = "space") \/ (x = c /\ c \notin {"space", "%", "+"})
      PROVE  f[b + Len(Escaped(c))] = [out |-> Append(o, c), skip |-> 0]
  <2>1. Len(<<x>>) = 1 /\ <<x>>[1] = x
    OBVIOUS
  <2>2. e[b + 1] = x /\ b + 1 <= h
    BY <1>1, <1>5, <2>1
  <2>3. b + 1 \in 1..h /\ b + 1 - 1 = b
    BY <1>3, <2>2
  <2>4. f[b + 1] = DecodeAt(e, b + 1, f[b])
    BY <1>2, <2>3
  <2>5. DecodeAt(e, b + 1, [out |-> o, skip |-> 0])
          = [out |-> Append(o, IF e[b + 1] = "+" THEN "space" ELSE e[b + 1]), skip |-> 0]
    <3>1. e[b + 1] # "%"
      BY <1>5, <2>2
    <3>2. QED BY <3>1, DecodePlain
  <2>6. (IF e[b + 1] = "+" THEN "space" ELSE e[b + 1]) = c
    BY <1>5, <2>2
  <2>7. Len(Escaped(c)) = 1
    BY <1>5, <2>1
  <2>8. QED BY <1>4, <2>4, <2>5, <2>6, <2>7, Zenon
<1>6. ASSUME c \in DOMAIN Hex, Escaped(c) = <<"%", Hex[c][1], Hex[c][2]>>
      PROVE  f[b + Len(Escaped(c))] = [out |-> Append(o, c), skip |-> 0]
  <2>1. PICK x, y : x = Hex[c][1] /\ y = Hex[c][2]
    OBVIOUS
  <2>2. Hex[c] = <<x, y>> /\ Escaped(c) = <<"%", x, y>>
    BY <1>6, <2>1, HexMeans
  <2>3. /\ Len(<<"%", x, y>>) = 3
        /\ <<"%", x, y>>[1] = "%" /\ <<"%", x, y>>[2] = x /\ <<"%", x, y>>[3] = y
    OBVIOUS
  <2>4. e[b + 1] = "%" /\ e[b + 2] = x /\ e[b + 3] = y /\ b + 3 <= h
    BY <1>1, <2>2, <2>3
  <2>5. /\ b + 1 \in 1..h /\ b + 2 \in 1..h /\ b + 3 \in 1..h
        /\ b + 1 - 1 = b /\ b + 2 - 1 = b + 1 /\ b + 3 - 1 = b + 2
        /\ b + 1 + 1 = b + 2 /\ b + 1 + 2 = b + 3
    BY <1>3, <2>4
  <2>6. f[b + 1] = DecodeAt(e, b + 1, f[b]) /\ f[b + 2] = DecodeAt(e, b + 2, f[b + 1])
        /\ f[b + 3] = DecodeAt(e, b + 3, f[b + 2])
    BY <1>2, <2>5
  <2>7. f[b + 1] = [out |-> Append(o, c), skip |-> 2]
    <3>1. /\ e[b + 1] = "%" /\ b + 1 + 2 <= Len(e) /\ Hex[c] = <<e[b + 1 + 1], e[b + 1 + 2]>>
      BY <1>1, <2>2, <2>4, <2>5
    <3>2. c \in DOMAIN Hex
      BY <1>6
    <3>3. DecodeAt(e, b + 1, [out |-> o, skip |-> 0]) = [out |-> Append(o, c), skip |-> 2]
      <4>1. PICK p : p = b + 1
        OBVIOUS
      <4>2. e[p] = "%" /\ p + 2 <= Len(e) /\ Hex[c] = <<e[p + 1], e[p + 2]>>
        BY <3>1, <4>1
      <4>3. DecodeAt(e, p, [out |-> o, skip |-> 0]) = [out |-> Append(o, c), skip |-> 2]
        BY ONLY <3>2, <4>2, DecodeByte
      <4>4. QED BY <4>1, <4>3
    <3>4. QED BY <1>4, <2>6, <3>3, Zenon
  <2>8. f[b + 2] = [out |-> Append(o, c), skip |-> 1]
    <3>1. 2 \in Nat /\ 2 > 0 /\ 2 - 1 = 1
      OBVIOUS
    <3>2. DecodeAt(e, b + 2, [out |-> Append(o, c), skip |-> 2]) = [out |-> Append(o, c), skip |-> 2 - 1]
      <4>1. PICK p, q, n : p = b + 2 /\ q = Append(o, c) /\ n = 2
        OBVIOUS
      <4>2. n \in Nat /\ n > 0
        BY <4>1
      <4>3. DecodeAt(e, p, [out |-> q, skip |-> n]) = [out |-> q, skip |-> n - 1]
        BY ONLY <4>2, DecodePasses
      <4>4. QED BY <4>1, <4>3
    <3>3. QED BY <2>6, <2>7, <3>1, <3>2, Zenon
  <2>9. f[b + 3] = [out |-> Append(o, c), skip |-> 0]
    <3>1. 1 \in Nat /\ 1 > 0 /\ 1 - 1 = 0
      OBVIOUS
    <3>2. DecodeAt(e, b + 3, [out |-> Append(o, c), skip |-> 1]) = [out |-> Append(o, c), skip |-> 1 - 1]
      <4>1. PICK p, q, n : p = b + 3 /\ q = Append(o, c) /\ n = 1
        OBVIOUS
      <4>2. n \in Nat /\ n > 0
        BY <4>1
      <4>3. DecodeAt(e, p, [out |-> q, skip |-> n]) = [out |-> q, skip |-> n - 1]
        BY ONLY <4>2, DecodePasses
      <4>4. QED BY <4>1, <4>3
    <3>3. QED BY <2>6, <2>8, <3>1, <3>2, Zenon
  <2>10. Len(Escaped(c)) = 3
    BY <2>2, <2>3
  <2>11. QED BY <2>9, <2>10, Zenon
<1>7. f[b + Len(Escaped(c))] = [out |-> Append(o, c), skip |-> 0]
  <2>1. CASE Escaped(c) = <<"+">> /\ c = "space"
    BY <1>5, <2>1
  <2>2. CASE Escaped(c) = <<c>> /\ c \notin {"space", "%", "+"}
    BY <1>5, <2>2
  <2>3. CASE Escaped(c) = <<"%", Hex[c][1], Hex[c][2]>> /\ c \in DOMAIN Hex
    BY <1>6, <2>3
  <2>4. QED BY <2>1, <2>2, <2>3, EscapedMeans, Zenon
<1>8. QED BY <1>1, <1>7

\* A text that is encoded and decoded is what it was.
LEMMA DecodeEncode ==
  ASSUME NEW s \in Seq(Characters)
  PROVE  percent_decode(percent_encode(s)) = s
<1>1. PICK m, h, e : m = Escapes(s) /\ h = Len(s) /\ e = percent_encode(s)
  OBVIOUS
<1>2. PICK f, g : f = Flat(m) /\ g = Decoded(e)
  OBVIOUS
<1>3. /\ m \in Seq(Seq(Sent)) /\ Len(m) = h /\ h \in Nat /\ e = f[h] /\ e \in Seq(Sent)
      /\ \A k \in 1..h : m[k] = Escaped(s[k]) /\ s[k] \in Characters
  BY <1>1, <1>2, EncodeMeans
<1>4. /\ \A k \in 0..h : f[k] \in Seq(Sent)
      /\ f[0] = <<>>
  BY <1>2, <1>3, FlatMeans
<1>5. \A k \in 1..h : /\ Len(f[k]) = Len(f[k - 1]) + Len(m[k])
                      /\ \A n \in 1..Len(m[k]) : f[h][Len(f[k - 1]) + n] = m[k][n]
  <2>1. m \in Seq(Seq(Sent))
    BY <1>3
  <2>2. \A k \in 1..Len(m) :
          /\ Len(Flat(m)[k]) = Len(Flat(m)[k - 1]) + Len(m[k])
          /\ \A n \in 1..Len(m[k]) : Flat(m)[Len(m)][Len(Flat(m)[k - 1]) + n] = m[k][n]
    BY <2>1, FlatPlaces
  <2>3. QED BY <1>2, <1>3, <2>2
<1>6. \A k \in 0..h : Len(f[k]) <= Len(f[h])
  <2>1. m \in Seq(Seq(Sent))
    BY <1>3
  <2>2. \A k \in 0..Len(m) : Len(Flat(m)[k]) <= Len(Flat(m)[Len(m)])
    BY <2>1, FlatGrows
  <2>3. QED BY <1>2, <1>3, <2>2
<1>7. g[0] = [out |-> <<>>, skip |-> 0] /\ percent_decode(e) = g[Len(e)].out
  <2>1. {"space", "%", "&", "+", "=", "A"} \subseteq Sent
    BY HexMeans, UrlAssumption DEF UrlAssumption, Sent
  <2>2. percent_decode(e) = Decoded(e)[Len(e)].out /\ Decoded(e)[0] = [out |-> <<>>, skip |-> 0]
    BY <1>3, <2>1, DecodedMeans
  <2>3. QED BY <1>2, <2>2
<1> DEFINE Done(k) == \E o \in Seq(Characters) :
                        /\ g[Len(f[k])] = [out |-> o, skip |-> 0]
                        /\ Len(o) = k /\ \A n \in 1..k : o[n] = s[n]
           W == {k \in 0..h : Done(k)}
<1>8. 0 \in W
  <2>1. Len(f[0]) = 0 /\ 0 \in 0..h /\ <<>> \in Seq(Characters) /\ Len(<<>>) = 0
    BY <1>3, <1>4
  <2>2. g[Len(f[0])] = [out |-> <<>>, skip |-> 0]
    BY <1>7, <2>1
  <2>3. \E o \in Seq(Characters) : /\ g[Len(f[0])] = [out |-> o, skip |-> 0]
                                  /\ Len(o) = 0 /\ \A n \in 1..0 : o[n] = s[n]
    <3>1. PICK o \in Seq(Characters) : o = <<>> /\ Len(o) = 0
      BY <2>1
    <3>2. g[Len(f[0])] = [out |-> o, skip |-> 0]
      BY <2>2, <3>1
    <3>3. \A n \in 1..0 : o[n] = s[n]
      OBVIOUS
    <3>4. QED BY <3>1, <3>2, <3>3, Zenon
  <2>4. QED BY <2>1, <2>3, Zenon
<1>9. ASSUME NEW k \in 1..h, k - 1 \in W PROVE k \in W
  <2>1. k - 1 \in 0..h /\ k \in 0..h /\ k \in Nat
    BY <1>3
  <2>2. PICK o \in Seq(Characters) : /\ g[Len(f[k - 1])] = [out |-> o, skip |-> 0]
                                     /\ Len(o) = k - 1 /\ \A n \in 1..(k - 1) : o[n] = s[n]
    BY <1>9
  <2>3. PICK b, c : b = Len(f[k - 1]) /\ c = s[k]
    OBVIOUS
  <2>4. b \in Nat /\ c \in Characters /\ m[k] = Escaped(c)
    BY <1>3, <1>4, <2>1, <2>3
  <2>5. b + Len(Escaped(c)) = Len(f[k]) /\ b + Len(Escaped(c)) <= Len(e)
    BY <1>3, <1>5, <1>6, <2>1, <2>3, <2>4
  <2>6. \A n \in 1..Len(Escaped(c)) : e[b + n] = Escaped(c)[n]
    BY <1>3, <1>5, <2>3, <2>4
  <2>7. Decoded(e)[b] = [out |-> o, skip |-> 0]
    BY <1>2, <2>2, <2>3
  <2>8. Decoded(e)[b + Len(Escaped(c))] = [out |-> Append(o, c), skip |-> 0]
    BY <1>3, <2>4, <2>5, <2>6, <2>7, DecodeEscaped
  <2>9. g[Len(f[k])] = [out |-> Append(o, c), skip |-> 0]
    BY <1>2, <2>5, <2>8
  <2>10. Append(o, c) \in Seq(Characters) /\ Len(Append(o, c)) = k /\ \A n \in 1..k : Append(o, c)[n] = s[n]
    <3>1. o \in Seq(Characters) /\ Len(o) = k - 1 /\ c = s[k] /\ c \in Characters
      BY <2>2, <2>3, <2>4
    <3>2. Append(o, c) \in Seq(Characters) /\ Len(Append(o, c)) = k
      BY <2>1, <3>1
    <3>3. \A n \in 1..k : n = k \/ n \in 1..(k - 1)
      BY <2>1
    <3>4. Append(o, c)[k] = c /\ \A n \in 1..(k - 1) : Append(o, c)[n] = o[n]
      BY <2>1, <3>1
    <3>5. QED BY <2>2, <3>1, <3>2, <3>3, <3>4
  <2>11. Done(k)
    BY <2>9, <2>10
  <2>12. QED BY <2>1, <2>11
<1>10. \A k \in 0..h : k \in W
  <2> HIDE DEF W
  <2> QED BY <1>3, <1>8, <1>9, UpTo
<1>11. PICK o \in Seq(Characters) : g[Len(f[h])] = [out |-> o, skip |-> 0] /\ Len(o) = h /\ \A n \in 1..h : o[n] = s[n]
  <2>1. h \in 0..h
    BY <1>3
  <2>2. QED BY <1>10, <2>1
<1>12. o = s
  <2>1. o \in Seq(Characters) /\ s \in Seq(Characters) /\ Len(o) = Len(s) /\ \A n \in 1..Len(o) : o[n] = s[n]
    BY <1>1, <1>11
  <2>2. QED BY ONLY <2>1, SeqEqual
<1>13. percent_decode(e) = o
  BY <1>3, <1>7, <1>11
<1>14. QED BY <1>1, <1>12, <1>13


-----------------------------------------------------------------------------
\* Only the last text grows.
LEMMA GrownMeans ==
  ASSUME NEW C, NEW l \in Seq(Seq(C)), Len(l) > 0, NEW x \in C
  PROVE  /\ Grown(l, x) \in Seq(Seq(C)) /\ Len(Grown(l, x)) = Len(l)
         /\ \A k \in 1..Len(l) : Grown(l, x)[k] = IF k = Len(l) THEN Append(l[k], x) ELSE l[k]
<1>1. PICK h, y : h = Len(l) /\ y = Append(l[h], x)
  OBVIOUS
<1>2. h \in 1..Len(l) /\ h \in Nat
  BY <1>1
<1>3. y \in Seq(C)
  <2>1. l[h] \in Seq(C)
    BY <1>2
  <2>2. QED BY <1>1, <2>1
<1>4. Grown(l, x) = [l EXCEPT ![h] = y]
  BY <1>1, <1>2 DEF Grown
<1>5. /\ [l EXCEPT ![h] = y] \in Seq(Seq(C))
      /\ Len([l EXCEPT ![h] = y]) = Len(l)
      /\ \A k \in 1..Len(l) : [l EXCEPT ![h] = y][k] = IF k = h THEN y ELSE l[k]
  BY <1>2, <1>3, ExceptSeq
<1>6. QED BY <1>1, <1>4, <1>5

LEMMA GrownLast ==
  ASSUME NEW C, NEW l \in Seq(Seq(C)), NEW q \in Seq(C), NEW x \in C
  PROVE  Grown(Append(l, q), x) = Append(l, Append(q, x))
<1>1. PICK u, v, g, h : u = Append(l, q) /\ v = Append(l, Append(q, x)) /\ g = Grown(u, x) /\ h = Len(l) + 1
  OBVIOUS
<1>2. PICK r : r = Append(q, x)
  OBVIOUS
<1>3. r \in Seq(C) /\ h \in Nat /\ Len(l) \in Nat
  BY <1>1, <1>2
<1>4. u \in Seq(Seq(C)) /\ Len(u) = h /\ u[h] = q /\ \A k \in 1..Len(l) : u[k] = l[k]
  BY <1>1
<1>5. v \in Seq(Seq(C)) /\ Len(v) = h /\ v[h] = r /\ \A k \in 1..Len(l) : v[k] = l[k]
  BY <1>1, <1>2, <1>3
<1>6. g \in Seq(Seq(C)) /\ Len(g) = h /\ \A k \in 1..h : g[k] = IF k = h THEN Append(u[k], x) ELSE u[k]
  <2>1. Len(u) > 0
    BY <1>3, <1>4, <1>1
  <2>2. /\ Grown(u, x) \in Seq(Seq(C)) /\ Len(Grown(u, x)) = Len(u)
        /\ \A k \in 1..Len(u) : Grown(u, x)[k] = IF k = Len(u) THEN Append(u[k], x) ELSE u[k]
    BY <1>4, <2>1, GrownMeans
  <2>3. QED BY <1>1, <1>4, <2>2
<1>7. \A k \in 1..h : k = h \/ k \in 1..Len(l)
  BY <1>1, <1>3
<1>8. \A k \in 1..h : g[k] = v[k]
  <2> SUFFICES ASSUME NEW k \in 1..h PROVE g[k] = v[k]
    OBVIOUS
  <2>1. CASE k = h
    BY <1>2, <1>4, <1>5, <1>6, <2>1
  <2>2. CASE k # h
    <3>1. k \in 1..Len(l)
      BY <1>7, <2>2
    <3>2. QED BY <1>4, <1>5, <1>6, <2>2, <3>1
  <2>3. QED BY <2>1, <2>2
<1>9. g = v
  BY <1>5, <1>6, <1>8, SeqEqual
<1>10. QED BY <1>1, <1>9

\* The pieces of what comes before each character.
Cuts(s, sep) ==
  LET cut[j \in 0..Len(s)] ==
        IF j = 0 THEN << <<>> >>
        ELSE IF s[j] = sep THEN Append(cut[j - 1], <<>>) ELSE Grown(cut[j - 1], s[j])
  IN cut

\* One more character.
CutAt(s, sep, k, v) == IF s[k] = sep THEN Append(v, <<>>) ELSE Grown(v, s[k])

\* They are built from the left, and Split returns the last of them.
LEMMA CutsMean ==
  ASSUME NEW C, NEW s \in Seq(C), NEW sep
  PROVE  /\ Split(s, sep) = Cuts(s, sep)[Len(s)]
         /\ \A k \in 0..Len(s) : Cuts(s, sep)[k] \in Seq(Seq(C)) /\ Len(Cuts(s, sep)[k]) > 0
         /\ Cuts(s, sep)[0] = << <<>> >>
         /\ \A k \in 1..Len(s) : Cuts(s, sep)[k] = CutAt(s, sep, k, Cuts(s, sep)[k - 1])
<1> DEFINE h == Len(s)
           V == {v \in Seq(Seq(C)) : Len(v) > 0}
           v0 == << <<>> >>
           F == [k \in 1..h |-> [v \in V |-> CutAt(s, sep, k, v)]]
           P(r) == r = [j \in 0..h |-> IF j = 0 THEN << <<>> >>
                                       ELSE IF s[j] = sep THEN Append(r[j - 1], <<>>) ELSE Grown(r[j - 1], s[j])]
<1>1. h \in Nat /\ v0 \in V /\ \A k \in 1..h : s[k] \in C
  <2>1. <<>> \in Seq(C)
    OBVIOUS
  <2>2. v0 \in Seq(Seq(C)) /\ Len(v0) = 1
    BY <2>1, One
  <2>3. v0 \in V
    BY <2>2
  <2>4. QED BY <2>3
<1>2. \A k \in 1..h : \A v \in V : CutAt(s, sep, k, v) \in V
  <2> SUFFICES ASSUME NEW k \in 1..h, NEW v \in V PROVE CutAt(s, sep, k, v) \in V
    OBVIOUS
  <2>1. v \in Seq(Seq(C)) /\ Len(v) > 0 /\ s[k] \in C /\ <<>> \in Seq(C)
    BY <1>1
  <2>2. Append(v, <<>>) \in Seq(Seq(C)) /\ Len(Append(v, <<>>)) = Len(v) + 1 /\ Len(v) \in Nat
    BY <2>1
  <2>3. Append(v, <<>>) \in V
    BY <2>2
  <2>4. Grown(v, s[k]) \in Seq(Seq(C)) /\ Len(Grown(v, s[k])) = Len(v)
    BY <2>1, GrownMeans
  <2>5. Grown(v, s[k]) \in V
    BY <2>1, <2>4
  <2>6. QED BY <2>3, <2>5 DEF CutAt
<1>3. PICK r \in [0..h -> V] : r[0] = v0 /\ \A k \in 1..h : r[k] = F[k][r[k - 1]]
  <2>1. F \in [1..h -> [V -> V]]
    BY <1>2
  <2>2. h \in Nat /\ v0 \in V
    BY <1>1
  <2> HIDE DEF F, V, h, v0
  <2>3. Solvable(h, V, v0, F)
    BY <2>1, <2>2, LineRecursion
  <2>4. QED BY <2>3 DEF Solvable
<1>4. \A k \in 1..h : r[k] = CutAt(s, sep, k, r[k - 1])
  <2> SUFFICES ASSUME NEW k \in 1..h PROVE r[k] = CutAt(s, sep, k, r[k - 1])
    OBVIOUS
  <2>1. k - 1 \in 0..h
    BY <1>1
  <2>2. r[k - 1] \in V
    <3> HIDE DEF V, h
    <3> QED BY <1>3, <2>1
  <2>3. F[k][r[k - 1]] = CutAt(s, sep, k, r[k - 1])
    <3> HIDE DEF V, h
    <3> QED BY <2>2
  <2>4. QED BY <1>3, <2>3
<1>5. P(r)
  <2>1. r = [j \in 0..h |-> r[j]]
    <3> HIDE DEF V, h
    <3> QED BY <1>3
  <2>2. ASSUME NEW j \in 0..h
        PROVE  r[j] = IF j = 0 THEN << <<>> >>
                      ELSE IF s[j] = sep THEN Append(r[j - 1], <<>>) ELSE Grown(r[j - 1], s[j])
    <3>1. j # 0 => j \in 1..h
      BY <1>1
    <3>2. j # 0 => r[j] = CutAt(s, sep, j, r[j - 1])
      BY <1>4, <3>1
    <3>3. j = 0 => r[j] = << <<>> >>
      BY <1>3
    <3>4. QED BY <3>2, <3>3, Zenon DEF CutAt
  <2> HIDE DEF h, V
  <2>3. QED BY <2>1, <2>2
<1> DEFINE q == Cuts(s, sep)
<1>6. P(q)
  <2>1. q = CHOOSE x : P(x)
    BY Zenon DEF Cuts
  <2>2. P(CHOOSE x : P(x))
    <3> HIDE DEF P
    <3> QED BY <1>5, Zenon
  <2>3. QED BY ONLY <2>1, <2>2, Zenon
<1>7. \A j \in 0..h : q[j] = IF j = 0 THEN << <<>> >> ELSE CutAt(s, sep, j, q[j - 1])
  <2>1. q = [j \in 0..h |-> IF j = 0 THEN << <<>> >>
                            ELSE IF s[j] = sep THEN Append(q[j - 1], <<>>) ELSE Grown(q[j - 1], s[j])]
    BY <1>6, Zenon
  <2> HIDE DEF q, h
  <2>2. QED BY <2>1 DEF CutAt
<1>8. Split(s, sep) = q[h]
  BY Zenon DEF Split, Cuts
<1> HIDE DEF q
<1>9. q[0] = v0 /\ \A k \in 1..h : q[k] = CutAt(s, sep, k, q[k - 1])
  <2>1. 0 \in 0..h /\ \A k \in 1..h : k \in 0..h /\ k # 0
    BY <1>1
  <2> HIDE DEF h
  <2>2. QED BY <1>7, <2>1
<1>10. \A k \in 0..h : q[k] \in V
  <2> DEFINE W == {k \in 0..h : q[k] \in V}
  <2> HIDE DEF V, h, v0
  <2>1. 0 \in W
    <3>1. 0 \in 0..h
      BY <1>1
    <3>2. q[0] \in V
      BY <1>1, <1>9, <3>1
    <3>3. QED BY <3>1, <3>2
  <2>2. ASSUME NEW k \in 1..h, k - 1 \in W PROVE k \in W
    <3>1. q[k - 1] \in V
      BY <2>2
    <3>2. q[k] \in V
      BY <1>2, <1>9, <3>1
    <3>3. k \in 0..h
      BY <1>1
    <3>4. QED BY <3>2, <3>3
  <2>3. \A k \in 0..h : k \in W
    <3> HIDE DEF W
    <3> QED BY <1>1, <2>1, <2>2, UpTo
  <2>4. QED BY <2>3
<1>11. \A k \in 0..h : q[k] \in Seq(Seq(C)) /\ Len(q[k]) > 0
  BY <1>10
<1>12. QED BY <1>8, <1>9, <1>11 DEF q

\* After position b of s comes p, in which sep does not occur.
Follows(s, sep, b, p) == b + Len(p) <= Len(s) /\ \A j \in 1..Len(p) : s[b + j] = p[j] /\ p[j] # sep

\* A piece without the separator is read to its end.
LEMMA CutsRead ==
  ASSUME NEW C, NEW s \in Seq(C), NEW sep, NEW b \in Nat, NEW p \in Seq(C), Follows(s, sep, b, p),
         NEW l \in Seq(Seq(C)), Cuts(s, sep)[b] = Append(l, <<>>)
  PROVE  Cuts(s, sep)[b + Len(p)] = Append(l, p)
<1>1. PICK h, n, f : h = Len(s) /\ n = Len(p) /\ f = Cuts(s, sep)
  OBVIOUS
<1>2. h \in Nat /\ n \in Nat /\ b + n <= h /\ \A j \in 1..n : s[b + j] = p[j] /\ p[j] # sep /\ p[j] \in C
  BY <1>1 DEF Follows
<1>3. \A k \in 1..h : f[k] = CutAt(s, sep, k, f[k - 1])
  BY <1>1, CutsMean
<1> DEFINE Read(j) == \E q \in Seq(C) : f[b + j] = Append(l, q) /\ Len(q) = j /\ \A k \in 1..j : q[k] = p[k]
           W == {j \in 0..n : Read(j)}
<1>4. 0 \in W
  <2>1. PICK q \in Seq(C) : q = <<>> /\ Len(q) = 0
    <3>1. <<>> \in Seq(C) /\ Len(<<>>) = 0
      BY ONLY TRUE
    <3>2. QED BY <3>1, Zenon
  <2>2. f[b + 0] = Append(l, q)
    BY <1>1, <2>1
  <2>3. \A k \in 1..0 : q[k] = p[k]
    <3>1. \A k \in 1..0 : FALSE
      OBVIOUS
    <3>2. QED BY <3>1, Zenon
  <2>4. Read(0)
    BY <2>1, <2>2, <2>3, Zenon
  <2>5. 0 \in 0..n
    BY <1>2
  <2>6. QED BY <2>4, <2>5, Zenon
<1>5. ASSUME NEW j \in 1..n, j - 1 \in W PROVE j \in W
  <2>1. PICK q \in Seq(C) : f[b + (j - 1)] = Append(l, q) /\ Len(q) = j - 1 /\ \A k \in 1..(j - 1) : q[k] = p[k]
    BY <1>5
  <2>2. j \in Nat /\ j \in 0..n /\ b + j \in 1..h /\ b + j - 1 = b + (j - 1)
    BY <1>2
  <2>3. PICK x : x = p[j]
    OBVIOUS
  <2>4. s[b + j] = x /\ x # sep /\ x \in C
    BY <1>2, <2>3
  <2>5. f[b + j] = Grown(Append(l, q), x)
    <3>1. PICK m : m = b + j
      OBVIOUS
    <3>2. m \in 1..h /\ f[m - 1] = Append(l, q) /\ s[m] = x
      BY <2>1, <2>2, <2>4, <3>1
    <3>3. f[m] = CutAt(s, sep, m, f[m - 1])
      BY <1>3, <3>2
    <3>4. f[m] = Grown(Append(l, q), x)
      BY <2>4, <3>2, <3>3, Zenon DEF CutAt
    <3>5. QED BY <3>1, <3>4
  <2>6. f[b + j] = Append(l, Append(q, x))
    BY <2>4, <2>5, GrownLast
  <2>7. Append(q, x) \in Seq(C) /\ Len(Append(q, x)) = j
    BY <2>1, <2>2, <2>4
  <2>8. \A k \in 1..j : Append(q, x)[k] = p[k]
    <3>1. \A k \in 1..j : k = j \/ k \in 1..(j - 1)
      BY <2>2
    <3>2. Append(q, x)[j] = x /\ \A k \in 1..(j - 1) : Append(q, x)[k] = q[k]
      BY <2>1, <2>2, <2>4
    <3>3. QED BY <2>1, <2>3, <3>1, <3>2
  <2>9. Read(j)
    BY <2>6, <2>7, <2>8
  <2>10. QED BY <2>2, <2>9
<1>6. \A j \in 0..n : j \in W
  <2> HIDE DEF W
  <2> QED BY <1>2, <1>4, <1>5, UpTo
<1>7. PICK q \in Seq(C) : f[b + n] = Append(l, q) /\ Len(q) = n /\ \A k \in 1..n : q[k] = p[k]
  <2>1. n \in 0..n
    BY <1>2
  <2>2. QED BY <1>6, <2>1
<1>8. q = p
  <2>1. Len(q) = Len(p) /\ \A k \in 1..Len(q) : q[k] = p[k]
    BY <1>1, <1>7
  <2>2. QED BY <2>1, SeqEqual
<1>9. QED BY <1>1, <1>7, <1>8


-----------------------------------------------------------------------------
\* A name and a value.
Param == [name : Seq(Characters), value : Seq(Characters)]

\* The characters of a URL and those that stand for others.
LEMMA SentMeans == {"space", "%", "&", "+", "=", "A"} \subseteq Sent /\ {"space", "%", "&", "+", "=", "A"} \subseteq Characters
BY HexMeans, UrlAssumption DEF UrlAssumption, Sent

\* Three texts in a row.
LEMMA ThreeParts ==
  ASSUME NEW C, NEW q \in Seq(C), NEW c \in C, NEW b \in Seq(C)
  PROVE  LET t == q \o <<c>> \o b
         IN /\ t \in Seq(C) /\ Len(t) = Len(q) + 1 + Len(b)
            /\ \A j \in 1..Len(q) : t[j] = q[j]
            /\ t[Len(q) + 1] = c
            /\ \A j \in 1..Len(b) : t[Len(q) + 1 + j] = b[j]
<1>1. PICK u, t, n, m : u = q \o <<c>> /\ t = u \o b /\ n = Len(q) /\ m = Len(b)
  OBVIOUS
<1>2. n \in Nat /\ m \in Nat /\ <<c>> \in Seq(C) /\ Len(<<c>>) = 1 /\ <<c>>[1] = c
  <2>1. <<c>> \in Seq(C) /\ Len(<<c>>) = 1 /\ <<c>>[1] = c
    BY One
  <2>2. QED BY <1>1, <2>1
<1>3. u \in Seq(C) /\ Len(u) = n + 1 /\ \A j \in 1..(n + 1) : u[j] = IF j <= n THEN q[j] ELSE <<c>>[j - n]
  <2>1. /\ q \o <<c>> \in Seq(C) /\ Len(q \o <<c>>) = Len(q) + Len(<<c>>)
        /\ \A j \in 1..Len(q) + Len(<<c>>) : (q \o <<c>>)[j] = IF j <= Len(q) THEN q[j] ELSE <<c>>[j - Len(q)]
    BY <1>2, ConcatProperties
  <2>2. QED BY <1>1, <1>2, <2>1
<1>4. t \in Seq(C) /\ Len(t) = n + 1 + m /\ \A j \in 1..(n + 1 + m) : t[j] = IF j <= n + 1 THEN u[j] ELSE b[j - (n + 1)]
  <2>1. /\ u \o b \in Seq(C) /\ Len(u \o b) = Len(u) + Len(b)
        /\ \A j \in 1..Len(u) + Len(b) : (u \o b)[j] = IF j <= Len(u) THEN u[j] ELSE b[j - Len(u)]
    BY <1>3, ConcatProperties
  <2>2. Len(u) = n + 1 /\ Len(b) = m /\ t = u \o b /\ Len(u) + Len(b) = n + 1 + m
    BY <1>1, <1>3
  <2>3. \A j \in 1..Len(u) + Len(b) : t[j] = IF j <= Len(u) THEN u[j] ELSE b[j - Len(u)]
    BY <2>1, <2>2
  <2>4. \A j \in 1..(n + 1 + m) : t[j] = IF j <= n + 1 THEN u[j] ELSE b[j - (n + 1)]
    BY <2>2, <2>3
  <2>5. QED BY <2>1, <2>2, <2>4
<1>5. \A j \in 1..n : t[j] = q[j]
  <2> SUFFICES ASSUME NEW j \in 1..n PROVE t[j] = q[j]
    OBVIOUS
  <2>1. j \in 1..(n + 1) /\ j \in 1..(n + 1 + m) /\ j <= n /\ j <= n + 1
    BY <1>2
  <2>2. QED BY <1>3, <1>4, <2>1
<1>6. t[n + 1] = c
  <2>1. n + 1 \in 1..(n + 1) /\ n + 1 \in 1..(n + 1 + m) /\ ~(n + 1 <= n) /\ n + 1 <= n + 1 /\ n + 1 - n = 1
    BY <1>2
  <2>2. t[n + 1] = u[n + 1]
    BY <1>4, <2>1
  <2>3. u[n + 1] = <<c>>[1]
    <3>1. PICK k, d : k = n + 1 /\ d = k - n
      OBVIOUS
    <3>2. k \in 1..(n + 1) /\ ~(k <= n) /\ d = 1
      BY <1>2, <3>1
    <3>3. u[k] = <<c>>[d]
      BY <1>3, <3>1, <3>2
    <3>4. QED BY <3>1, <3>2, <3>3
  <2>4. QED BY <1>2, <2>2, <2>3
<1>7. \A j \in 1..m : t[n + 1 + j] = b[j]
  <2> SUFFICES ASSUME NEW j \in 1..m PROVE t[n + 1 + j] = b[j]
    OBVIOUS
  <2>1. PICK k : k = n + 1 + j
    OBVIOUS
  <2>2. k \in 1..(n + 1 + m) /\ ~(k <= n + 1) /\ k - (n + 1) = j
    BY <1>2, <2>1
  <2>3. t[k] = b[k - (n + 1)]
    BY <1>4, <2>2
  <2>4. QED BY <2>1, <2>2, <2>3
<1>8. QED BY <1>1, <1>4, <1>5, <1>6, <1>7

\* The first equals sign of an item ends the name.
LEMMA ItemMeans ==
  ASSUME NEW p \in Param
  PROVE  /\ to_item(p) \in Seq(Sent) /\ Len(to_item(p)) > 0
         /\ \A j \in 1..Len(to_item(p)) : to_item(p)[j] # "&"
         /\ from_item(to_item(p)) = p
<1>1. PICK q, b, t : q = percent_encode(p.name) /\ b = percent_encode(p.value) /\ t = to_item(p)
  OBVIOUS
<1>2. p.name \in Seq(Characters) /\ p.value \in Seq(Characters) /\ p = [name |-> p.name, value |-> p.value]
  BY DEF Param
<1>3. q \in Seq(Sent) /\ \A j \in 1..Len(q) : q[j] \notin {"&", "="}
  BY <1>1, <1>2, EncodeMeans
<1>4. b \in Seq(Sent) /\ \A j \in 1..Len(b) : b[j] \notin {"&", "="}
  BY <1>1, <1>2, EncodeMeans
<1>5. t = q \o <<"=">> \o b /\ "=" \in Sent
  BY <1>1, SentMeans DEF to_item
<1>6. PICK n, m : n = Len(q) /\ m = Len(b) /\ n \in Nat /\ m \in Nat
  <2>1. Len(q) \in Nat /\ Len(b) \in Nat
    BY <1>3, <1>4
  <2>2. QED BY <2>1, Zenon
<1>7. /\ t \in Seq(Sent) /\ Len(t) = n + 1 + m
      /\ \A j \in 1..n : t[j] = q[j]
      /\ t[n + 1] = "="
      /\ \A j \in 1..m : t[n + 1 + j] = b[j]
  <2>1. PICK c : c = "="
    OBVIOUS
  <2>2. c \in Sent
    BY <1>5, <2>1
  <2>3. LET x == q \o <<c>> \o b
        IN /\ x \in Seq(Sent) /\ Len(x) = Len(q) + 1 + Len(b)
           /\ \A j \in 1..Len(q) : x[j] = q[j]
           /\ x[Len(q) + 1] = c
           /\ \A j \in 1..Len(b) : x[Len(q) + 1 + j] = b[j]
    BY <1>3, <1>4, <2>2, ThreeParts
  <2>4. t = q \o <<c>> \o b
    BY <1>5, <2>1
  <2>5. QED BY <1>6, <2>1, <2>3, <2>4
<1>8. \A j \in 1..Len(t) : t[j] # "&"
  <2> SUFFICES ASSUME NEW j \in 1..Len(t) PROVE t[j] # "&"
    OBVIOUS
  <2>1. CASE j \in 1..n
    BY <1>3, <1>6, <1>7, <2>1
  <2>2. CASE j = n + 1
    BY <1>7, <2>2
  <2>3. CASE j \notin 1..n /\ j # n + 1
    <3>1. PICK k : k = j - (n + 1)
      OBVIOUS
    <3>2. k \in 1..m /\ n + 1 + k = j
      BY <1>6, <1>7, <2>3, <3>1
    <3>3. t[n + 1 + k] = b[k] /\ b[k] # "&"
      BY <1>4, <1>6, <1>7, <3>2
    <3>4. QED BY <3>2, <3>3
  <2>4. QED BY <2>1, <2>2, <2>3
<1> DEFINE E == {Len(t) + 1} \cup {k \in DOMAIN t : t[k] = "="}
<1>9. Min(E) = n + 1
  <2>1. n + 1 \in E
    BY <1>6, <1>7
  <2>2. \A y \in E : n + 1 <= y /\ y \in Nat
    <3> SUFFICES ASSUME NEW y \in E PROVE n + 1 <= y /\ y \in Nat
      OBVIOUS
    <3>1. CASE y = Len(t) + 1
      BY <1>6, <1>7, <3>1
    <3>2. CASE y # Len(t) + 1
      <4>1. y \in 1..Len(t) /\ t[y] = "="
        BY <1>7, <3>2
      <4>2. y \notin 1..n
        BY <1>3, <1>6, <1>7, <4>1
      <4>3. QED BY <1>6, <1>7, <4>1, <4>2
    <3>3. QED BY <3>1, <3>2
  <2>3. Min(E) = CHOOSE x \in E : \A y \in E : x <= y
    BY Zenon DEF Min
  <2> HIDE DEF E
  <2>4. \E x \in E : \A y \in E : x <= y
    BY <2>1, <2>2
  <2>5. PICK z : z = CHOOSE x \in E : \A y \in E : x <= y
    OBVIOUS
  <2>6. z \in E /\ \A y \in E : z <= y
    BY <2>4, <2>5, Zenon
  <2>7. z = n + 1
    BY <1>6, <2>1, <2>2, <2>6
  <2>8. QED BY <2>3, <2>5, <2>7
<1>10. SubSeq(t, 1, n) = q
  <2>1. PICK u : u = SubSeq(t, 1, n)
    OBVIOUS
  <2>2. 1 \in Int /\ n \in Int /\ \A j \in 1..n : t[j] \in Sent
    BY <1>3, <1>6, <1>7
  <2>3. /\ u \in Seq(Sent) /\ Len(u) = (IF 1 <= n THEN n - 1 + 1 ELSE 0)
        /\ \A j \in 1..n - 1 + 1 : u[j] = t[1 + j - 1]
    BY <2>1, <2>2, SubSeqProperties
  <2>4. n - 1 + 1 = n /\ (IF 1 <= n THEN n - 1 + 1 ELSE 0) = n /\ \A j \in 1..n : 1 + j - 1 = j
    BY <1>6
  <2>5. Len(u) = Len(q) /\ \A j \in 1..Len(u) : u[j] = q[j]
    BY <1>6, <1>7, <2>3, <2>4
  <2>6. u = q
    BY <1>3, <2>3, <2>5, SeqEqual
  <2>7. QED BY <2>1, <2>6
<1>11. SubSeq(t, n + 2, Len(t)) = b
  <2>1. PICK u, x, y : u = SubSeq(t, x, y) /\ x = n + 2 /\ y = n + 1 + m
    OBVIOUS
  <2>2. x \in Int /\ y \in Int /\ \A j \in x..y : t[j] \in Sent
    <3>1. \A j \in x..y : j \in 1..Len(t)
      BY <1>6, <1>7, <2>1
    <3>2. \A j \in 1..Len(t) : t[j] \in Sent
      BY <1>7
    <3>3. QED BY <1>6, <2>1, <3>1, <3>2
  <2>3. /\ u \in Seq(Sent) /\ Len(u) = (IF x <= y THEN y - x + 1 ELSE 0)
        /\ \A j \in 1..y - x + 1 : u[j] = t[x + j - 1]
    BY <2>1, <2>2, SubSeqProperties
  <2>4. y - x + 1 = m /\ (IF x <= y THEN y - x + 1 ELSE 0) = m
    BY <1>6, <2>1
  <2>5. ASSUME NEW j \in 1..m PROVE u[j] = b[j]
    <3>1. PICK k : k = x + j - 1
      OBVIOUS
    <3>2. k = n + 1 + j
      BY <1>6, <2>1, <3>1
    <3>3. u[j] = t[k]
      BY <2>3, <2>4, <3>1
    <3>4. QED BY <1>7, <3>2, <3>3
  <2>6. Len(u) = Len(b) /\ \A j \in 1..Len(u) : u[j] = b[j]
    BY <1>6, <2>3, <2>4, <2>5
  <2>7. u = b
    BY <1>4, <2>3, <2>6, SeqEqual
  <2>8. QED BY <1>7, <2>1, <2>7
<1>12. from_item(t) = p
  <2>1. PICK eq : eq = Min(E)
    OBVIOUS
  <2>2. from_item(t) = Pair(percent_decode(SubSeq(t, 1, eq - 1)), percent_decode(SubSeq(t, eq + 1, Len(t))))
    BY <2>1, Zenon DEF from_item
  <2>3. eq - 1 = n /\ eq + 1 = n + 2
    BY <1>6, <1>9, <2>1
  <2>4. percent_decode(q) = p.name /\ percent_decode(b) = p.value
    BY <1>1, <1>2, DecodeEncode
  <2>5. from_item(t) = Pair(p.name, p.value)
    BY <1>10, <1>11, <2>2, <2>3, <2>4
  <2>6. QED BY <1>2, <2>5, Zenon DEF Pair
<1>13. QED BY <1>1, <1>6, <1>7, <1>8, <1>12


\* All are chosen, or none.
LEMMA ChosenAll ==
  ASSUME NEW T, NEW l \in Seq(T), NEW S
  PROVE  /\ Chosen(l, S) \in Seq(T)
         /\ (\A k \in 1..Len(l) : k \in S) => Chosen(l, S) = l
         /\ (\A k \in 1..Len(l) : k \notin S) => Chosen(l, S) = <<>>
<1>1. PICK h, u, c : h = Len(l) /\ u = Upto(l, S) /\ c = Chosen(l, S)
  OBVIOUS
<1>2. /\ c = u[h] /\ h \in Nat /\ h \in 0..h
      /\ \A k \in 0..h : u[k] \in Seq(T)
      /\ u[0] = <<>>
      /\ \A k \in 1..h : u[k] = IF k \in S THEN Append(u[k - 1], l[k]) ELSE u[k - 1]
  <2>1. h \in Nat
    BY <1>1
  <2>2. /\ Chosen(l, S) = Upto(l, S)[Len(l)]
        /\ \A k \in 0..Len(l) : Upto(l, S)[k] \in Seq(T)
        /\ Upto(l, S)[0] = <<>>
        /\ \A k \in 1..Len(l) :
             Upto(l, S)[k] = IF k \in S THEN Append(Upto(l, S)[k - 1], l[k]) ELSE Upto(l, S)[k - 1]
    BY UptoMeans
  <2>3. QED BY <1>1, <2>1, <2>2
<1>3. ASSUME \A k \in 1..h : k \in S PROVE c = l
  <2> DEFINE Same(k) == Len(u[k]) = k /\ \A n \in 1..k : u[k][n] = l[n]
             W == {k \in 0..h : Same(k)}
  <2>1. 0 \in W
    <3>1. Len(u[0]) = 0 /\ 0 \in 0..h
      BY <1>2
    <3>2. QED BY <3>1
  <2>2. ASSUME NEW k \in 1..h, k - 1 \in W PROVE k \in W
    <3>1. PICK v, e : v = u[k - 1] /\ e = l[k]
      OBVIOUS
    <3>2. k \in 0..h /\ k - 1 \in 0..h /\ k \in Nat
      BY <1>2
    <3>3. Len(v) = k - 1 /\ (\A n \in 1..(k - 1) : v[n] = l[n])
      BY <2>2, <3>1
    <3>4. v \in Seq(T) /\ e \in T
      BY <1>1, <1>2, <3>1, <3>2
    <3>5. u[k] = Append(v, e)
      BY <1>2, <1>3, <3>1
    <3>6. Len(u[k]) = k /\ u[k][k] = e /\ \A n \in 1..(k - 1) : u[k][n] = v[n]
      BY <3>2, <3>3, <3>4, <3>5
    <3>7. \A n \in 1..k : n = k \/ n \in 1..(k - 1)
      BY <3>2
    <3>8. Same(k)
      BY <3>1, <3>3, <3>6, <3>7
    <3>9. QED BY <3>2, <3>8
  <2>3. \A k \in 0..h : k \in W
    <3> HIDE DEF W
    <3> QED BY <1>2, <2>1, <2>2, UpTo
  <2>4. Same(h)
    BY <1>2, <2>3
  <2>5. c \in Seq(T) /\ Len(c) = Len(l) /\ \A n \in 1..Len(c) : c[n] = l[n]
    BY <1>1, <1>2, <2>4
  <2>6. QED BY <2>5, SeqEqual
<1>4. ASSUME \A k \in 1..h : k \notin S PROVE c = <<>>
  <2> DEFINE W == {k \in 0..h : u[k] = <<>>}
  <2>1. 0 \in W
    BY <1>2
  <2>2. ASSUME NEW k \in 1..h, k - 1 \in W PROVE k \in W
    BY <1>2, <1>4, <2>2
  <2>3. \A k \in 0..h : k \in W
    <3> HIDE DEF W
    <3> QED BY <1>2, <2>1, <2>2, UpTo
  <2>4. QED BY <1>2, <2>3
<1>5. c \in Seq(T)
  BY <1>2
<1>6. QED BY <1>1, <1>3, <1>4, <1>5

\* A text after an ampersand.
LEMMA AmpersandFirst ==
  ASSUME NEW p \in Seq(Sent)
  PROVE  /\ <<"&">> \o p \in Seq(Sent) /\ Len(<<"&">> \o p) = 1 + Len(p)
         /\ (<<"&">> \o p)[1] = "&"
         /\ \A j \in 1..Len(p) : (<<"&">> \o p)[1 + j] = p[j]
<1>1. PICK q, t, m : q = <<"&">> /\ t = q \o p /\ m = Len(p)
  OBVIOUS
<1>2. q \in Seq(Sent) /\ Len(q) = 1 /\ q[1] = "&" /\ m \in Nat
  <2>1. "&" \in Sent
    BY SentMeans
  <2>2. <<"&">> \in Seq(Sent) /\ Len(<<"&">>) = 1 /\ <<"&">>[1] = "&"
    BY <2>1, One
  <2>3. QED BY <1>1, <2>2
<1>3. t \in Seq(Sent) /\ Len(t) = 1 + m /\ \A j \in 1..(1 + m) : t[j] = IF j <= 1 THEN q[j] ELSE p[j - 1]
  <2>1. /\ q \o p \in Seq(Sent) /\ Len(q \o p) = Len(q) + Len(p)
        /\ \A j \in 1..Len(q) + Len(p) : (q \o p)[j] = IF j <= Len(q) THEN q[j] ELSE p[j - Len(q)]
    BY <1>2, ConcatProperties
  <2>2. QED BY <1>1, <1>2, <2>1
<1>4. t[1] = "&"
  BY <1>2, <1>3
<1>5. ASSUME NEW j \in 1..m PROVE t[1 + j] = p[j]
  <2>1. PICK k : k = 1 + j
    OBVIOUS
  <2>2. k \in 1..(1 + m) /\ ~(k <= 1) /\ k - 1 = j
    BY <1>2, <2>1
  <2>3. t[k] = p[k - 1]
    BY <1>3, <2>2
  <2>4. QED BY <2>1, <2>2, <2>3
<1>6. QED BY <1>1, <1>3, <1>4, <1>5

\* The items as they are sent, each but the first after an ampersand.
Sends(l) == [k \in DOMAIN l |-> IF k > 1 THEN <<"&">> \o to_item(l[k]) ELSE to_item(l[k])]

\* They are split again where they were joined.
LEMMA SplitForm ==
  ASSUME NEW l \in Seq(Param)
  PROVE  /\ Split(form_encode(l), "&") \in Seq(Seq(Sent))
         /\ Len(l) > 0 => /\ Len(Split(form_encode(l), "&")) = Len(l)
                          /\ \A k \in 1..Len(l) : Split(form_encode(l), "&")[k] = to_item(l[k])
         /\ Len(l) = 0 => Split(form_encode(l), "&") = << <<>> >>
<1>1. PICK h, x, f, t : h = Len(l) /\ x = Sends(l) /\ f = Flat(x) /\ t = form_encode(l)
  OBVIOUS
<1>2. PICK g, amp : g = Cuts(t, amp) /\ amp = "&"
  OBVIOUS
<1>3. h \in Nat /\ DOMAIN l = 1..h /\ \A k \in 1..h : l[k] \in Param
  BY <1>1
<1>4. \A k \in 1..h : to_item(l[k]) \in Seq(Sent) /\ \A j \in 1..Len(to_item(l[k])) : to_item(l[k])[j] # amp
  BY <1>2, <1>3, ItemMeans
<1>5. \A k \in 1..h : x[k] = (IF k > 1 THEN <<"&">> \o to_item(l[k]) ELSE to_item(l[k])) /\ x[k] \in Seq(Sent)
  <2>1. x = [k \in 1..h |-> IF k > 1 THEN <<"&">> \o to_item(l[k]) ELSE to_item(l[k])]
    BY <1>1, <1>3 DEF Sends
  <2>2. \A k \in 1..h : <<"&">> \o to_item(l[k]) \in Seq(Sent)
    BY <1>4, AmpersandFirst
  <2>3. QED BY <1>4, <2>1, <2>2
<1>6. x \in Seq(Seq(Sent)) /\ Len(x) = h
  <2>1. x = [k \in 1..h |-> x[k]]
    BY <1>1, <1>3 DEF Sends
  <2>2. QED BY <1>3, <1>5, <2>1
<1>7. t = f[h]
  <2>1. FlattenSeq(x) = Flat(x)[Len(x)]
    BY <1>6, FlatIsWhole
  <2>2. t = FlattenSeq(x)
    BY <1>1 DEF form_encode, Sends
  <2>3. QED BY <1>1, <1>6, <2>1, <2>2
<1>8. (\A k \in 0..h : f[k] \in Seq(Sent)) /\ f[0] = <<>>
  BY <1>1, <1>6, FlatMeans
<1>9. t \in Seq(Sent)
  <2>1. h \in 0..h
    BY <1>3
  <2>2. QED BY <1>7, <1>8, <2>1
<1>10. \A k \in 1..h : /\ Len(f[k]) = Len(f[k - 1]) + Len(x[k])
                       /\ \A n \in 1..Len(x[k]) : t[Len(f[k - 1]) + n] = x[k][n]
  <2>1. \A k \in 1..Len(x) :
          /\ Len(Flat(x)[k]) = Len(Flat(x)[k - 1]) + Len(x[k])
          /\ \A n \in 1..Len(x[k]) : Flat(x)[Len(x)][Len(Flat(x)[k - 1]) + n] = x[k][n]
    BY <1>6, FlatPlaces
  <2>2. Flat(x) = f /\ Len(x) = h /\ f[h] = t
    BY <1>1, <1>6, <1>7
  <2>3. \A k \in 1..h : Len(f[k]) = Len(f[k - 1]) + Len(x[k])
    BY <2>1, <2>2
  <2>4. \A k \in 1..h : \A n \in 1..Len(x[k]) : f[h][Len(f[k - 1]) + n] = x[k][n]
    BY <2>1, <2>2
  <2>5. QED BY <2>2, <2>3, <2>4
<1>11. \A k \in 0..h : Len(f[k]) <= Len(t)
  <2>1. \A k \in 0..Len(x) : Len(Flat(x)[k]) <= Len(Flat(x)[Len(x)])
    BY <1>6, FlatGrows
  <2>2. Flat(x) = f /\ Len(x) = h /\ f[h] = t
    BY <1>1, <1>6, <1>7
  <2>3. \A k \in 0..h : Len(f[k]) <= Len(f[h])
    BY <2>1, <2>2
  <2>4. QED BY <2>2, <2>3
<1>12. /\ Split(t, amp) = g[Len(t)] /\ g[0] = << <<>> >>
       /\ \A k \in 1..Len(t) : g[k] = CutAt(t, amp, k, g[k - 1])
       /\ \A k \in 0..Len(t) : g[k] \in Seq(Seq(Sent))
  BY <1>2, <1>9, CutsMean
<1> DEFINE Reads(k, w) == /\ w \in Seq(Seq(Sent)) /\ g[Len(f[k])] = w /\ Len(w) = k
                          /\ \A n \in 1..k : w[n] = to_item(l[n])
           W == {k \in 0..h : k = 0 \/ \E w : Reads(k, w)}
<1>13. ASSUME NEW k \in 1..h, NEW b \in Nat, NEW w \in Seq(Seq(Sent)), g[b] = Append(w, <<>>),
              Len(w) = k - 1, \A n \in 1..(k - 1) : w[n] = to_item(l[n]),
              b + Len(to_item(l[k])) = Len(f[k]),
              \A j \in 1..Len(to_item(l[k])) : t[b + j] = to_item(l[k])[j]
       PROVE  k \in W
  <2>1. PICK p : p = to_item(l[k])
    OBVIOUS
  <2>2. p \in Seq(Sent) /\ \A j \in 1..Len(p) : t[b + j] = p[j] /\ p[j] # amp
    BY <1>4, <1>13, <2>1
  <2>3. k \in 0..h /\ k \in Nat
    BY <1>3
  <2>4. b + Len(p) = Len(f[k]) /\ b + Len(p) <= Len(t)
    BY <1>11, <1>13, <2>1, <2>3
  <2>5. Cuts(t, amp)[b] = Append(w, <<>>)
    BY <1>2, <1>13
  <2>6. Cuts(t, amp)[b + Len(p)] = Append(w, p)
    <3>1. t \in Seq(Sent) /\ b \in Nat /\ w \in Seq(Seq(Sent)) /\ p \in Seq(Sent)
      BY <1>9, <1>13, <2>2
    <3>2. b + Len(p) <= Len(t)
      BY <2>4
    <3>3. \A j \in 1..Len(p) : t[b + j] = p[j] /\ p[j] # amp
      BY <2>2
    <3>4. Follows(t, amp, b, p)
      BY <3>2, <3>3 DEF Follows
    <3>5. QED BY <2>5, <3>1, <3>4, CutsRead
  <2>7. g[Len(f[k])] = Append(w, p)
    BY <1>2, <2>4, <2>6
  <2>8. PICK v : v = Append(w, p)
    OBVIOUS
  <2>9. v \in Seq(Seq(Sent)) /\ Len(v) = k /\ v[k] = p /\ \A n \in 1..(k - 1) : v[n] = w[n]
    BY <1>13, <2>2, <2>3, <2>8
  <2>10. \A n \in 1..k : n = k \/ n \in 1..(k - 1)
    BY <2>3
  <2>11. \A n \in 1..k : v[n] = to_item(l[n])
    BY <1>13, <2>1, <2>9, <2>10
  <2>12. Reads(k, v)
    BY <2>7, <2>8, <2>9, <2>11
  <2> HIDE DEF Reads
  <2>13. QED BY <2>3, <2>12
<1>14. 0 \in W
  BY <1>3
<1>15. ASSUME NEW k \in 1..h, k - 1 \in W PROVE k \in W
  <2>1. k - 1 \in 0..h /\ k \in 0..h /\ k \in Nat
    BY <1>3
  <2>2. PICK b, p : b = Len(f[k - 1]) /\ p = to_item(l[k])
    OBVIOUS
  <2>3. b \in Nat /\ p \in Seq(Sent) /\ Len(p) \in Nat
    BY <1>4, <1>8, <2>1, <2>2
  <2>4. CASE k = 1
    <3>1. b = 0 /\ x[k] = p
      BY <1>5, <1>8, <2>2, <2>4
    <3>2. PICK w : w = <<>>
      OBVIOUS
    <3>3. w \in Seq(Seq(Sent)) /\ Len(w) = k - 1 /\ \A n \in 1..(k - 1) : w[n] = to_item(l[n])
      BY <2>4, <3>2
    <3>4. g[b] = Append(w, <<>>)
      <4>1. Append(<<>>, <<>>) = << <<>> >>
        OBVIOUS
      <4>2. QED BY <1>12, <3>1, <3>2, <4>1
    <3>5. b + Len(p) = Len(f[k]) /\ \A j \in 1..Len(p) : t[b + j] = p[j]
      BY <1>10, <2>2, <3>1
    <3> HIDE DEF W
    <3>6. QED BY <1>13, <2>2, <2>3, <3>3, <3>4, <3>5
  <2>5. CASE k # 1
    <3>1. x[k] = <<"&">> \o p
      <4>1. k > 1
        BY <2>1, <2>5
      <4>2. QED BY <1>5, <2>2, <4>1
    <3>2. /\ Len(x[k]) = 1 + Len(p) /\ x[k][1] = amp
          /\ \A j \in 1..Len(p) : x[k][1 + j] = p[j]
      BY <1>2, <2>3, <3>1, AmpersandFirst
    <3>3. PICK w : Reads(k - 1, w)
      <4>1. k - 1 # 0
        BY <2>1, <2>5
      <4> HIDE DEF Reads
      <4>2. QED BY <1>15, <4>1
    <3>4. w \in Seq(Seq(Sent)) /\ g[b] = w /\ Len(w) = k - 1 /\ \A n \in 1..(k - 1) : w[n] = to_item(l[n])
      BY <2>2, <3>3
    <3>5. PICK c : c = b + 1
      OBVIOUS
    <3>6. Len(f[k]) = b + (1 + Len(p)) /\ Len(f[k]) <= Len(t) /\ \A n \in 1..(1 + Len(p)) : t[b + n] = x[k][n]
      BY <1>10, <1>11, <2>1, <2>2, <3>2
    <3>7. c \in Nat /\ c \in 1..Len(t) /\ c - 1 = b /\ 1 \in 1..(1 + Len(p)) /\ c + Len(p) = Len(f[k])
      BY <1>9, <2>3, <3>5, <3>6
    <3>8. t[c] = amp
      BY <3>2, <3>5, <3>6, <3>7
    <3>9. g[c] = Append(w, <<>>)
      <4>1. g[c] = CutAt(t, amp, c, g[c - 1])
        BY <1>12, <3>7
      <4>2. QED BY <3>4, <3>7, <3>8, <4>1 DEF CutAt
    <3>10. ASSUME NEW j \in 1..Len(p) PROVE t[c + j] = p[j]
      <4>1. PICK n : n = 1 + j
        OBVIOUS
      <4>2. n \in 1..(1 + Len(p)) /\ b + n = c + j
        BY <2>3, <3>5, <4>1
      <4>3. t[b + n] = x[k][n] /\ x[k][n] = p[j]
        BY <3>2, <3>6, <4>1, <4>2
      <4>4. QED BY <4>2, <4>3
    <3> HIDE DEF W
    <3>11. QED BY <1>13, <2>2, <3>4, <3>7, <3>9, <3>10
  <2>6. QED BY <2>4, <2>5
<1>16. \A k \in 0..h : k \in W
  <2> HIDE DEF W
  <2> QED BY <1>3, <1>14, <1>15, UpTo
<1>17. ASSUME h > 0
       PROVE  Len(g[Len(t)]) = h /\ \A k \in 1..h : g[Len(t)][k] = to_item(l[k])
  <2>1. h \in 0..h /\ h # 0
    BY <1>3, <1>17
  <2>2. PICK w : Reads(h, w)
    <3> HIDE DEF Reads
    <3> QED BY <1>16, <2>1
  <2>3. QED BY <1>7, <2>2
<1>18. ASSUME h = 0 PROVE g[Len(t)] = << <<>> >>
  <2>1. Len(t) = 0
    BY <1>7, <1>8, <1>18
  <2>2. QED BY <1>12, <2>1
<1>19. g[Len(t)] \in Seq(Seq(Sent))
  <2>1. Len(t) \in 0..Len(t)
    BY <1>9
  <2>2. QED BY <1>12, <2>1
<1>20. Split(t, amp) = g[Len(t)]
  BY <1>12
<1>21. QED BY <1>1, <1>2, <1>17, <1>18, <1>19, <1>20


\* The least of a set of numbers is one of them.
LEMMA MinOf ==
  ASSUME NEW S \in SUBSET Nat, S # {}
  PROVE  Min(S) \in S
<1>1. Min(S) = CHOOSE x \in S : \A y \in S : x <= y
  BY Zenon DEF Min
<1>2. \E x \in S : \A y \in S : x <= y
  BY LeastOf
<1>3. QED BY <1>1, <1>2, Zenon

\* What an item is decoded to.
LEMMA ItemType ==
  ASSUME NEW t \in Seq(Characters)
  PROVE  from_item(t) \in Param
<1> DEFINE E == {Len(t) + 1} \cup {k \in DOMAIN t : t[k] = "="}
<1>1. PICK eq, n : eq = Min(E) /\ n = Len(t)
  OBVIOUS
<1>2. n \in Nat /\ DOMAIN t = 1..n /\ \A k \in 1..n : t[k] \in Characters
  BY <1>1
<1>3. eq \in 1..(n + 1)
  <2>1. E \in SUBSET Nat /\ E # {} /\ \A y \in E : y \in 1..(n + 1)
    BY <1>1, <1>2
  <2> HIDE DEF E
  <2>2. QED BY <1>1, <2>1, MinOf
<1>4. SubSeq(t, 1, eq - 1) \in Seq(Characters)
  <2>1. PICK x : x = eq - 1
    OBVIOUS
  <2>2. x \in Int /\ 1 \in Int /\ \A k \in 1..x : t[k] \in Characters
    BY <1>2, <1>3, <2>1
  <2>3. SubSeq(t, 1, x) \in Seq(Characters)
    BY <2>2, SubSeqProperties
  <2>4. QED BY <2>1, <2>3
<1>5. SubSeq(t, eq + 1, Len(t)) \in Seq(Characters)
  <2>1. PICK x : x = eq + 1
    OBVIOUS
  <2>2. x \in Int /\ n \in Int /\ \A k \in x..n : t[k] \in Characters
    BY <1>2, <1>3, <2>1
  <2>3. SubSeq(t, x, n) \in Seq(Characters)
    BY <2>2, SubSeqProperties
  <2>4. QED BY <1>1, <2>1, <2>3
<1>6. \A s \in Seq(Characters) : percent_decode(s) \in Seq(Characters)
  BY SentMeans, DecodeType
<1>7. from_item(t) = Pair(percent_decode(SubSeq(t, 1, eq - 1)), percent_decode(SubSeq(t, eq + 1, Len(t))))
  BY <1>1, Zenon DEF from_item
<1>8. PICK x, y : /\ x = percent_decode(SubSeq(t, 1, eq - 1)) /\ x \in Seq(Characters)
                  /\ y = percent_decode(SubSeq(t, eq + 1, Len(t))) /\ y \in Seq(Characters)
  BY <1>4, <1>5, <1>6
<1>9. from_item(t) = [name |-> x, value |-> y]
  BY <1>7, <1>8, Zenon DEF Pair
<1>10. [name |-> x, value |-> y] \in Param
  BY <1>8 DEF Param
<1>11. QED BY <1>9, <1>10

\* The items that are not empty.
Filled(items) == {k \in DOMAIN items : items[k] # <<>>}

\* What a query is decoded to.
LEMMA QueryType ==
  ASSUME NEW q \in Seq(Characters)
  PROVE  from_query(q) \in Seq(Param)
<1>1. PICK m, g : m = Split(q, "&") /\ g = Chosen(m, Filled(m))
  OBVIOUS
<1>2. m \in Seq(Seq(Characters))
  <2>1. Len(q) \in 0..Len(q)
    OBVIOUS
  <2>2. /\ Split(q, "&") = Cuts(q, "&")[Len(q)]
        /\ \A k \in 0..Len(q) : Cuts(q, "&")[k] \in Seq(Seq(Characters))
    BY CutsMean
  <2>3. QED BY <1>1, <2>1, <2>2
<1>3. g \in Seq(Seq(Characters))
  BY <1>1, <1>2, ChosenAll
<1>4. from_query(q) = [k \in DOMAIN g |-> from_item(g[k])]
  BY <1>1, Zenon DEF from_query, Filled
<1>5. PICK n : n = Len(g) /\ n \in Nat
  BY <1>3
<1>6. DOMAIN g = 1..n /\ \A k \in 1..n : from_item(g[k]) \in Param
  <2>1. DOMAIN g = 1..n /\ \A k \in 1..n : g[k] \in Seq(Characters)
    BY <1>3, <1>5
  <2>2. QED BY <2>1, ItemType
<1>7. QED BY <1>4, <1>5, <1>6

\* A list that is sent as a query and decoded again is the list.
LEMMA FormBack ==
  ASSUME NEW l \in Seq(Param)
  PROVE  from_query(form_encode(l)) = l
<1>1. PICK t, m, g, h : t = form_encode(l) /\ m = Split(t, "&") /\ g = Chosen(m, Filled(m)) /\ h = Len(l)
  OBVIOUS
<1>2. /\ m \in Seq(Seq(Sent))
      /\ h > 0 => Len(m) = h /\ \A k \in 1..h : m[k] = to_item(l[k])
      /\ h = 0 => m = << <<>> >>
  BY <1>1, SplitForm
<1>3. from_query(t) = [k \in DOMAIN g |-> from_item(g[k])]
  BY <1>1, Zenon DEF from_query, Filled
<1>4. h \in Nat /\ (\A k \in 1..h : l[k] \in Param) /\ l = [k \in 1..h |-> l[k]]
  BY <1>1
<1>5. CASE h > 0
  <2>1. DOMAIN m = 1..h /\ Len(m) = h /\ \A k \in 1..h : m[k] = to_item(l[k])
    BY <1>2, <1>5
  <2>2. \A k \in 1..h : Len(to_item(l[k])) > 0 /\ from_item(to_item(l[k])) = l[k]
    BY <1>4, ItemMeans
  <2>3. \A k \in 1..Len(m) : k \in Filled(m)
    <3> SUFFICES ASSUME NEW k \in 1..h PROVE k \in Filled(m)
      BY <2>1
    <3>1. PICK u : u = m[k]
      OBVIOUS
    <3>2. Len(u) > 0
      BY <2>1, <2>2, <3>1
    <3>3. u # <<>>
      BY <3>2
    <3>4. QED BY <2>1, <3>1, <3>3 DEF Filled
  <2>4. g = m
    BY <1>1, <1>2, <2>3, ChosenAll
  <2>5. \A k \in 1..h : from_item(g[k]) = l[k]
    BY <2>1, <2>2, <2>4
  <2>6. from_query(t) = [k \in 1..h |-> l[k]]
    BY <1>3, <2>1, <2>4, <2>5
  <2>7. QED BY <1>1, <1>4, <2>6
<1>6. CASE h = 0
  <2>1. m = << <<>> >>
    BY <1>2, <1>6
  <2>2. Len(m) = 1 /\ m[1] = <<>>
    BY <2>1
  <2>3. \A k \in 1..Len(m) : k \notin Filled(m)
    BY <2>2 DEF Filled
  <2>4. g = <<>>
    BY <1>1, <1>2, <2>3, ChosenAll
  <2>5. from_query(t) = <<>>
    <3>1. DOMAIN g = {}
      BY <2>4
    <3>2. QED BY <1>3, <3>1
  <2>6. l = <<>>
    <3>1. <<>> \in Seq(Param) /\ Len(<<>>) = 0
      OBVIOUS
    <3>2. \A k \in 1..0 : FALSE
      OBVIOUS
    <3>3. Len(l) = 0 /\ \A k \in 1..Len(l) : l[k] = <<>>[k]
      BY <1>1, <1>6, <3>2
    <3>4. QED BY <3>1, <3>3, SeqEqual
  <2>7. QED BY <1>1, <2>5, <2>6
<1>7. QED BY <1>4, <1>5, <1>6

\* What is left of a list without the entries of a name.
LEMMA WithoutType ==
  ASSUME NEW T, NEW l \in Seq(T), NEW n
  PROVE  Without(l, n) \in Seq(T) /\ Named(l, n) \in Seq(T)
BY ChosenAll DEF Without, Named

\* A list in which an entry has taken the place of those of its name.
LEMMA ReplacedType ==
  ASSUME NEW T, NEW l \in Seq(T), NEW e \in T
  PROVE  Replaced(l, e) \in Seq(T)
<1> DEFINE E == {j \in DOMAIN l : l[j].name = e.name}
<1>1. CASE ~Holds(l, e.name)
  <2>1. Replaced(l, e) = Append(l, e)
    BY <1>1, Zenon DEF Replaced
  <2>2. QED BY <2>1
<1>2. CASE Holds(l, e.name)
  <2>1. PICK k, n, r : k = Min(E) /\ n = Len(l) /\ r = SubSeq(l, k + 1, n)
    OBVIOUS
  <2>2. n \in Nat /\ DOMAIN l = 1..n /\ \A j \in 1..n : l[j] \in T
    BY <2>1
  <2>3. E # {}
    <3>1. Chosen(l, E) # <<>>
      BY <1>2 DEF Holds, Named
    <3>2. (\A j \in 1..Len(l) : j \notin E) => Chosen(l, E) = <<>>
      <4> HIDE DEF E
      <4> QED BY ChosenAll
    <3> HIDE DEF E
    <3>3. QED BY <3>1, <3>2
  <2>4. k \in 1..n
    <3>1. E \in SUBSET Nat /\ \A y \in E : y \in 1..n
      BY <2>2
    <3> HIDE DEF E
    <3>2. QED BY <2>1, <2>3, <3>1, MinOf
  <2>5. PICK u : u = SubSeq(l, 1, k - 1)
    OBVIOUS
  <2>6. u \in Seq(T)
    <3>1. PICK x : x = k - 1
      OBVIOUS
    <3>2. x \in Int /\ 1 \in Int /\ \A j \in 1..x : l[j] \in T
      BY <2>2, <2>4, <3>1
    <3>3. SubSeq(l, 1, x) \in Seq(T)
      BY <3>2, SubSeqProperties
    <3>4. QED BY <2>5, <3>1, <3>3
  <2>7. r \in Seq(T)
    <3>1. PICK x : x = k + 1
      OBVIOUS
    <3>2. x \in Int /\ n \in Int /\ \A j \in x..n : l[j] \in T
      BY <2>2, <2>4, <3>1
    <3>3. SubSeq(l, x, n) \in Seq(T)
      BY <3>2, SubSeqProperties
    <3>4. QED BY <2>1, <3>1, <3>3
  <2>8. PICK w : w = Without(r, e.name) /\ w \in Seq(T)
    BY <2>7, WithoutType
  <2>9. Replaced(l, e) = u \o <<e>> \o w
    BY <1>2, <2>1, <2>5, <2>8, Zenon DEF Replaced
  <2>10. u \o <<e>> \o w \in Seq(T)
    BY <2>6, <2>8, ThreeParts
  <2>11. QED BY <2>9, <2>10
<1>3. QED BY <1>1, <1>2

\* A list in the order of its names.
LEMMA SortedType ==
  ASSUME NEW T, NEW l \in Seq(T), NEW N, NEW order \in Seq(N)
  PROVE  Sorted(l, order) \in Seq(T)
<1>1. PICK x, h : x = [k \in DOMAIN order |-> Named(l, order[k])] /\ h = Len(order)
  OBVIOUS
<1>2. x \in Seq(Seq(T))
  <2>1. h \in Nat /\ DOMAIN order = 1..h
    BY <1>1
  <2>2. \A k \in 1..h : Named(l, order[k]) \in Seq(T)
    BY WithoutType
  <2>3. QED BY <1>1, <2>1, <2>2
<1>3. FlattenSeq(x) = Flat(x)[Len(x)] /\ \A k \in 0..Len(x) : Flat(x)[k] \in Seq(T)
  BY <1>2, FlatIsWhole, FlatMeans
<1>4. Len(x) \in 0..Len(x)
  BY <1>2
<1>5. Sorted(l, order) = FlattenSeq(x)
  BY <1>1, Zenon DEF Sorted
<1>6. QED BY <1>3, <1>4, <1>5

\* The list holds texts, a query is one of those given until the list exists,
\* and from then on it says what the list says.
UrlInvariant ==
  /\ params \in Seq(Param) /\ has_params \in BOOLEAN
  /\ ~has_params => query \in Queries
  /\ ParamsMatchUrl

\* Nothing has been asked of a new URL.
LEMMA UrlStart ==
  ASSUME UrlInit PROVE UrlInvariant
<1>1. params = <<>> /\ has_params = FALSE /\ query \in Queries
  BY DEF UrlInit
<1>2. <<>> \in Seq(Param)
  OBVIOUS
<1>3. QED BY <1>1, <1>2 DEF UrlInvariant, ParamsMatchUrl

\* The list is changed, and the query is written from it.
LEMMA ParamsToKeeps ==
  ASSUME NEW l \in Seq(Param), ParamsTo(l), UrlInvariant
  PROVE  UrlInvariant'
<1>1. has_params /\ params' = l /\ query' = form_encode(l) /\ has_params' = has_params
  BY DEF ParamsTo
<1>2. from_query(query') = params'
  <2>1. from_query(form_encode(l)) = l
    BY FormBack
  <2>2. QED BY <1>1, <2>1
<1>3. has_params'
  BY <1>1
<1>4. has_params' \in BOOLEAN
  BY <1>1 DEF UrlInvariant
<1>5. params' \in Seq(Param)
  BY <1>1
<1>6. QED BY <1>2, <1>3, <1>4, <1>5, Zenon DEF UrlInvariant, ParamsMatchUrl

\* Every step of either side keeps the two together.
LEMMA UrlKeeps ==
  ASSUME UrlInvariant, [UrlNext]_urlVars
  PROVE  UrlInvariant'
<1>1. (\A n \in ToSet(Names) : n \in Seq(Characters)) /\ Names \in Seq(Seq(Characters))
  <2>1. Names \in Seq(Seq(Characters))
    BY UrlAssumption, Zenon DEF UrlAssumption
  <2>2. \A j \in DOMAIN Names : Names[j] \in Seq(Characters)
    BY <2>1
  <2>3. QED BY <2>1, <2>2 DEF ToSet
<1>2. (\A v \in Values : v \in Seq(Characters)) /\ (\A q \in Queries : q \in Seq(Characters))
  BY UrlAssumption, Zenon DEF UrlAssumption
<1>3. params \in Seq(Param)
  BY DEF UrlInvariant
<1>4. ASSUME NEW n \in ToSet(Names), NEW v \in Values PROVE Pair(n, v) \in Param
  BY <1>1, <1>2, <1>4 DEF Pair, Param
<1>5. CASE GetParams
  <2>1. ~has_params /\ has_params' = TRUE /\ params' = from_query(query) /\ query' = query
    BY <1>5 DEF GetParams
  <2>2. query \in Seq(Characters)
    BY <1>2, <2>1, Zenon DEF UrlInvariant
  <2>3. params' \in Seq(Param)
    BY <2>1, <2>2, QueryType
  <2>4. from_query(query') = params'
    BY <2>1
  <2>5. QED BY <2>1, <2>3, <2>4, Zenon DEF UrlInvariant, ParamsMatchUrl
<1>6. CASE ParamsSort
  <2>1. PICK l : l = Sorted(params, Names)
    OBVIOUS
  <2>2. l \in Seq(Param)
    BY <1>1, <1>3, <2>1, SortedType
  <2>3. ParamsTo(l)
    BY <1>6, <2>1 DEF ParamsSort
  <2>4. QED BY <2>2, <2>3, ParamsToKeeps
<1>7. ASSUME NEW n \in ToSet(Names), ParamsDelete(n) PROVE UrlInvariant'
  <2>1. PICK l : l = Without(params, n)
    OBVIOUS
  <2>2. l \in Seq(Param)
    BY <1>3, <2>1, WithoutType
  <2>3. ParamsTo(l)
    BY <1>7, <2>1 DEF ParamsDelete
  <2>4. QED BY <2>2, <2>3, ParamsToKeeps
<1>8. ASSUME NEW n \in ToSet(Names), NEW v \in Values, ParamsAppend(n, v) PROVE UrlInvariant'
  <2>1. PICK l, e : l = Append(params, e) /\ e = Pair(n, v)
    OBVIOUS
  <2>2. e \in Param
    BY <1>4, <2>1
  <2>3. l \in Seq(Param)
    BY <1>3, <2>1, <2>2
  <2>4. ParamsTo(l)
    BY <1>8, <2>1 DEF ParamsAppend
  <2>5. QED BY <2>3, <2>4, ParamsToKeeps
<1>9. ASSUME NEW n \in ToSet(Names), NEW v \in Values, ParamsSet(n, v) PROVE UrlInvariant'
  <2>1. PICK l, e : l = Replaced(params, e) /\ e = Pair(n, v)
    OBVIOUS
  <2>2. e \in Param
    BY <1>4, <2>1
  <2>3. l \in Seq(Param)
    BY <1>3, <2>1, <2>2, ReplacedType
  <2>4. ParamsTo(l)
    BY <1>9, <2>1 DEF ParamsSet
  <2>5. QED BY <2>3, <2>4, ParamsToKeeps
<1>10. ASSUME NEW q \in Queries, SetSearch(q) PROVE UrlInvariant'
  <2>1. query' = q /\ has_params' = has_params /\ params' = IF has_params THEN from_query(q) ELSE params
    BY <1>10 DEF SetSearch
  <2>2. from_query(q) \in Seq(Param)
    BY <1>2, QueryType
  <2>3. params' \in Seq(Param)
    BY <1>3, <2>1, <2>2
  <2>4. has_params' => from_query(query') = params'
    BY <2>1
  <2>5. has_params' \in BOOLEAN /\ query' \in Queries
    BY <2>1, Zenon DEF UrlInvariant
  <2>6. QED BY <2>3, <2>4, <2>5, Zenon DEF UrlInvariant, ParamsMatchUrl
<1>11. CASE UNCHANGED urlVars
  BY <1>11 DEF urlVars, UrlInvariant, ParamsMatchUrl
<1>12. QED BY <1>5, <1>6, <1>7, <1>8, <1>9, <1>10, <1>11, Zenon DEF UrlNext

\* A URL and its params say the same after every step, whichever side was changed.
THEOREM ParamsFollowUrl == UrlSpec => []ParamsMatchUrl
<1>1. UrlInit => UrlInvariant
  BY UrlStart
<1>2. UrlInvariant /\ [UrlNext]_urlVars => UrlInvariant'
  BY UrlKeeps
<1>3. UrlInvariant => ParamsMatchUrl
  BY DEF UrlInvariant
<1>4. QED BY <1>1, <1>2, <1>3, PTL DEF UrlSpec

=============================================================================

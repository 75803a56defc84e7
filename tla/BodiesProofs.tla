---------------------------- MODULE BodiesProofs ----------------------------
(***************************************************************************)
(* That a body is consumed once, and whole, for any number of objects,     *)
(* streams, calls and blocks.                                              *)
(*                                                                         *)
(* Once: a call belongs to an object that is used, an object's body is     *)
(* replaced only while it is not, and no step takes a stream's mark away;  *)
(* hence a used object stays used, and its body is refused to every later  *)
(* call. What the blocks are does not matter here: they are of some set    *)
(* that each read may extend.                                              *)
(*                                                                         *)
(* Whole: the streams form trees, and Roots, Chain and Remaining are       *)
(* defined along them. That these functions exist and mean what their      *)
(* definitions say is proved by looking at the least stream where it could *)
(* fail. From it follows what a read changes: the block goes to the stream *)
(* that asked, every other stream below the chain gets it in its buffer,   *)
(* and what any of them still gives remains the same. WholeInv says which  *)
(* streams nobody else may read.                                           *)
(***************************************************************************)
EXTENDS Bodies, SequenceTheorems, WellFoundedInduction, TLAPS

\* A stream that was cancelled is one that was read.
StreamOf(V) == {x \in [parent : Nat, given : Nat, buf : Seq(V),
                       disturbed : BOOLEAN, locked : BOOLEAN, reader : BOOLEAN, cut : BOOLEAN] :
                  x.cut => x.disturbed}

ObjectType == [kind : {"Request", "Response"}, body : Nat, list : Types \cup {None},
               body_js : Nat, headers_js : Types \cup {None}]

CallOf(V) == [object : Nat, stream : Nat, got : Seq(V), done : BOOLEAN,
              sent : Types \cup {None}, shown : Types \cup {None}]

\* The blocks that travel are of some set V.
Typed(V) == streams \in Seq(StreamOf(V)) /\ calls \in Seq(CallOf(V))

ObjectsTyped ==
  /\ objects \in Seq(ObjectType)
  /\ \A o \in DOMAIN objects : objects[o].body <= Len(streams)

\* A call of text(), json() ... belongs to an object that is used.
CallsUse == \A c \in DOMAIN calls :
              calls[c].object # 0 => calls[c].object \in DOMAIN objects /\ Used(calls[c].object)

BodiesInv == (\E V : Typed(V)) /\ ObjectsTyped /\ CallsUse /\ ConsumedOnce

-----------------------------------------------------------------------------
\* Marking a stream leaves the marks of the others.
LEMMA DisturbKeeps ==
  ASSUME NEW V, NEW ss \in Seq(StreamOf(V)), NEW s
  PROVE  /\ Disturb(ss, s) \in Seq(StreamOf(V)) /\ Len(Disturb(ss, s)) = Len(ss)
         /\ \A t \in 1..Len(ss) : ss[t].disturbed => Disturb(ss, s)[t].disturbed
         /\ s \in 1..Len(ss) => Disturb(ss, s)[s].disturbed
<1>1. Disturb(ss, s) = IF s \in 1..Len(ss)
                       THEN [ss EXCEPT ![s] = [ss[s] EXCEPT !.disturbed = TRUE]] ELSE ss
  BY DEF Disturb
<1>2. CASE s \in 1..Len(ss)
  <2>1. ss[s] \in StreamOf(V)
    BY <1>2
  <2>2. [ss[s] EXCEPT !.disturbed = TRUE] \in StreamOf(V) /\ [ss[s] EXCEPT !.disturbed = TRUE].disturbed
    BY <2>1 DEF StreamOf
  <2>3. QED BY <1>1, <1>2, <2>2
<1>3. CASE s \notin 1..Len(ss)
  BY <1>1, <1>3
<1>4. QED BY <1>2, <1>3

\* A sequence of streams, or of calls, is one whatever other blocks there may be.
LEMMA MoreBlocks ==
  ASSUME NEW V, NEW W, V \subseteq W
  PROVE  Seq(StreamOf(V)) \subseteq Seq(StreamOf(W)) /\ Seq(CallOf(V)) \subseteq Seq(CallOf(W))
<1>1. Seq(V) \subseteq Seq(W)
  OBVIOUS
<1>2. StreamOf(V) \subseteq StreamOf(W) /\ CallOf(V) \subseteq CallOf(W)
  BY <1>1 DEF StreamOf, CallOf
<1>3. QED BY <1>2

\* A block that travels changes no mark.
LEMMA PulledKeeps ==
  ASSUME NEW V, streams \in Seq(StreamOf(V)), NEW s
  PROVE  /\ Pulled(s) \in Seq(StreamOf(V \cup {NextBlock(s)})) /\ Len(Pulled(s)) = Len(streams)
         /\ \A t \in 1..Len(streams) : Pulled(s)[t].disturbed = streams[t].disturbed
<1> DEFINE W == V \cup {NextBlock(s)}
           way == ToSet(Chain[s])
           h == Last(Chain[s])
           n == NextBlock(s)
           Passed(t) ==
             IF t = h
             THEN IF streams[t].buf # <<>> THEN [streams[t] EXCEPT !.buf = Tail(@)]
                  ELSE [streams[t] EXCEPT !.given = @ + 1]
             ELSE IF t \notin way /\ streams[t].parent \in way \ {s}
             THEN [streams[t] EXCEPT !.buf = Append(@, n)]
             ELSE streams[t]
<1>1. streams \in Seq(StreamOf(W))
  BY MoreBlocks
<1>2. n \in W
  OBVIOUS
<1>3. Pulled(s) = IF AtEnd(s) THEN streams ELSE [t \in DOMAIN streams |-> Passed(t)]
  BY DEF Pulled
<1> HIDE DEF W, way, h, n
<1>4. ASSUME NEW t \in 1..Len(streams)
      PROVE  Passed(t) \in StreamOf(W) /\ Passed(t).disturbed = streams[t].disturbed
  <2>1. streams[t] \in StreamOf(W)
    BY <1>1, <1>4
  <2>2. streams[t].buf \in Seq(W) /\ streams[t].given + 1 \in Nat
    BY <2>1 DEF StreamOf
  <2>3. Append(streams[t].buf, n) \in Seq(W)
    BY <1>2, <2>2
  <2>4. streams[t].buf # <<>> => Tail(streams[t].buf) \in Seq(W)
    BY <2>2
  <2>5. QED BY <2>1, <2>2, <2>3, <2>4 DEF StreamOf
<1> HIDE DEF Passed
<1>5. DOMAIN streams = 1..Len(streams) /\ Len(streams) \in Nat
  BY <1>1
<1>6. CASE AtEnd(s)
  BY <1>1, <1>3, <1>6 DEF W
<1>7. CASE ~AtEnd(s)
  <2> DEFINE ss == [t \in 1..Len(streams) |-> Passed(t)]
  <2>1. Pulled(s) = ss
    BY <1>3, <1>5, <1>7
  <2>2. ss \in [1..Len(streams) -> StreamOf(W)]
    BY <1>4
  <2>3. ss \in Seq(StreamOf(W)) /\ DOMAIN ss = 1..Len(streams)
    BY <1>5, <2>2, SeqDef
  <2>4. Len(ss) = Len(streams)
    BY <1>5, <2>3, LenProperties
  <2>5. \A t \in 1..Len(streams) : ss[t].disturbed = streams[t].disturbed
    BY <1>4
  <2> HIDE DEF ss
  <2>6. QED BY <2>1, <2>3, <2>4, <2>5 DEF W
<1>8. QED BY <1>6, <1>7

\* The branches of a tee come after the streams there are.
LEMMA TeeKeeps ==
  ASSUME NEW V, streams \in Seq(StreamOf(V)), NEW s \in Nat
  PROVE  /\ Tee(s) \in Seq(StreamOf(V))
         /\ Len(Tee(s)) = IF s = 0 THEN Len(streams) ELSE Len(streams) + 2
         /\ \A t \in 1..Len(streams) : Tee(s)[t] = streams[t]
<1>1. Stream(s) \in StreamOf(V)
  BY DEF Stream, StreamOf
<1> HIDE DEF Stream, StreamOf
<1> DEFINE two == <<Stream(s), Stream(s)>>
<1>2. two \in Seq(StreamOf(V)) /\ Len(two) = 2
  BY <1>1
<1> HIDE DEF two
<1>3. /\ streams \o two \in Seq(StreamOf(V)) /\ Len(streams \o two) = Len(streams) + Len(two)
      /\ \A i \in 1..Len(streams) + Len(two) :
           (streams \o two)[i] = IF i <= Len(streams) THEN streams[i] ELSE two[i - Len(streams)]
  BY <1>2, ConcatProperties
<1>4. Tee(s) = IF s = 0 THEN streams ELSE streams \o two
  BY DEF Tee, two
<1>5. QED BY <1>2, <1>3, <1>4

\* One more stream leaves the others alone.
LEMMA StreamAppended ==
  ASSUME NEW V, NEW ss \in Seq(StreamOf(V)), NEW p \in Nat
  PROVE  /\ Append(ss, Stream(p)) \in Seq(StreamOf(V)) /\ Len(Append(ss, Stream(p))) = Len(ss) + 1
         /\ \A t \in 1..Len(ss) : Append(ss, Stream(p))[t] = ss[t]
<1>1. Stream(p) \in StreamOf(V)
  BY DEF Stream, StreamOf
<1>2. QED BY <1>1, AppendProperties

\* What a stream is once it is cancelled.
LEMMA CancelledStream ==
  ASSUME NEW V, NEW ss \in Seq(StreamOf(V)), NEW s \in 1..Len(ss),
         NEW locked \in BOOLEAN, NEW end
  PROVE  LET x == [ss[s] EXCEPT !.disturbed = TRUE, !.locked = locked, !.cut = ss[s].cut \/ ~end] IN
         x \in StreamOf(V) /\ x.disturbed
<1> DEFINE z == ss[s].cut \/ ~end
<1>1. ss[s] \in StreamOf(V) /\ z \in BOOLEAN
  OBVIOUS
<1> HIDE DEF z
<1> DEFINE x == [ss[s] EXCEPT !.disturbed = TRUE, !.locked = locked, !.cut = z]
<1>2. x \in StreamOf(V) /\ x.disturbed
  BY <1>1 DEF StreamOf
<1>3. QED BY <1>2 DEF z

-----------------------------------------------------------------------------
\* What every step does with the streams and with the bodies of the objects: a mark stays,
\* and only a body without one is replaced.
MarksStay == /\ Len(streams') >= Len(streams)
             /\ \A t \in 1..Len(streams) : streams[t].disturbed => streams'[t].disturbed

BodiesStay == /\ Len(objects') >= Len(objects)
              /\ \A o \in 1..Len(objects) : objects'[o].body = objects[o].body \/ ~Used(o)

\* The streams ss are those of now, marked further, and perhaps more.
Grown(ss, V) == /\ ss \in Seq(StreamOf(V)) /\ Len(ss) >= Len(streams)
                /\ \A t \in 1..Len(streams) : streams[t].disturbed => ss[t].disturbed

Kept == (\E V : Typed(V)') /\ ObjectsTyped' /\ MarksStay /\ BodiesStay

\* Used objects stay used.
LEMMA UsedStays ==
  ASSUME BodiesInv, Kept, NEW o \in DOMAIN objects, Used(o)
  PROVE  Used(o)'
<1>1. PICK V : streams \in Seq(StreamOf(V))
  BY DEF BodiesInv, Typed
<1>2. PICK W : streams' \in Seq(StreamOf(W))
  BY DEF Kept, Typed
<1>3. objects \in Seq(ObjectType) /\ objects[o].body \in Nat /\ objects[o].body <= Len(streams)
  <2>1. objects \in Seq(ObjectType) /\ objects[o].body <= Len(streams)
    BY DEF BodiesInv, ObjectsTyped
  <2>2. objects[o] \in ObjectType
    BY <2>1
  <2>3. QED BY <2>1, <2>2 DEF ObjectType
<1>4. objects[o].body \in 1..Len(streams) /\ streams[objects[o].body].disturbed
  BY <1>1, <1>3 DEF Used
<1>5. o \in 1..Len(objects)
  BY <1>3
<1>6. objects'[o].body = objects[o].body
  BY <1>5 DEF Kept, BodiesStay
<1>7. QED BY <1>4, <1>6 DEF Kept, MarksStay, Used

\* An object that gets another body.
LEMMA BodyReplaced ==
  ASSUME ObjectsTyped, \E V : Typed(V), NEW n \in Nat, n >= Len(streams),
         NEW o \in DOMAIN objects, NEW b \in 0..n
  PROVE  LET k == [objects EXCEPT ![o].body = b] IN
         /\ k \in Seq(ObjectType) /\ Len(k) = Len(objects) /\ k[o].body = b
         /\ \A p \in 1..Len(objects) : k[p].body <= n
         /\ \A p \in 1..Len(objects) \ {o} : k[p] = objects[p]
<1>1. /\ objects \in Seq(ObjectType) /\ o \in 1..Len(objects) /\ Len(streams) \in Nat
      /\ \A p \in 1..Len(objects) : objects[p].body <= Len(streams)
  BY DEF ObjectsTyped, Typed
<1>2. \A p \in 1..Len(objects) : objects[p] \in ObjectType
  BY <1>1
<1>3. \A p \in 1..Len(objects) : objects[p].body \in Nat
  BY <1>2 DEF ObjectType
<1> DEFINE k == [objects EXCEPT ![o].body = b]
           e == [objects[o] EXCEPT !.body = b]
<1>4. e \in ObjectType /\ e.body = b
  <2>1. objects[o] \in ObjectType /\ b \in Nat
    BY <1>1, <1>2
  <2>2. QED BY <2>1 DEF ObjectType
<1>5. k = [objects EXCEPT ![o] = e]
  OBVIOUS
<1> HIDE DEF e, k
<1>6. /\ k \in Seq(ObjectType) /\ Len(k) = Len(objects)
      /\ \A p \in 1..Len(objects) : k[p] = IF p = o THEN e ELSE objects[p]
  BY <1>1, <1>4, <1>5, ExceptSeq
<1>7. ASSUME NEW p \in 1..Len(objects) PROVE k[p].body <= n
  <2>1. objects[p].body <= n
    BY <1>1, <1>3
  <2>2. QED BY <1>4, <1>6, <2>1
<1>8. QED BY <1>1, <1>4, <1>6, <1>7 DEF k

\* A new object is one of the type, with the body it is given.
LEMMA ObjectAppended ==
  ASSUME NEW k \in Seq(ObjectType), NEW n \in Nat, \A p \in 1..Len(k) : k[p].body <= n,
         NEW kind \in {"Request", "Response"}, NEW b \in 0..n, NEW t \in Types \cup {None}
  PROVE  /\ Append(k, Object(kind, b, t)) \in Seq(ObjectType)
         /\ Len(Append(k, Object(kind, b, t))) = Len(k) + 1
         /\ \A p \in 1..Len(k) : Append(k, Object(kind, b, t))[p] = k[p]
         /\ \A p \in 1..Len(k) + 1 : Append(k, Object(kind, b, t))[p].body <= n
<1> DEFINE x == Object(kind, b, t)
<1>1. x \in ObjectType /\ x.body = b
  BY DEF Object, ObjectType
<1> HIDE DEF x
<1>2. /\ Append(k, x) \in Seq(ObjectType) /\ Len(Append(k, x)) = Len(k) + 1 /\ Len(k) \in Nat
      /\ \A p \in 1..Len(k) : Append(k, x)[p] = k[p]
      /\ Append(k, x)[Len(k) + 1] = x
  BY <1>1, AppendProperties
<1>3. QED BY <1>1, <1>2 DEF x

-----------------------------------------------------------------------------
\* Whatever a step does, marks and used bodies stay.
LEMMA StepKeeps == BodiesInv /\ [Next]_vars => Kept
<1> SUFFICES ASSUME BodiesInv, [Next]_vars PROVE Kept
  OBVIOUS
<1>1. PICK V : Typed(V)
  BY DEF BodiesInv
<1>2. /\ streams \in Seq(StreamOf(V)) /\ calls \in Seq(CallOf(V)) /\ Len(streams) \in Nat
      /\ objects \in Seq(ObjectType) /\ Len(objects) \in Nat
      /\ DOMAIN streams = 1..Len(streams) /\ DOMAIN objects = 1..Len(objects)
      /\ \A o \in 1..Len(objects) : objects[o] \in ObjectType /\ objects[o].body <= Len(streams)
  BY <1>1 DEF Typed, BodiesInv, ObjectsTyped
<1>3. ASSUME NEW o \in 1..Len(objects)
      PROVE  /\ objects[o].body \in 0..Len(streams) /\ objects[o].body_js \in Nat
             /\ objects[o].kind \in {"Request", "Response"}
             /\ objects[o].list \in Types \cup {None} /\ Visible(o) \in Types \cup {None}
  BY <1>2 DEF ObjectType, Visible
\* The streams change and nothing else does.
<1>4. ASSUME NEW W, streams' \in Seq(StreamOf(W)), calls' \in Seq(CallOf(W)), UNCHANGED objects,
             MarksStay
      PROVE  Kept
  <2>1. Len(streams') \in Nat
    BY <1>4
  <2>2. ObjectsTyped' /\ BodiesStay
    BY <1>2, <1>3, <1>4, <2>1 DEF ObjectsTyped, MarksStay, BodiesStay
  <2>3. QED BY <1>4, <2>2 DEF Kept, Typed
\* A free body is replaced by a later stream.
<1>5. ASSUME NEW o \in 1..Len(objects), Free(objects[o].body),
             NEW b \in 0..Len(streams'),
             streams' \in Seq(StreamOf(V)), calls' \in Seq(CallOf(V)), MarksStay,
             objects' = [objects EXCEPT ![o].body = b]
      PROVE  Kept
  <2>1. Len(streams') \in Nat /\ Len(streams') >= Len(streams)
    BY <1>5 DEF MarksStay
  <2>2. /\ objects' \in Seq(ObjectType) /\ Len(objects') = Len(objects)
        /\ \A p \in 1..Len(objects) : objects'[p].body <= Len(streams')
        /\ \A p \in 1..Len(objects) \ {o} : objects'[p] = objects[p]
    <3> DEFINE n == Len(streams')
    <3>1. ObjectsTyped /\ \E W : Typed(W)
      BY DEF BodiesInv
    <3>2. /\ n \in Nat /\ n >= Len(streams) /\ o \in DOMAIN objects /\ b \in 0..n
          /\ objects' = [objects EXCEPT ![o].body = b]
      BY <1>2, <1>5, <2>1
    <3> HIDE DEF n
    <3> DEFINE j == [objects EXCEPT ![o].body = b]
    <3>3. /\ j \in Seq(ObjectType) /\ Len(j) = Len(objects)
          /\ \A p \in 1..Len(objects) : j[p].body <= n
          /\ \A p \in 1..Len(objects) \ {o} : j[p] = objects[p]
      BY <3>1, <3>2, BodyReplaced
    <3> HIDE DEF j
    <3>4. QED BY <3>2, <3>3 DEF n, j
  <2>3. ~Used(o)
    BY <1>3, <1>5 DEF Free, Used
  <2>4. BodiesStay
    BY <1>2, <2>2, <2>3 DEF BodiesStay
  <2>5. ObjectsTyped'
    BY <2>2 DEF ObjectsTyped
  <2>6. QED BY <1>5, <2>4, <2>5 DEF Kept, Typed
\* The same, and a new object over another stream.
<1>6. ASSUME NEW o \in 1..Len(objects), Free(objects[o].body),
             NEW b \in 0..Len(streams'), NEW c \in 0..Len(streams'),
             NEW k \in {"Request", "Response"}, NEW t \in Types \cup {None},
             streams' \in Seq(StreamOf(V)), calls' \in Seq(CallOf(V)), MarksStay,
             objects' = Append([objects EXCEPT ![o].body = b], Object(k, c, t))
      PROVE  Kept
  <2>1. Len(streams') \in Nat /\ Len(streams') >= Len(streams)
    BY <1>6 DEF MarksStay
  <2> DEFINE j == [objects EXCEPT ![o].body = b]
  <2>2. /\ j \in Seq(ObjectType) /\ Len(j) = Len(objects) /\ j[o].body = b
        /\ \A p \in 1..Len(j) : j[p].body <= Len(streams')
        /\ \A p \in 1..Len(objects) \ {o} : j[p] = objects[p]
    <3> DEFINE n == Len(streams')
    <3>1. ObjectsTyped /\ \E W : Typed(W)
      BY DEF BodiesInv
    <3>2. n \in Nat /\ n >= Len(streams) /\ o \in DOMAIN objects /\ b \in 0..n
      BY <1>2, <1>6, <2>1
    <3>3. j = [objects EXCEPT ![o].body = b]
      OBVIOUS
    <3> HIDE DEF n, j
    <3>4. /\ j \in Seq(ObjectType) /\ Len(j) = Len(objects) /\ j[o].body = b
          /\ \A p \in 1..Len(objects) : j[p].body <= n
          /\ \A p \in 1..Len(objects) \ {o} : j[p] = objects[p]
      BY <3>1, <3>2, <3>3, BodyReplaced
    <3>5. QED BY <3>4 DEF n
  <2> HIDE DEF j
  <2>3. objects' = Append(j, Object(k, c, t))
    BY <1>6 DEF j
  <2>4. /\ objects' \in Seq(ObjectType) /\ Len(objects') = Len(objects) + 1
        /\ \A p \in 1..Len(objects) : objects'[p] = j[p]
        /\ \A p \in 1..Len(objects) + 1 : objects'[p].body <= Len(streams')
    <3> DEFINE n == Len(streams')
    <3>1. n \in Nat /\ c \in 0..n /\ k \in {"Request", "Response"} /\ t \in Types \cup {None}
      BY <1>6, <2>1
    <3>2. j \in Seq(ObjectType) /\ \A p \in 1..Len(j) : j[p].body <= n
      BY <2>2
    <3> HIDE DEF n
    <3> DEFINE l == Append(j, Object(k, c, t))
    <3>3. /\ l \in Seq(ObjectType) /\ Len(l) = Len(j) + 1
          /\ \A p \in 1..Len(j) : l[p] = j[p]
          /\ \A p \in 1..Len(j) + 1 : l[p].body <= n
      BY <3>1, <3>2, ObjectAppended, SMTT(60)
    <3>4. QED BY <2>2, <2>3, <3>3 DEF n
  <2>5. ObjectsTyped'
    BY <2>4 DEF ObjectsTyped
  <2>6. ~Used(o)
    BY <1>3, <1>6 DEF Free, Used
  <2>7. BodiesStay
    BY <1>2, <1>6, <2>2, <2>4, <2>6 DEF BodiesStay
  <2>8. QED BY <1>6, <2>5, <2>7 DEF Kept, Typed
\* A new object only.
<1>7. ASSUME NEW c \in 0..Len(streams'), NEW k \in {"Request", "Response"},
             NEW t \in Types \cup {None},
             streams' \in Seq(StreamOf(V)), calls' \in Seq(CallOf(V)), MarksStay,
             objects' = Append(objects, Object(k, c, t))
      PROVE  Kept
  <2>1. /\ Len(streams') \in Nat
        /\ \A p \in 1..Len(objects) : objects[p].body <= Len(streams')
    BY <1>2, <1>3, <1>7 DEF MarksStay
  <2>2. /\ objects' \in Seq(ObjectType) /\ Len(objects') = Len(objects) + 1
        /\ \A p \in 1..Len(objects) : objects'[p] = objects[p]
        /\ \A p \in 1..Len(objects) + 1 : objects'[p].body <= Len(streams')
    <3> DEFINE n == Len(streams')
    <3>1. n \in Nat /\ c \in 0..n /\ \A p \in 1..Len(objects) : objects[p].body <= n
      BY <1>7, <2>1
    <3>2. objects \in Seq(ObjectType) /\ objects' = Append(objects, Object(k, c, t))
      BY <1>2, <1>7
    <3> HIDE DEF n
    <3> DEFINE l == Append(objects, Object(k, c, t))
    <3>3. /\ l \in Seq(ObjectType) /\ Len(l) = Len(objects) + 1
          /\ \A p \in 1..Len(objects) : l[p] = objects[p]
          /\ \A p \in 1..Len(objects) + 1 : l[p].body <= n
      <4>1. k \in {"Request", "Response"} /\ t \in Types \cup {None}
        BY <1>7
      <4>2. QED BY <3>1, <3>2, <4>1, ObjectAppended, SMTT(60)
    <3>4. QED BY <3>2, <3>3 DEF n
  <2>3. ObjectsTyped' /\ BodiesStay
    BY <1>2, <2>2 DEF ObjectsTyped, BodiesStay
  <2>4. QED BY <1>7, <2>3 DEF Kept, Typed
\* One more call.
<1>8. ASSUME NEW o \in Nat, NEW s \in Nat, NEW t \in Types \cup {None}, NEW u \in Types \cup {None}
      PROVE  /\ Append(calls, Reading(o, s, t)) \in Seq(CallOf(V))
             /\ Append(calls, [Reading(o, s, t) EXCEPT !.shown = u]) \in Seq(CallOf(V))
  <2>1. <<>> \in Seq(V) /\ (s = 0) \in BOOLEAN
    OBVIOUS
  <2>2. Reading(o, s, t) \in CallOf(V)
    BY <1>8, <2>1 DEF Reading, CallOf
  <2>3. [Reading(o, s, t) EXCEPT !.shown = u] \in CallOf(V)
    BY <1>8, <2>2 DEF CallOf
  <2>4. QED BY <1>2, <2>2, <2>3, AppendProperties
\* The streams that the steps make.
<1>9. ASSUME NEW s \in 0..Len(streams)
      PROVE  /\ Tee(s) \in Seq(StreamOf(V)) /\ Len(Tee(s)) >= Len(streams)
             /\ BranchA(s) \in 0..Len(Tee(s)) /\ BranchB(s) \in 0..Len(Tee(s))
             /\ \A t \in 1..Len(streams) : Tee(s)[t] = streams[t]
             /\ Grown(Tee(s), V) /\ BranchA(s) \in Nat /\ BranchB(s) \in Nat
  <2>1. s \in Nat /\ Len(streams) \in Nat
    BY <1>2, <1>9
  <2>2. /\ Tee(s) \in Seq(StreamOf(V))
        /\ Len(Tee(s)) = IF s = 0 THEN Len(streams) ELSE Len(streams) + 2
        /\ \A t \in 1..Len(streams) : Tee(s)[t] = streams[t]
    BY <1>2, <2>1, TeeKeeps
  <2>3. /\ Len(Tee(s)) >= Len(streams) /\ BranchA(s) \in Nat /\ BranchB(s) \in Nat
        /\ BranchA(s) \in 0..Len(Tee(s)) /\ BranchB(s) \in 0..Len(Tee(s))
    BY <2>1, <2>2 DEF BranchA, BranchB
  <2> DEFINE ss == Tee(s)
  <2>4. /\ ss \in Seq(StreamOf(V)) /\ Len(ss) >= Len(streams)
        /\ \A t \in 1..Len(streams) : ss[t] = streams[t]
    BY <2>2, <2>3
  <2> HIDE DEF ss
  <2>5. Grown(ss, V)
    BY <2>4 DEF Grown
  <2>6. QED BY <2>2, <2>3, <2>5 DEF ss
<1>10. ASSUME NEW s \in Nat, NEW ss, Grown(ss, V)
       PROVE  /\ Grown(Disturb(ss, s), V) /\ Len(Disturb(ss, s)) = Len(ss)
              /\ s \in 1..Len(ss) => Disturb(ss, s)[s].disturbed
  <2>1. ss \in Seq(StreamOf(V)) /\ Len(ss) \in Nat
    BY <1>10 DEF Grown
  <2> DEFINE d == Disturb(ss, s)
  <2>2. /\ d \in Seq(StreamOf(V)) /\ Len(d) = Len(ss)
        /\ \A t \in 1..Len(ss) : ss[t].disturbed => d[t].disturbed
        /\ s \in 1..Len(ss) => d[s].disturbed
    BY <2>1, DisturbKeeps
  <2> HIDE DEF d
  <2>3. Grown(d, V)
    BY <1>2, <1>10, <2>1, <2>2 DEF Grown
  <2>4. QED BY <2>2, <2>3 DEF d
<1>11. Grown(streams, V)
  BY <1>2 DEF Grown
<1>12. ASSUME Grown(streams', V) PROVE streams' \in Seq(StreamOf(V)) /\ MarksStay
  BY <1>12 DEF Grown, MarksStay
\* One step per action.
<1>13. ASSUME NEW k \in {"Request", "Response"}, NEW t \in Types, NewObject(k, t) PROVE Kept
  <2>1. /\ streams' = Append(streams, Stream(0)) /\ calls' = calls
        /\ objects' = Append(objects, Object(k, Len(streams) + 1, t))
    BY <1>13 DEF NewObject
  <2>2. /\ streams' \in Seq(StreamOf(V)) /\ Len(streams') = Len(streams) + 1 /\ MarksStay
    BY <1>2, <2>1, StreamAppended DEF MarksStay
  <2>3. QED BY <1>2, <1>7, <2>1, <2>2
<1>14. ASSUME NEW o \in DOMAIN objects, BodyGetter(o) PROVE Kept
  <2>1. /\ streams' = streams /\ calls' = calls
        /\ objects' = [objects EXCEPT ![o].body_js = objects[o].body]
    BY <1>14 DEF BodyGetter
  <2>2. [objects[o] EXCEPT !.body_js = objects[o].body] \in ObjectType
    BY <1>2, <1>3 DEF ObjectType
  <2>3. /\ objects' \in Seq(ObjectType) /\ Len(objects') = Len(objects)
        /\ \A p \in 1..Len(objects) : objects'[p].body = objects[p].body
    BY <1>2, <2>1, <2>2 DEF ObjectType
  <2>4. QED BY <1>2, <2>1, <2>3 DEF Kept, Typed, ObjectsTyped, MarksStay, BodiesStay
<1>15. ASSUME NEW o \in DOMAIN objects, NEW t \in Types, SetHeader(o, t) PROVE Kept
  <2>1. /\ streams' = streams /\ calls' = calls
        /\ objects' = [objects EXCEPT ![o].headers_js = t]
    BY <1>15 DEF SetHeader
  <2>2. [objects[o] EXCEPT !.headers_js = t] \in ObjectType
    BY <1>2 DEF ObjectType
  <2>3. /\ objects' \in Seq(ObjectType) /\ Len(objects') = Len(objects)
        /\ \A p \in 1..Len(objects) : objects'[p].body = objects[p].body
    BY <1>2, <2>1, <2>2 DEF ObjectType
  <2>4. QED BY <1>2, <2>1, <2>3 DEF Kept, Typed, ObjectsTyped, MarksStay, BodiesStay
<1>16. ASSUME NEW o \in DOMAIN objects, GetReader(o) PROVE Kept
  <2> DEFINE s == objects[o].body_js
  <2>1. /\ streams' = [streams EXCEPT ![s].locked = TRUE, ![s].reader = TRUE]
        /\ calls' = calls /\ objects' = objects
    BY <1>16 DEF GetReader
  <2> HIDE DEF s
  <2>2. streams' \in Seq(StreamOf(V)) /\ MarksStay
    <3>1. CASE s \in 1..Len(streams)
      <4> DEFINE e == [streams[s] EXCEPT !.locked = TRUE, !.reader = TRUE]
      <4>1. streams[s] \in StreamOf(V)
        BY <1>2, <3>1
      <4>2. e \in StreamOf(V) /\ e.disturbed = streams[s].disturbed
        BY <4>1 DEF StreamOf
      <4>3. streams' = [streams EXCEPT ![s] = e]
        BY <1>2, <2>1, <3>1
      <4> HIDE DEF e
      <4>4. QED BY <1>2, <3>1, <4>2, <4>3 DEF MarksStay
    <3>2. CASE s \notin 1..Len(streams)
      <4>1. [streams EXCEPT ![s].locked = TRUE] = streams
        BY <1>2, <3>2
      <4>2. [streams EXCEPT ![s].reader = TRUE] = streams
        BY <1>2, <3>2
      <4>3. streams' = streams
        BY <2>1, <4>1, <4>2
      <4>4. QED BY <1>2, <4>3 DEF MarksStay
    <3>3. QED BY <3>1, <3>2
  <2>3. QED BY <1>2, <1>4, <2>1, <2>2
<1>17. ASSUME NEW s \in DOMAIN streams, ReleaseLock(s) PROVE Kept
  <2>1. /\ streams' = [streams EXCEPT ![s].locked = FALSE] /\ calls' = calls /\ objects' = objects
    BY <1>17 DEF ReleaseLock
  <2> DEFINE e == [streams[s] EXCEPT !.locked = FALSE]
  <2>2. streams[s] \in StreamOf(V)
    BY <1>2
  <2>3. e \in StreamOf(V) /\ e.disturbed = streams[s].disturbed
    BY <2>2 DEF StreamOf
  <2>4. streams' = [streams EXCEPT ![s] = e]
    BY <2>1
  <2> HIDE DEF e
  <2>5. streams' \in Seq(StreamOf(V)) /\ MarksStay
    BY <1>2, <2>3, <2>4 DEF MarksStay
  <2>6. QED BY <1>2, <1>4, <2>1, <2>5
<1>18. ASSUME NEW s \in DOMAIN streams, ReaderRead(s) PROVE Kept
  <2>1. streams' = Disturb(Pulled(s), s) /\ calls' = calls /\ objects' = objects
    BY <1>18 DEF ReaderRead
  <2> DEFINE W == V \cup {NextBlock(s)}
  <2>2. /\ Pulled(s) \in Seq(StreamOf(W)) /\ Len(Pulled(s)) = Len(streams)
        /\ \A t \in 1..Len(streams) : Pulled(s)[t].disturbed = streams[t].disturbed
    BY <1>2, PulledKeeps
  <2>3. calls \in Seq(CallOf(W))
    BY <1>2, MoreBlocks
  <2> HIDE DEF W
  <2>4. /\ streams' \in Seq(StreamOf(W)) /\ Len(streams') = Len(Pulled(s))
        /\ \A t \in 1..Len(Pulled(s)) : Pulled(s)[t].disturbed => streams'[t].disturbed
    BY <2>1, <2>2, DisturbKeeps
  <2>5. MarksStay
    <3>1. Len(streams') = Len(streams) /\ Len(streams) \in Nat /\ DOMAIN streams = 1..Len(streams)
      BY <1>2, <2>2, <2>4
    <3>2. \A t \in 1..Len(streams) : streams[t].disturbed => streams'[t].disturbed
      BY <2>2, <2>4
    <3>3. QED BY <3>1, <3>2 DEF MarksStay
  <2>6. QED BY <1>4, <2>1, <2>3, <2>4, <2>5
<1>31. ASSUME NEW s, NEW locked \in BOOLEAN, Cancel(s, locked) PROVE Kept
  <2> DEFINE z == streams[s].cut \/ ~AtEnd(s)
             x == [streams[s] EXCEPT !.disturbed = TRUE, !.locked = locked, !.cut = z]
  <2>1. /\ calls' = calls /\ objects' = objects
        /\ streams' = IF s \in 1..Len(streams) THEN [streams EXCEPT ![s] = x] ELSE streams
    <3>1. calls' = calls /\ objects' = objects /\ streams' = [streams EXCEPT ![s] = x]
      BY <1>31 DEF Cancel
    <3> HIDE DEF x
    <3>2. s \notin 1..Len(streams) => [streams EXCEPT ![s] = x] = streams
      BY <1>2
    <3>3. QED BY <3>1, <3>2
  <2>2. s \in 1..Len(streams) => x \in StreamOf(V) /\ x.disturbed
    BY <1>2, CancelledStream
  <2> HIDE DEF x
  <2>3. streams' \in Seq(StreamOf(V)) /\ MarksStay
    BY <1>2, <2>1, <2>2 DEF MarksStay
  <2>4. QED BY <1>2, <1>4, <2>1, <2>3
<1>32. ASSUME NEW o \in DOMAIN objects, CancelBody(o) PROVE Kept
  <2>1. objects[o].body_js # 0 /\ Cancel(objects[o].body_js, streams[objects[o].body_js].locked)
    BY <1>32 DEF CancelBody
  <2> DEFINE s == objects[o].body_js
             b == streams[s].locked
  <2>2. CASE s \in 1..Len(streams)
    <3>1. b \in BOOLEAN
      <4>1. streams[s] \in StreamOf(V)
        BY <1>2, <2>2
      <4>2. QED BY <4>1 DEF StreamOf
    <3> HIDE DEF s, b
    <3>2. QED BY <1>31, <2>1, <3>1 DEF s, b
  <2>3. CASE s \notin 1..Len(streams)
    <3>1. streams' = streams /\ calls' = calls /\ objects' = objects
      <4> HIDE DEF s
      <4>1. Cancel(s, b)
        BY <2>1 DEF s
      <4>2. [streams EXCEPT ![s].disturbed = TRUE] = streams
        BY <1>2, <2>3
      <4>3. [streams EXCEPT ![s].locked = b] = streams
        BY <1>2, <2>3
      <4>4. [streams EXCEPT ![s].cut = @ \/ ~AtEnd(s)] = streams
        BY <1>2, <2>3
      <4>5. QED BY <4>1, <4>2, <4>3, <4>4 DEF Cancel
    <3>2. QED BY <1>2, <1>4, <1>11, <1>12, <3>1
  <2>4. QED BY <2>2, <2>3
<1>33. ASSUME NEW s \in DOMAIN streams, CancelReader(s) PROVE Kept
  BY <1>31, <1>33 DEF CancelReader
<1>19. ASSUME NEW o \in DOMAIN objects, NEW form \in BOOLEAN, Consume(o, form) PROVE Kept
  <2>1. /\ streams' = Disturb(streams, objects[o].body) /\ objects' = objects
        /\ calls' = Append(calls, Reading(o, objects[o].body, Visible(o)))
    BY <1>19 DEF Consume
  <2>2. streams' \in Seq(StreamOf(V)) /\ MarksStay
    BY <1>3, <1>10, <1>11, <1>12, <2>1
  <2>3. o \in Nat /\ objects[o].body \in Nat /\ Visible(o) \in Types \cup {None}
    BY <1>2, <1>3
  <2>4. calls' \in Seq(CallOf(V))
    BY <1>8, <2>1, <2>3
  <2>5. QED BY <1>4, <2>1, <2>2, <2>4
<1>20. ASSUME NEW c \in DOMAIN calls, ConsumeStep(c) PROVE Kept
  <2> DEFINE s == calls[c].stream
             n == NextBlock(s)
             W == V \cup {n}
  <2>1. /\ streams' = (IF streams[s].cut THEN streams ELSE Pulled(s)) /\ objects' = objects
        /\ calls' = IF streams[s].cut \/ AtEnd(s) THEN [calls EXCEPT ![c].done = TRUE]
                    ELSE [calls EXCEPT ![c].got = Append(@, n)]
    BY <1>20 DEF ConsumeStep
  <2>2. /\ Pulled(s) \in Seq(StreamOf(W)) /\ Len(Pulled(s)) = Len(streams)
        /\ \A t \in 1..Len(streams) : Pulled(s)[t].disturbed = streams[t].disturbed
    BY <1>2, PulledKeeps
  <2>3. calls \in Seq(CallOf(W)) /\ n \in W /\ streams \in Seq(StreamOf(W))
    BY <1>2, MoreBlocks
  <2> HIDE DEF W, n, s
  <2>4. calls[c] \in CallOf(W) /\ c \in 1..Len(calls)
    BY <2>3
  <2>5. calls[c].got \in Seq(W)
    BY <2>4 DEF CallOf
  <2>6. Append(calls[c].got, n) \in Seq(W)
    BY <2>3, <2>5
  <2>7. /\ [calls[c] EXCEPT !.done = TRUE] \in CallOf(W)
        /\ [calls[c] EXCEPT !.got = Append(calls[c].got, n)] \in CallOf(W)
    BY <2>4, <2>6 DEF CallOf
  <2>8. calls' \in Seq(CallOf(W))
    BY <2>1, <2>3, <2>4, <2>7
  <2>9. streams' \in Seq(StreamOf(W)) /\ MarksStay
    BY <1>2, <2>1, <2>2, <2>3 DEF MarksStay
  <2>10. QED BY <1>4, <2>1, <2>8, <2>9
<1>21. ASSUME NEW o \in DOMAIN objects, Clone(o) PROVE Kept
  <2> DEFINE s == objects[o].body
  <2>1. /\ Free(s) /\ streams' = Tee(s) /\ calls' = calls
        /\ objects' = Append([objects EXCEPT ![o].body = BranchA(s)],
                             Object(objects[o].kind, BranchB(s), objects[o].list))
    BY <1>21 DEF Clone
  <2>2. s \in 0..Len(streams) /\ o \in 1..Len(objects)
    BY <1>2, <1>3
  <2>3. /\ streams' \in Seq(StreamOf(V)) /\ MarksStay
        /\ BranchA(s) \in 0..Len(streams') /\ BranchB(s) \in 0..Len(streams')
    BY <1>9, <2>1, <2>2 DEF MarksStay
  <2>4. QED BY <1>2, <1>3, <1>6, <2>1, <2>2, <2>3
<1>22. ASSUME NEW o \in DOMAIN objects, NEW t \in Types \cup {None}, Extract(o, t) PROVE Kept
  <2> DEFINE s == objects[o].body
  <2>1. /\ Free(s) /\ streams' = (IF s = 0 THEN streams ELSE Disturb(Tee(s), BranchA(s)))
        /\ calls' = calls
        /\ objects' = Append([objects EXCEPT ![o].body = BranchA(s)],
                             Object("Request", BranchB(s), t))
    BY <1>22 DEF Extract
  <2>2. s \in 0..Len(streams) /\ o \in 1..Len(objects)
    BY <1>2, <1>3
  <2>3. Grown(streams', V) /\ Len(streams') = Len(Tee(s))
    <3>1. CASE s = 0
      BY <1>11, <2>1, <3>1 DEF Tee
    <3>2. CASE s # 0
      <4>1. Grown(Tee(s), V) /\ BranchA(s) \in Nat
        BY <1>9, <2>2
      <4>2. streams' = Disturb(Tee(s), BranchA(s))
        BY <2>1, <3>2
      <4>3. QED BY <1>10, <4>1, <4>2
    <3>3. QED BY <3>1, <3>2
  <2>4. BranchA(s) \in 0..Len(streams') /\ BranchB(s) \in 0..Len(streams')
    BY <1>9, <2>2, <2>3
  <2>5. QED BY <1>2, <1>6, <1>12, <2>1, <2>2, <2>3, <2>4
<1>23. ASSUME NEW o \in DOMAIN objects, RequestFrom(o) \/ RequestWith(o) PROVE Kept
  BY <1>2, <1>3, <1>22, <1>23 DEF RequestFrom, RequestWith
<1>24. ASSUME NEW o \in DOMAIN objects, RequestFails(o) PROVE Kept
  <2> DEFINE s == objects[o].body
  <2>1. /\ Free(s) /\ streams' = Append(streams, Stream(s)) /\ calls' = calls
        /\ objects' = [objects EXCEPT ![o].body = BranchA(s)] /\ s # 0
    BY <1>24 DEF RequestFails
  <2>2. s \in Nat /\ o \in 1..Len(objects)
    BY <1>2, <1>3
  <2>3. /\ streams' \in Seq(StreamOf(V)) /\ MarksStay /\ Len(streams') = Len(streams) + 1
    BY <1>2, <2>1, <2>2, StreamAppended DEF MarksStay
  <2>4. BranchA(s) \in 0..Len(streams')
    BY <1>2, <2>1, <2>3 DEF BranchA
  <2>5. QED BY <1>2, <1>5, <2>1, <2>2, <2>3, <2>4
<1>25. ASSUME NEW o \in DOMAIN objects, NEW t \in Types, RequestOver(o, t) PROVE Kept
  <2> DEFINE s == objects[o].body
             ss == IF s = 0 THEN streams ELSE Disturb(streams, s)
             u == IF objects[o].list = None THEN t ELSE objects[o].list
  <2>1. /\ streams' = Append(ss, Stream(0)) /\ calls' = calls
        /\ objects' = Append(objects, Object("Request", Len(streams) + 1, u))
    BY <1>25 DEF RequestOver
  <2>2. s \in Nat /\ u \in Types \cup {None}
    BY <1>2, <1>3
  <2>3. Grown(ss, V) /\ Len(ss) = Len(streams)
    BY <1>10, <1>11, <2>2
  <2> HIDE DEF ss, u, s
  <2>4. ss \in Seq(StreamOf(V))
    BY <2>3 DEF Grown
  <2>5. /\ streams' \in Seq(StreamOf(V)) /\ Len(streams') = Len(ss) + 1
        /\ \A p \in 1..Len(ss) : streams'[p] = ss[p]
    BY <2>1, <2>4, StreamAppended
  <2>6. MarksStay /\ Len(streams) + 1 \in 0..Len(streams')
    BY <1>2, <2>3, <2>5 DEF MarksStay, Grown
  <2>7. QED BY <1>2, <1>7, <2>1, <2>2, <2>5, <2>6
<1>26. ASSUME NEW o \in DOMAIN objects, RequestOverNull(o) PROVE Kept
  <2> DEFINE s == objects[o].body
  <2>1. /\ streams' = (IF s = 0 THEN streams ELSE Disturb(streams, s)) /\ calls' = calls
        /\ objects' = Append(objects, Object("Request", s, objects[o].list))
    BY <1>26 DEF RequestOverNull
  <2>2. s \in 0..Len(streams) /\ objects[o].list \in Types \cup {None}
    BY <1>2, <1>3
  <2>3. Grown(streams', V) /\ Len(streams') = Len(streams)
    BY <1>10, <1>11, <2>1, <2>2
  <2>4. s \in 0..Len(streams')
    BY <2>2, <2>3
  <2>5. QED BY <1>2, <1>7, <1>12, <2>1, <2>2, <2>3, <2>4
<1>27. ASSUME NEW o \in DOMAIN objects, Fetch(o) PROVE Kept
  <2> DEFINE s == objects[o].body
             a == BranchA(s)
             b == BranchB(s)
  <2>1. /\ Free(s)
        /\ streams' = (IF s = 0 THEN streams ELSE Disturb(Disturb(Tee(s), a), b))
        /\ objects' = [objects EXCEPT ![o].body = a]
        /\ calls' = Append(calls, [Reading(0, b, objects[o].list) EXCEPT !.shown = Visible(o)])
    BY <1>27 DEF Fetch
  <2>2. s \in 0..Len(streams) /\ o \in 1..Len(objects)
        /\ objects[o].list \in Types \cup {None} /\ Visible(o) \in Types \cup {None}
    BY <1>2, <1>3
  <2>3. /\ Grown(Tee(s), V) /\ a \in 0..Len(Tee(s)) /\ b \in 0..Len(Tee(s)) /\ a \in Nat /\ b \in Nat
    BY <1>9, <2>2
  <2>4. Grown(streams', V) /\ Len(streams') = Len(Tee(s))
    <3>1. CASE s = 0
      BY <1>11, <2>1, <3>1 DEF Tee
    <3>2. CASE s # 0
      <4> DEFINE d == Disturb(Tee(s), a)
      <4>1. Grown(d, V) /\ Len(d) = Len(Tee(s))
        BY <1>10, <2>3
      <4>2. streams' = Disturb(d, b)
        BY <2>1, <3>2
      <4> HIDE DEF d
      <4>3. QED BY <1>10, <2>3, <4>1, <4>2
    <3>3. QED BY <3>1, <3>2
  <2>5. calls' \in Seq(CallOf(V))
    BY <1>8, <2>1, <2>2, <2>3
  <2>6. a \in 0..Len(streams')
    BY <2>3, <2>4
  <2>7. QED BY <1>2, <1>5, <1>12, <2>1, <2>2, <2>4, <2>5, <2>6
<1>28. ASSUME NEW o \in DOMAIN objects, FetchNull(o) PROVE Kept
  <2> DEFINE s == objects[o].body
  <2>1. /\ streams' = Disturb(streams, s) /\ objects' = objects
        /\ calls' = Append(calls, [Reading(0, s, objects[o].list) EXCEPT !.shown = Visible(o)])
    BY <1>28 DEF FetchNull
  <2>2. s \in Nat /\ objects[o].list \in Types \cup {None} /\ Visible(o) \in Types \cup {None}
    BY <1>2, <1>3
  <2>3. calls' \in Seq(CallOf(V))
    BY <1>8, <2>1, <2>2
  <2>4. Grown(streams', V)
    BY <1>10, <1>11, <2>1, <2>2
  <2>5. QED BY <1>4, <1>12, <2>1, <2>3, <2>4
<1>29. CASE UNCHANGED vars
  BY <1>2, <1>4, <1>11, <1>12, <1>29 DEF vars
<1>30. QED
  BY <1>13, <1>14, <1>15, <1>16, <1>17, <1>18, <1>19, <1>20, <1>21, <1>23, <1>24, <1>25, <1>26,
     <1>27, <1>28, <1>29, <1>32, <1>33
  DEF Next

-----------------------------------------------------------------------------
\* A call keeps its object; a new one is of no object, or of one that becomes used by it.
CallsGrow ==
  /\ Len(calls') \in {Len(calls), Len(calls) + 1}
  /\ \A c \in 1..Len(calls) : calls'[c].object = calls[c].object
  /\ Len(calls') = Len(calls) + 1 =>
       \/ calls'[Len(calls) + 1].object = 0
       \/ \E o \in DOMAIN objects : /\ calls'[Len(calls) + 1].object = o
                                  /\ ~Used(o) /\ Used(o)'

\* Every step keeps to that.
LEMMA CallsStep == BodiesInv /\ [Next]_vars => CallsGrow
<1> SUFFICES ASSUME BodiesInv, [Next]_vars PROVE CallsGrow
  OBVIOUS
<1>1. PICK V : streams \in Seq(StreamOf(V)) /\ calls \in Seq(CallOf(V))
  BY DEF BodiesInv, Typed
<1>2. PICK W : calls' \in Seq(CallOf(W)) /\ streams' \in Seq(StreamOf(W))
  BY StepKeeps DEF Kept, Typed
<1>3. /\ Len(calls) \in Nat /\ Len(streams) \in Nat /\ objects \in Seq(ObjectType)
      /\ \A o \in DOMAIN objects : objects[o] \in ObjectType /\ objects[o].body <= Len(streams)
      /\ \A c \in 1..Len(calls) : calls[c] \in CallOf(V)
  BY <1>1 DEF BodiesInv, ObjectsTyped
<1>4. CASE calls' = calls
  BY <1>3, <1>4 DEF CallsGrow
<1>5. ASSUME NEW r, calls' = Append(calls, r)
      PROVE  /\ Len(calls') = Len(calls) + 1 /\ calls'[Len(calls) + 1] = r
             /\ \A c \in 1..Len(calls) : calls'[c] = calls[c]
  <2> DEFINE T == CallOf(V) \cup {r}
  <2>1. calls \in Seq(T) /\ r \in T
    BY <1>1
  <2> HIDE DEF T
  <2>2. QED BY <1>5, <2>1, AppendProperties
<1>6. ASSUME NEW r, calls' = Append(calls, r), r.object = 0
      PROVE  CallsGrow
  BY <1>3, <1>5, <1>6 DEF CallsGrow
<1>7. ASSUME NEW o \in DOMAIN objects, NEW form \in BOOLEAN, Consume(o, form) PROVE CallsGrow
  <2> DEFINE s == objects[o].body
             r == Reading(o, s, Visible(o))
  <2>1. /\ s # 0 /\ Free(s) /\ streams' = Disturb(streams, s) /\ objects' = objects
        /\ calls' = Append(calls, r)
    BY <1>7 DEF Consume
  <2>2. r.object = o
    BY DEF Reading
  <2>3. s \in 1..Len(streams)
    <3>1. s \in Nat /\ s <= Len(streams)
      BY <1>3 DEF ObjectType
    <3>2. QED BY <1>3, <2>1, <3>1
  <2>4. ~Used(o)
    BY <2>1 DEF Free, Used
  <2>5. Disturb(streams, s)[s].disturbed
    BY <1>1, <2>3, DisturbKeeps
  <2>6. Used(o)'
    BY <2>1, <2>5 DEF Used
  <2> HIDE DEF r, s
  <2>7. /\ Len(calls') = Len(calls) + 1 /\ calls'[Len(calls) + 1].object = o
        /\ \A c \in 1..Len(calls) : calls'[c].object = calls[c].object
    BY <1>5, <2>1, <2>2
  <2>8. QED BY <1>7, <2>4, <2>6, <2>7 DEF CallsGrow
<1>8. ASSUME NEW c \in DOMAIN calls, ConsumeStep(c) PROVE CallsGrow
  <2>1. \/ calls' = [calls EXCEPT ![c] = [calls[c] EXCEPT !.done = TRUE]]
        \/ calls' = [calls EXCEPT ![c] = [calls[c] EXCEPT !.got = Append(calls[c].got, NextBlock(calls[c].stream))]]
    BY <1>8 DEF ConsumeStep
  <2>2. calls[c] \in CallOf(V)
    BY <1>1, <1>3
  <2>3. /\ [calls[c] EXCEPT !.done = TRUE].object = calls[c].object
        /\ [calls[c] EXCEPT !.got = Append(calls[c].got, NextBlock(calls[c].stream))].object = calls[c].object
    BY <2>2 DEF CallOf
  <2>4. PICK x : calls' = [calls EXCEPT ![c] = x] /\ x.object = calls[c].object
    BY <2>1, <2>3
  <2>5. \A d \in 1..Len(calls) : calls'[d].object = calls[d].object
    BY <1>1, <2>4
  <2>6. DOMAIN calls' = DOMAIN calls
    BY <2>4
  <2>7. Len(calls') = Len(calls)
    BY <1>1, <1>2, <2>6, LenProperties
  <2>8. QED BY <1>3, <2>5, <2>7 DEF CallsGrow
<1>9. ASSUME NEW o \in DOMAIN objects, Fetch(o) \/ FetchNull(o) PROVE CallsGrow
  <2> DEFINE s == objects[o].body
             r(b) == [Reading(0, b, objects[o].list) EXCEPT !.shown = Visible(o)]
  <2>1. \A b : r(b).object = 0
    BY DEF Reading
  <2>2. calls' = Append(calls, r(BranchB(s))) \/ calls' = Append(calls, r(s))
    BY <1>9 DEF Fetch, FetchNull
  <2> HIDE DEF r
  <2>3. QED BY <1>6, <2>1, <2>2
<1>10. ASSUME NEW o \in DOMAIN objects,
              \/ BodyGetter(o) \/ GetReader(o) \/ CancelBody(o) \/ Clone(o) \/ RequestFrom(o) \/ RequestWith(o)
              \/ RequestFails(o) \/ RequestOverNull(o)
       PROVE  calls' = calls
  BY <1>10
  DEF BodyGetter, GetReader, CancelBody, Cancel, Clone, RequestFrom, RequestWith, Extract, RequestFails, RequestOverNull
<1>11. ASSUME NEW o \in DOMAIN objects, NEW t \in Types, SetHeader(o, t) \/ RequestOver(o, t)
       PROVE  calls' = calls
  BY <1>11 DEF SetHeader, RequestOver
<1>12. ASSUME NEW k \in {"Request", "Response"}, NEW t \in Types, NewObject(k, t)
       PROVE  calls' = calls
  BY <1>12 DEF NewObject
<1>13. ASSUME NEW s \in DOMAIN streams, ReleaseLock(s) \/ ReaderRead(s) \/ CancelReader(s)
       PROVE  calls' = calls
  BY <1>13 DEF ReleaseLock, ReaderRead, CancelReader, Cancel
<1>14. CASE UNCHANGED vars
  BY <1>4, <1>14 DEF vars
<1>15. QED
  BY <1>4, <1>7, <1>8, <1>9, <1>10, <1>11, <1>12, <1>13, <1>14 DEF Next

\* Nothing there is satisfies the invariant.
LEMMA BodiesInit == Init => BodiesInv
<1> SUFFICES ASSUME Init PROVE BodiesInv
  OBVIOUS
<1>1. Typed({})
  BY DEF Init, Typed
<1>2. QED BY <1>1 DEF Init, BodiesInv, ObjectsTyped, CallsUse, ConsumedOnce

\* Every step keeps it.
LEMMA BodiesStep == BodiesInv /\ [Next]_vars => BodiesInv'
<1> SUFFICES ASSUME BodiesInv, [Next]_vars PROVE BodiesInv'
  OBVIOUS
<1>1. Kept /\ CallsGrow
  BY StepKeeps, CallsStep
<1>2. PICK V : calls \in Seq(CallOf(V))
  BY DEF BodiesInv, Typed
<1>3. PICK W : calls' \in Seq(CallOf(W)) /\ objects' \in Seq(ObjectType)
  BY <1>1 DEF Kept, Typed, ObjectsTyped
<1>4. objects \in Seq(ObjectType) /\ DOMAIN objects \subseteq DOMAIN objects'
  BY <1>1, <1>3 DEF BodiesInv, ObjectsTyped, Kept, BodiesStay
<1>5. ASSUME NEW c \in 1..Len(calls), NEW o, calls[c].object = o, o # 0
      PROVE  o \in DOMAIN objects /\ Used(o) /\ Used(o)' /\ calls'[c].object = o
  <2>1. o \in DOMAIN objects /\ Used(o)
    BY <1>2, <1>5 DEF BodiesInv, CallsUse
  <2>2. calls'[c].object = o
    BY <1>1, <1>5 DEF CallsGrow
  <2>3. Used(o)'
    BY <1>1, <2>1, UsedStays
  <2>4. QED BY <2>1, <2>2, <2>3
<1>6. /\ Len(calls) \in Nat /\ DOMAIN calls = 1..Len(calls)
      /\ Len(calls') \in {Len(calls), Len(calls) + 1} /\ DOMAIN calls' = 1..Len(calls')
  BY <1>1, <1>2, <1>3 DEF CallsGrow
\* A call there was is of the same object, which is still used; a new one makes its own.
<1>7. ASSUME NEW c \in DOMAIN calls', NEW o, calls'[c].object = o, o # 0
      PROVE  /\ o \in DOMAIN objects' /\ Used(o)'
             /\ c \in 1..Len(calls) => calls[c].object = o /\ Used(o)
             /\ c \notin 1..Len(calls) => c = Len(calls) + 1 /\ ~Used(o)
  <2>1. CASE c \in 1..Len(calls)
    <3>1. calls[c].object = o
      BY <1>1, <1>7, <2>1 DEF CallsGrow
    <3>2. QED BY <1>4, <1>5, <1>7, <2>1, <3>1
  <2>2. CASE c \notin 1..Len(calls)
    <3>1. c = Len(calls) + 1 /\ Len(calls') = Len(calls) + 1
      <4>1. c \in 1..Len(calls')
        BY <1>6, <1>7
      <4>2. CASE Len(calls') = Len(calls)
        BY <2>2, <4>1, <4>2
      <4>3. CASE Len(calls') = Len(calls) + 1
        BY <1>6, <2>2, <4>1, <4>3
      <4>4. QED BY <1>6, <4>2, <4>3
    <3>2. PICK p \in DOMAIN objects : calls'[Len(calls) + 1].object = p /\ ~Used(p) /\ Used(p)'
      BY <1>1, <1>7, <3>1 DEF CallsGrow
    <3>3. p = o
      BY <1>7, <3>1, <3>2
    <3>4. QED BY <1>4, <2>2, <3>1, <3>2, <3>3
  <2>3. QED BY <2>1, <2>2
<1>8. CallsUse'
  <2>1. ASSUME NEW c \in DOMAIN calls', calls'[c].object # 0
        PROVE  \E o \in DOMAIN objects' : calls'[c].object = o /\ Used(o)'
    BY <1>7, <2>1
  <2>2. QED BY <2>1 DEF CallsUse, Used
<1>9. ConsumedOnce'
  <2>1. ASSUME NEW c \in DOMAIN calls', NEW d \in DOMAIN calls', c # d, NEW o, o # 0,
               calls'[c].object = o, calls'[d].object = o
        PROVE  FALSE
    <3>1. c \in 1..Len(calls) /\ d \in 1..Len(calls)
      BY <1>6, <1>7, <2>1
    <3>2. calls[c].object = o /\ calls[d].object = o
      BY <1>7, <2>1, <3>1
    <3>3. QED BY <1>6, <2>1, <3>1, <3>2 DEF BodiesInv, ConsumedOnce
  <2>2. QED BY <2>1 DEF ConsumedOnce
<1>10. QED BY <1>1, <1>8, <1>9 DEF Kept, BodiesInv

\* The invariant holds in every reachable state.
THEOREM BodiesInvariant == Spec => []BodiesInv
BY BodiesInit, BodiesStep, PTL DEF Spec

\* Of the calls of text(), json(), formData() ... on one object only the first is served,
\* whatever clones, requests and fetches were made of it in between.
THEOREM BodyConsumedOnce == Spec => []ConsumedOnce
<1>1. BodiesInv => ConsumedOnce
  BY DEF BodiesInv
<1>2. QED BY <1>1, BodiesInvariant, PTL

\* bodyUsed never goes back to false.
THEOREM UsedStaysUsed == Spec => UsedIsForGood
<1>1. BodiesInv /\ [Next]_vars => [\A o \in DOMAIN objects : Used(o) => Used(o)']_vars
  BY StepKeeps, UsedStays
<1>2. QED BY <1>1, BodiesInvariant, PTL DEF Spec, UsedIsForGood

-----------------------------------------------------------------------------
(***************************************************************************)
(* Trees. The streams 1, ..., n, each with a parent before it, or with     *)
(* none (0).                                                               *)
(***************************************************************************)
\* A set of numbers has a least one.
LEMMA LeastOf ==
  ASSUME NEW S \in SUBSET Nat, S # {}
  PROVE  \E x \in S : \A y \in S : x <= y
<1>1. PICK x \in S : \A y \in S : ~(<<y, x>> \in OpToRel(<, Nat))
  BY WFMin, NatLessThanWellFounded
<1>2. \A y \in S : <<y, x>> \in Nat \X Nat /\ (y < x => <<y, x>> \in OpToRel(<, Nat))
  BY DEF OpToRel
<1>3. \A y \in S : ~(y < x)
  BY <1>1, <1>2
<1>4. \A y \in S : x <= y
  BY <1>3
<1>5. QED BY <1>4

\* What holds of a stream whenever it holds of its parent holds of all.
LEMMA TreeInduction ==
  ASSUME NEW n \in Nat, NEW up, \A s \in 1..n : up[s] \in 0..(s - 1),
         NEW S, \A s \in 1..n : (up[s] = 0 \/ up[s] \in S) => s \in S
  PROVE  \A s \in 1..n : s \in S
<1> DEFINE Bad == {s \in 1..n : s \notin S}
<1> SUFFICES ASSUME Bad # {} PROVE FALSE
  OBVIOUS
<1>1. PICK x \in Bad : \A y \in Bad : x <= y
  <2>1. Bad \in SUBSET Nat
    OBVIOUS
  <2> HIDE DEF Bad
  <2>2. QED BY <2>1, LeastOf
<1>2. x \in 1..n /\ x \notin S
  BY <1>1
<1>3. up[x] \in 0..(x - 1)
  BY <1>2
<1>4. up[x] # 0 => up[x] \in 1..n /\ up[x] < x
  BY <1>2, <1>3
<1>5. up[x] # 0 => up[x] \in S
  <2>1. up[x] # 0 /\ up[x] \notin S => up[x] \in Bad
    BY <1>4
  <2>2. up[x] \in Bad => x <= up[x]
    BY <1>1
  <2>3. up[x] # 0 => ~(x <= up[x])
    BY <1>2, <1>4
  <2>4. QED BY <2>1, <2>2, <2>3
<1>6. QED BY <1>2, <1>5

\* There is a function that starts at the roots and goes on from a stream's parent.
Solvable(n, up, V, start, F) ==
  \E r \in [1..n -> V] : \A s \in 1..n : r[s] = IF up[s] = 0 THEN start[s] ELSE F[s][r[up[s]]]

\* A function whose value at a stream depends on that at its parent exists.
LEMMA TreeRecursion ==
  ASSUME NEW n \in Nat, NEW up, \A s \in 1..n : up[s] \in 0..(s - 1),
         NEW V, NEW start \in [1..n -> V], NEW F \in [1..n -> [V -> V]]
  PROVE  Solvable(n, up, V, start, F)
<1> DEFINE Solves(r, m) == \A s \in 1..m : r[s] = IF up[s] = 0 THEN start[s] ELSE F[s][r[up[s]]]
           Good(m) == \E r \in [1..m -> V] : Solves(r, m)
           Bad == {m \in 0..n : ~Good(m)}
<1>1. Good(n) <=> Solvable(n, up, V, start, F)
  BY DEF Solvable
<1>2. Bad = {} => Good(n)
  <2> HIDE DEF Good
  <2>1. n \in 0..n
    OBVIOUS
  <2>2. QED BY <2>1, Zenon
<1>3. SUFFICES ASSUME Bad # {} PROVE FALSE
  BY <1>1, <1>2
<1>4. PICK m \in Bad : \A k \in Bad : m <= k
  <2>1. Bad \in SUBSET Nat
    OBVIOUS
  <2> HIDE DEF Bad
  <2>2. QED BY <1>3, <2>1, LeastOf
<1>5. m \in 0..n /\ ~Good(m)
  BY <1>4
<1>6. m # 0
  <2>1. 1..0 = {}
    OBVIOUS
  <2>2. [s \in 1..0 |-> start[s]] \in [1..0 -> V]
    BY <2>1
  <2>3. Solves([s \in 1..0 |-> start[s]], 0)
    BY <2>1
  <2>4. Good(0)
    BY <2>2, <2>3
  <2>5. QED BY <1>5, <2>4
<1>7. m - 1 \in 0..n /\ ~(m <= m - 1) /\ m \in 1..n
  BY <1>5, <1>6
<1>8. Good(m - 1)
  <2>1. m - 1 \notin Bad
    BY <1>4, <1>7
  <2>2. QED BY <1>7, <2>1
<1>9. PICK r \in [1..(m - 1) -> V] : Solves(r, m - 1)
  BY <1>8
<1> DEFINE v == IF up[m] = 0 THEN start[m] ELSE F[m][r[up[m]]]
           q == [s \in 1..m |-> IF s = m THEN v ELSE r[s]]
<1>10. v \in V
  <2>1. up[m] \in 0..(m - 1)
    BY <1>7
  <2>2. up[m] # 0 => r[up[m]] \in V
    BY <2>1, <1>7
  <2>3. start[m] \in V /\ F[m] \in [V -> V]
    BY <1>7
  <2>4. QED BY <2>2, <2>3
<1>11. q \in [1..m -> V]
  <2>1. \A s \in 1..m : s # m => s \in 1..(m - 1)
    BY <1>7
  <2>2. QED BY <1>10, <2>1
<1>12. Solves(q, m)
  <2> SUFFICES ASSUME NEW s \in 1..m
               PROVE  q[s] = IF up[s] = 0 THEN start[s] ELSE F[s][q[up[s]]]
    OBVIOUS
  <2>1. up[s] \in 0..(s - 1) /\ s \in 1..n
    BY <1>7
  <2>2. up[s] # 0 => up[s] \in 1..m /\ up[s] # m
    BY <1>7, <2>1
  <2>3. up[s] # 0 => q[up[s]] = r[up[s]]
    BY <2>2
  <2>4. CASE s = m
    BY <2>3, <2>4
  <2>5. CASE s # m
    <3>1. s \in 1..(m - 1)
      BY <1>7, <2>5
    <3>2. QED BY <1>9, <2>3, <2>5, <3>1
  <2>6. QED BY <2>4, <2>5
<1>13. QED BY <1>5, <1>11, <1>12

-----------------------------------------------------------------------------
\* The streams ss form trees, and the blocks in them are those of the sources.
Tree(ss) == /\ ss \in Seq(StreamOf(1..Blocks))
            /\ \A s \in 1..Len(ss) : ss[s].parent < s /\ ss[s].given <= Blocks

\* Roots, Chain and Remaining as they are of the streams ss.
RootsOf(ss) == LET r[s \in DOMAIN ss] ==
                     IF ss[s].parent = 0 THEN s ELSE r[ss[s].parent]
               IN r

ChainOf(ss) == LET c[s \in DOMAIN ss] ==
                     IF ss[s].parent = 0 \/ ss[s].buf # <<>>
                     THEN <<s>> ELSE <<s>> \o c[ss[s].parent]
               IN c

RemainingOf(ss) == LET rem[s \in DOMAIN ss] ==
                         ss[s].buf \o
                         (IF ss[s].parent # 0 THEN rem[ss[s].parent]
                          ELSE [i \in 1..(Blocks - ss[s].given) |-> ss[s].given + i])
                   IN rem

\* What a source still gives after g blocks.
After(g) == [i \in 1..(Blocks - g) |-> g + i]

\* The model's functions are those of the trees, before and after a step.
LEMMA SameFunctions ==
  /\ Roots = RootsOf(streams) /\ Chain = ChainOf(streams) /\ Remaining = RemainingOf(streams)
  /\ Roots' = RootsOf(streams') /\ Remaining' = RemainingOf(streams')
BY DEF Roots, RootsOf, Chain, ChainOf, Remaining, RemainingOf

\* The fields of the streams of a tree.
LEMMA TreeFields ==
  ASSUME NEW ss, Tree(ss)
  PROVE  /\ Len(ss) \in Nat /\ DOMAIN ss = 1..Len(ss) /\ Blocks \in Nat
         /\ \A s \in 1..Len(ss) : /\ ss[s].parent \in 0..(s - 1) /\ ss[s].given \in 0..Blocks
                                  /\ ss[s].buf \in Seq(1..Blocks)
                                  /\ ss[s].parent # 0 => ss[s].parent \in 1..Len(ss)
<1>1. ss \in Seq(StreamOf(1..Blocks)) /\ Blocks \in Nat
  BY BodiesAssumption DEF Tree
<1>2. Len(ss) \in Nat /\ DOMAIN ss = 1..Len(ss)
  BY <1>1
<1>3. ASSUME NEW s \in 1..Len(ss)
      PROVE  /\ ss[s].parent \in 0..(s - 1) /\ ss[s].given \in 0..Blocks
             /\ ss[s].buf \in Seq(1..Blocks)
             /\ ss[s].parent # 0 => ss[s].parent \in 1..Len(ss)
  <2>1. ss[s] \in StreamOf(1..Blocks)
    BY <1>1
  <2>2. ss[s].parent \in Nat /\ ss[s].given \in Nat /\ ss[s].buf \in Seq(1..Blocks)
    BY <2>1 DEF StreamOf
  <2>3. ss[s].parent < s /\ ss[s].given <= Blocks
    BY DEF Tree
  <2>4. QED BY <1>1, <1>2, <2>2, <2>3
<1>4. QED BY <1>1, <1>2, <1>3

\* What remains of a source is a sequence of its blocks, and begins with the next one.
LEMMA AfterBlocks ==
  ASSUME NEW g \in 0..Blocks
  PROVE  /\ After(g) \in Seq(1..Blocks)
         /\ g < Blocks => After(g) = <<g + 1>> \o After(g + 1)
<1>1. Blocks \in Nat
  BY BodiesAssumption
<1>2. ASSUME NEW k \in 0..Blocks
      PROVE  After(k) \in Seq(1..Blocks) /\ Len(After(k)) = Blocks - k
  <2>1. After(k) \in [1..(Blocks - k) -> 1..Blocks] /\ Blocks - k \in Nat
    BY <1>1 DEF After
  <2>2. After(k) \in Seq(1..Blocks) /\ DOMAIN After(k) = 1..(Blocks - k)
    BY <2>1, SeqDef
  <2>3. QED BY <2>1, <2>2, LenProperties
<1>3. ASSUME g < Blocks
      PROVE  After(g) = <<g + 1>> \o After(g + 1)
  <2> DEFINE a == After(g)
             b == After(g + 1)
             c == <<g + 1>>
  <2>1. /\ a \in Seq(1..Blocks) /\ b \in Seq(1..Blocks) /\ c \in Seq(1..Blocks)
        /\ Len(a) = Blocks - g /\ Len(b) = Blocks - (g + 1) /\ Len(c) = 1 /\ c[1] = g + 1
    <3>1. g + 1 \in 0..Blocks
      BY <1>1, <1>3
    <3>2. c \in Seq(1..Blocks) /\ Len(c) = 1 /\ c[1] = g + 1
      BY <1>1, <1>3
    <3>3. QED BY <1>2, <3>1, <3>2
  <2>2. /\ \A i \in 1..(Blocks - g) : a[i] = g + i
        /\ \A i \in 1..(Blocks - (g + 1)) : b[i] = (g + 1) + i
    BY DEF After
  <2> HIDE DEF a, b, c
  <2>3. /\ c \o b \in Seq(1..Blocks) /\ Len(c \o b) = Len(c) + Len(b)
        /\ \A i \in 1..Len(c) + Len(b) : (c \o b)[i] = IF i <= Len(c) THEN c[i] ELSE b[i - Len(c)]
    BY <2>1, ConcatProperties
  <2>4. Len(c \o b) = Len(a)
    BY <1>1, <2>1, <2>3
  <2>5. ASSUME NEW i \in 1..Len(a) PROVE (c \o b)[i] = a[i]
    <3>1. i \in 1..(Blocks - g)
      BY <2>1
    <3>2. i \in 1..Len(c) + Len(b)
      BY <1>1, <2>1, <3>1
    <3>3. (c \o b)[i] = IF i <= 1 THEN c[i] ELSE b[i - 1]
      BY <2>1, <2>3, <3>2
    <3>4. CASE i = 1
      BY <2>1, <2>2, <3>1, <3>3, <3>4
    <3>5. CASE i # 1
      <4>1. i - 1 \in 1..(Blocks - (g + 1)) /\ ~(i <= 1)
        BY <1>1, <3>1, <3>5
      <4>2. b[i - 1] = (g + 1) + (i - 1)
        BY <2>2, <4>1
      <4>3. (g + 1) + (i - 1) = g + i
        BY <1>1, <3>1
      <4>4. QED BY <2>2, <3>1, <3>3, <4>1, <4>2, <4>3
    <3>6. QED BY <3>4, <3>5
  <2>6. c \o b = a
    BY <2>1, <2>3, <2>4, <2>5, SeqEqual
  <2>7. QED BY <2>6 DEF a, b, c
<1>4. QED BY <1>2, <1>3

\* Every stream has a root.
LEMMA RootsMeans ==
  ASSUME NEW ss, Tree(ss)
  PROVE  \A s \in 1..Len(ss) :
           /\ RootsOf(ss)[s] \in 1..Len(ss)
           /\ RootsOf(ss)[s] = IF ss[s].parent = 0 THEN s ELSE RootsOf(ss)[ss[s].parent]
<1> DEFINE n == Len(ss)
           up == [s \in 1..n |-> ss[s].parent]
           start == [s \in 1..n |-> s]
           F == [s \in 1..n |-> [v \in 1..n |-> v]]
           P(r) == r = [s \in DOMAIN ss |-> IF ss[s].parent = 0 THEN s ELSE r[ss[s].parent]]
<1>1. /\ n \in Nat /\ DOMAIN ss = 1..n
      /\ \A s \in 1..n : up[s] = ss[s].parent /\ up[s] \in 0..(s - 1) /\ (up[s] # 0 => up[s] \in 1..n)
  BY TreeFields
<1>2. PICK r \in [1..n -> 1..n] :
        \A s \in 1..n : r[s] = IF up[s] = 0 THEN start[s] ELSE F[s][r[up[s]]]
  <2> DEFINE V == 1..n
  <2>1. start \in [1..n -> V] /\ F \in [1..n -> [V -> V]]
    OBVIOUS
  <2>2. n \in Nat /\ \A s \in 1..n : up[s] \in 0..(s - 1)
    BY <1>1
  <2> HIDE DEF n, up, start, F, V
  <2>3. Solvable(n, up, V, start, F)
    BY <2>1, <2>2, TreeRecursion
  <2>4. QED BY <2>3 DEF V, Solvable
<1>3. P(r)
  <2>1. \A s \in 1..n : r[s] = IF ss[s].parent = 0 THEN s ELSE r[ss[s].parent]
    BY <1>1, <1>2
  <2>2. QED BY <1>1, <2>1
<1> DEFINE q == RootsOf(ss)
<1>4. P(q)
  <2>1. q = CHOOSE x : P(x)
    BY Zenon DEF RootsOf
  <2>2. P(CHOOSE x : P(x))
    <3> HIDE DEF P
    <3> QED BY <1>3, Zenon
  <2>3. QED BY ONLY <2>1, <2>2, Zenon
<1>5. \A s \in 1..n : q[s] = IF ss[s].parent = 0 THEN s ELSE q[ss[s].parent]
  <2>1. q = [s \in 1..n |-> IF ss[s].parent = 0 THEN s ELSE q[ss[s].parent]]
    BY <1>1, <1>4, Zenon
  <2> HIDE DEF q
  <2>2. QED BY <2>1
<1>6. \A s \in 1..n : q[s] \in 1..n
  <2> DEFINE S == {s \in 1..n : q[s] \in 1..n}
  <2>1. \A s \in 1..n : (up[s] = 0 \/ up[s] \in S) => s \in S
    BY <1>1, <1>5
  <2>2. \A s \in 1..n : s \in S
    <3> HIDE DEF n, up, S
    <3> QED BY <1>1, <2>1, TreeInduction
  <2>3. QED BY <2>2
<1>7. QED BY <1>5, <1>6

\* Every stream has a chain.
LEMMA ChainMeans ==
  ASSUME NEW ss, Tree(ss)
  PROVE  \A s \in 1..Len(ss) :
           /\ ChainOf(ss)[s] \in Seq(1..Len(ss)) /\ ChainOf(ss)[s] # <<>>
           /\ ChainOf(ss)[s] = IF ss[s].parent = 0 \/ ss[s].buf # <<>>
                               THEN <<s>> ELSE <<s>> \o ChainOf(ss)[ss[s].parent]
<1> DEFINE n == Len(ss)
           V == Seq(1..n) \ {<<>>}
           up == [s \in 1..n |-> IF ss[s].parent = 0 \/ ss[s].buf # <<>> THEN 0 ELSE ss[s].parent]
           start == [s \in 1..n |-> <<s>>]
           F == [s \in 1..n |-> [v \in V |-> <<s>> \o v]]
           P(r) == r = [s \in DOMAIN ss |-> IF ss[s].parent = 0 \/ ss[s].buf # <<>>
                                            THEN <<s>> ELSE <<s>> \o r[ss[s].parent]]
<1>1. /\ n \in Nat /\ DOMAIN ss = 1..n
      /\ \A s \in 1..n : up[s] \in 0..(s - 1) /\ (up[s] # 0 => up[s] \in 1..n)
  BY TreeFields
<1>2. \A s \in 1..n : up[s] = IF ss[s].parent = 0 \/ ss[s].buf # <<>> THEN 0 ELSE ss[s].parent
  OBVIOUS
<1>3. ASSUME NEW s \in 1..n
      PROVE  <<s>> \in V /\ \A v \in V : <<s>> \o v \in V
  <2>1. <<s>> \in Seq(1..n) /\ Len(<<s>>) = 1
    OBVIOUS
  <2>2. ASSUME NEW v \in Seq(1..n)
        PROVE  <<s>> \o v \in Seq(1..n) /\ Len(<<s>> \o v) = 1 + Len(v)
    <3> DEFINE x == <<s>>
    <3>1. x \in Seq(1..n) /\ Len(x) = 1
      OBVIOUS
    <3> HIDE DEF x, n
    <3>2. x \o v \in Seq(1..n) /\ Len(x \o v) = Len(x) + Len(v)
      BY <3>1, ConcatProperties
    <3>3. QED BY <3>1, <3>2 DEF x
  <2>3. \A v \in Seq(1..n) : <<s>> \o v # <<>>
    <3>1. \A v \in Seq(1..n) : Len(v) \in Nat /\ Len(<<s>> \o v) = 1 + Len(v)
      BY <2>2
    <3>2. \A v \in Seq(1..n) : Len(<<s>> \o v) # 0
      BY <3>1
    <3>3. QED BY <3>2
  <2>4. QED BY <2>1, <2>2, <2>3
<1>4. PICK r \in [1..n -> V] :
        \A s \in 1..n : r[s] = IF up[s] = 0 THEN start[s] ELSE F[s][r[up[s]]]
  <2>1. start \in [1..n -> V] /\ F \in [1..n -> [V -> V]]
    <3> HIDE DEF V
    <3> QED BY <1>3
  <2>2. n \in Nat /\ \A s \in 1..n : up[s] \in 0..(s - 1)
    BY <1>1
  <2> HIDE DEF n, up, start, F, V
  <2>3. Solvable(n, up, V, start, F)
    BY <2>1, <2>2, TreeRecursion
  <2>4. QED BY <2>3 DEF Solvable
<1>5. P(r)
  <2>1. ASSUME NEW s \in 1..n
        PROVE  r[s] = IF ss[s].parent = 0 \/ ss[s].buf # <<>> THEN <<s>> ELSE <<s>> \o r[ss[s].parent]
    <3>1. start[s] = <<s>> /\ \A v \in V : F[s][v] = <<s>> \o v
      OBVIOUS
    <3>2. up[s] # 0 => r[up[s]] \in V
      BY <1>1
    <3> HIDE DEF n, V, F, start, up
    <3>3. r[s] = IF up[s] = 0 THEN <<s>> ELSE <<s>> \o r[up[s]]
      BY <1>4, <3>1, <3>2
    <3>4. up[s] = IF ss[s].parent = 0 \/ ss[s].buf # <<>> THEN 0 ELSE ss[s].parent
      BY <1>2
    <3>5. QED BY <3>3, <3>4
  <2>2. r = [s \in 1..n |-> r[s]]
    OBVIOUS
  <2> HIDE DEF n, V
  <2>3. QED BY <1>1, <2>1, <2>2
<1> DEFINE q == ChainOf(ss)
<1>6. P(q)
  <2>1. q = CHOOSE x : P(x)
    BY Zenon DEF ChainOf
  <2>2. P(CHOOSE x : P(x))
    <3> HIDE DEF P
    <3> QED BY <1>5, Zenon
  <2>3. QED BY ONLY <2>1, <2>2, Zenon
<1>7. \A s \in 1..n : q[s] = IF ss[s].parent = 0 \/ ss[s].buf # <<>> THEN <<s>> ELSE <<s>> \o q[ss[s].parent]
  <2>1. q = [s \in 1..n |-> IF ss[s].parent = 0 \/ ss[s].buf # <<>>
                            THEN <<s>> ELSE <<s>> \o q[ss[s].parent]]
    BY <1>1, <1>6, Zenon
  <2> HIDE DEF q
  <2>2. QED BY <2>1
<1>8. \A s \in 1..n : q[s] \in V
  <2> DEFINE S == {s \in 1..n : q[s] \in V}
  <2>1. ASSUME NEW s \in 1..n, up[s] = 0 \/ up[s] \in S PROVE s \in S
    <3>1. q[s] = IF up[s] = 0 THEN <<s>> ELSE <<s>> \o q[up[s]]
      <4> HIDE DEF q, up
      <4> QED BY <1>2, <1>7
    <3>2. up[s] # 0 => q[up[s]] \in V
      BY <2>1
    <3> HIDE DEF V, q, up
    <3>3. q[s] \in V
      BY <1>3, <3>1, <3>2
    <3>4. QED BY <3>3
  <2>2. \A s \in 1..n : s \in S
    <3> HIDE DEF n, up, S
    <3> QED BY <1>1, <2>1, TreeInduction
  <2>3. QED BY <2>2
<1>9. QED BY <1>7, <1>8

\* What remains of every stream.
LEMMA RestMeans ==
  ASSUME NEW ss, Tree(ss)
  PROVE  \A s \in 1..Len(ss) :
           /\ RemainingOf(ss)[s] \in Seq(1..Blocks)
           /\ RemainingOf(ss)[s] = ss[s].buf \o (IF ss[s].parent # 0 THEN RemainingOf(ss)[ss[s].parent]
                                                 ELSE After(ss[s].given))
<1> DEFINE n == Len(ss)
           V == Seq(1..Blocks)
           up == [s \in 1..n |-> ss[s].parent]
           start == [s \in 1..n |-> ss[s].buf \o After(ss[s].given)]
           F == [s \in 1..n |-> [v \in V |-> ss[s].buf \o v]]
           P(r) == r = [s \in DOMAIN ss |->
                          ss[s].buf \o (IF ss[s].parent # 0 THEN r[ss[s].parent] ELSE After(ss[s].given))]
<1>1. /\ n \in Nat /\ DOMAIN ss = 1..n
      /\ \A s \in 1..n : up[s] = ss[s].parent /\ up[s] \in 0..(s - 1) /\ (up[s] # 0 => up[s] \in 1..n)
      /\ \A s \in 1..n : ss[s].given \in 0..Blocks /\ ss[s].buf \in V
  BY TreeFields
<1>3. ASSUME NEW s \in 1..n
      PROVE  ss[s].buf \o After(ss[s].given) \in V /\ \A v \in V : ss[s].buf \o v \in V
  <2>1. After(ss[s].given) \in V
    BY <1>1, AfterBlocks
  <2>2. ss[s].buf \in V
    BY <1>1
  <2>3. \A v \in V : ss[s].buf \o v \in V
    BY <2>2, ConcatProperties
  <2>4. QED BY <2>1, <2>3
<1>4. PICK r \in [1..n -> V] :
        \A s \in 1..n : r[s] = IF up[s] = 0 THEN start[s] ELSE F[s][r[up[s]]]
  <2>1. start \in [1..n -> V] /\ F \in [1..n -> [V -> V]]
    <3> HIDE DEF V
    <3> QED BY <1>3
  <2>2. n \in Nat /\ \A s \in 1..n : up[s] \in 0..(s - 1)
    BY <1>1
  <2> HIDE DEF n, up, start, F, V
  <2>3. Solvable(n, up, V, start, F)
    BY <2>1, <2>2, TreeRecursion
  <2>4. QED BY <2>3 DEF Solvable
<1>5. P(r)
  <2>1. ASSUME NEW s \in 1..n
        PROVE  r[s] = ss[s].buf \o (IF ss[s].parent # 0 THEN r[ss[s].parent] ELSE After(ss[s].given))
    <3>1. start[s] = ss[s].buf \o After(ss[s].given) /\ \A v \in V : F[s][v] = ss[s].buf \o v
      OBVIOUS
    <3>2. up[s] # 0 => r[up[s]] \in V
      BY <1>1
    <3>3. up[s] = ss[s].parent
      BY <1>1
    <3> HIDE DEF n, V, F, start, up
    <3>4. r[s] = IF up[s] = 0 THEN ss[s].buf \o After(ss[s].given) ELSE ss[s].buf \o r[up[s]]
      BY <1>4, <3>1, <3>2
    <3>5. QED BY <3>3, <3>4
  <2>2. r = [s \in 1..n |-> r[s]]
    OBVIOUS
  <2> HIDE DEF n, V
  <2>3. QED BY <1>1, <2>1, <2>2
<1> DEFINE q == RemainingOf(ss)
<1>6. P(q)
  <2>1. q = CHOOSE x : P(x)
    BY Zenon DEF RemainingOf, After
  <2>2. P(CHOOSE x : P(x))
    <3> HIDE DEF P
    <3> QED BY <1>5, Zenon
  <2>3. QED BY ONLY <2>1, <2>2, Zenon
<1>7. \A s \in 1..n : q[s] = ss[s].buf \o (IF ss[s].parent # 0 THEN q[ss[s].parent] ELSE After(ss[s].given))
  <2>1. q = [s \in 1..n |-> ss[s].buf \o (IF ss[s].parent # 0 THEN q[ss[s].parent]
                                          ELSE After(ss[s].given))]
    BY <1>1, <1>6, Zenon
  <2> HIDE DEF q
  <2>2. QED BY <2>1
<1>8. \A s \in 1..n : q[s] \in V
  <2> DEFINE S == {s \in 1..n : q[s] \in V}
  <2>1. ASSUME NEW s \in 1..n, up[s] = 0 \/ up[s] \in S PROVE s \in S
    <3>1. q[s] = IF up[s] = 0 THEN ss[s].buf \o After(ss[s].given) ELSE ss[s].buf \o q[up[s]]
      <4> HIDE DEF q, up
      <4> QED BY <1>1, <1>7
    <3>2. up[s] # 0 => q[up[s]] \in V
      BY <2>1
    <3> HIDE DEF V, q, up
    <3>3. q[s] \in V
      BY <1>3, <3>1, <3>2
    <3>4. QED BY <3>3
  <2>2. \A s \in 1..n : s \in S
    <3> HIDE DEF n, up, S
    <3> QED BY <1>1, <2>1, TreeInduction
  <2>3. QED BY <2>2
<1>9. QED BY <1>7, <1>8

\* Streams that keep their parents keep their roots, whatever else changes or is added.
LEMMA RootsSame ==
  ASSUME NEW ss, Tree(ss), NEW tt, Tree(tt), Len(ss) <= Len(tt),
         \A s \in 1..Len(ss) : tt[s].parent = ss[s].parent
  PROVE  \A s \in 1..Len(ss) : RootsOf(tt)[s] = RootsOf(ss)[s]
<1> DEFINE n == Len(ss)
           up == [s \in 1..n |-> ss[s].parent]
           q == RootsOf(ss)
           r == RootsOf(tt)
           S == {s \in 1..n : r[s] = q[s]}
<1>1. /\ n \in Nat /\ Len(tt) \in Nat
      /\ \A s \in 1..n : up[s] = ss[s].parent /\ up[s] \in 0..(s - 1) /\ (up[s] # 0 => up[s] \in 1..n)
  BY TreeFields
<1>2. \A s \in 1..n : q[s] = IF up[s] = 0 THEN s ELSE q[up[s]]
  BY <1>1, RootsMeans
<1>3. \A s \in 1..n : r[s] = IF up[s] = 0 THEN s ELSE r[up[s]]
  <2>1. \A s \in 1..Len(tt) : r[s] = IF tt[s].parent = 0 THEN s ELSE r[tt[s].parent]
    BY RootsMeans
  <2>2. \A s \in 1..n : s \in 1..Len(tt)
    BY <1>1
  <2> HIDE DEF r
  <2>3. QED BY <1>1, <2>1, <2>2
<1>4. ASSUME NEW s \in 1..n, up[s] = 0 \/ up[s] \in S PROVE s \in S
  <2> HIDE DEF q, r, up
  <2>1. QED BY <1>2, <1>3, <1>4
<1>5. \A s \in 1..n : s \in S
  <2> HIDE DEF n, up, S
  <2>1. QED BY <1>1, <1>4, TreeInduction
<1>6. QED BY <1>5

\* Streams that keep their parents and their blocks keep what remains of them.
LEMMA RestSame ==
  ASSUME NEW ss, Tree(ss), NEW tt, Tree(tt), Len(ss) <= Len(tt),
         \A s \in 1..Len(ss) : /\ tt[s].parent = ss[s].parent
                               /\ tt[s].buf = ss[s].buf /\ tt[s].given = ss[s].given
  PROVE  \A s \in 1..Len(ss) : RemainingOf(tt)[s] = RemainingOf(ss)[s]
<1> DEFINE n == Len(ss)
           up == [s \in 1..n |-> ss[s].parent]
           q == RemainingOf(ss)
           r == RemainingOf(tt)
           S == {s \in 1..n : r[s] = q[s]}
<1>1. /\ n \in Nat /\ Len(tt) \in Nat
      /\ \A s \in 1..n : up[s] = ss[s].parent /\ up[s] \in 0..(s - 1) /\ (up[s] # 0 => up[s] \in 1..n)
  BY TreeFields
<1>2. \A s \in 1..n : q[s] = ss[s].buf \o (IF up[s] # 0 THEN q[up[s]] ELSE After(ss[s].given))
  <2>1. \A s \in 1..n : q[s] = ss[s].buf \o (IF ss[s].parent # 0 THEN q[ss[s].parent]
                                             ELSE After(ss[s].given))
    BY RestMeans
  <2> HIDE DEF q
  <2>2. QED BY <1>1, <2>1
<1>3. \A s \in 1..n : r[s] = ss[s].buf \o (IF up[s] # 0 THEN r[up[s]] ELSE After(ss[s].given))
  <2>1. \A s \in 1..Len(tt) : r[s] = tt[s].buf \o (IF tt[s].parent # 0 THEN r[tt[s].parent]
                                                   ELSE After(tt[s].given))
    BY RestMeans
  <2>2. \A s \in 1..n : s \in 1..Len(tt)
    BY <1>1
  <2> HIDE DEF r
  <2>3. QED BY <1>1, <2>1, <2>2
<1>4. ASSUME NEW s \in 1..n, up[s] = 0 \/ up[s] \in S PROVE s \in S
  <2> HIDE DEF q, r, up
  <2>1. QED BY <1>2, <1>3, <1>4
<1>5. \A s \in 1..n : s \in S
  <2> HIDE DEF n, up, S
  <2>1. QED BY <1>1, <1>4, TreeInduction
<1>6. QED BY <1>5

\* The streams that a chain passes, and where it ends.
LEMMA WayMeans ==
  ASSUME NEW ss, Tree(ss), NEW s \in 1..Len(ss)
  PROVE  /\ ss[s].parent = 0 \/ ss[s].buf # <<>> =>
              ToSet(ChainOf(ss)[s]) = {s} /\ Last(ChainOf(ss)[s]) = s
         /\ ss[s].parent # 0 /\ ss[s].buf = <<>> =>
              /\ ToSet(ChainOf(ss)[s]) = {s} \cup ToSet(ChainOf(ss)[ss[s].parent])
              /\ Last(ChainOf(ss)[s]) = Last(ChainOf(ss)[ss[s].parent])
<1> DEFINE c == ChainOf(ss)
           n == Len(ss)
<1>1. ss[s].parent # 0 => ss[s].parent \in 1..n
  BY TreeFields
<1>2. \A t \in 1..n : /\ c[t] \in Seq(1..n) /\ c[t] # <<>>
                      /\ c[t] = IF ss[t].parent = 0 \/ ss[t].buf # <<>>
                                THEN <<t>> ELSE <<t>> \o c[ss[t].parent]
  BY ChainMeans
<1> HIDE DEF c
<1>3. CASE ss[s].parent = 0 \/ ss[s].buf # <<>>
  <2>1. c[s] = <<s>>
    BY <1>2, <1>3
  <2>2. ToSet(<<s>>) = {s} /\ Last(<<s>>) = s
    BY DEF ToSet, Last
  <2>3. QED BY <1>3, <2>1, <2>2 DEF c
<1>4. CASE ss[s].parent # 0 /\ ss[s].buf = <<>>
  <2> DEFINE p == ss[s].parent
             x == <<s>>
             y == c[p]
  <2>1. /\ c[s] = x \o y /\ y \in Seq(1..n) /\ y # <<>>
        /\ x \in Seq(1..n) /\ Len(x) = 1 /\ x[1] = s
    <3>1. p \in 1..n
      BY <1>1, <1>4
    <3>2. c[s] = IF ss[s].parent = 0 \/ ss[s].buf # <<>> THEN <<s>> ELSE <<s>> \o c[p]
      BY <1>2
    <3>3. c[s] = x \o y
      BY <1>4, <3>2
    <3>4. y \in Seq(1..n) /\ y # <<>>
      BY <1>2, <3>1
    <3>5. x \in Seq(1..n) /\ Len(x) = 1 /\ x[1] = s
      OBVIOUS
    <3>6. QED BY <3>3, <3>4, <3>5
  <2> HIDE DEF n, x, y
  <2>2. /\ x \o y \in Seq(1..n) /\ Len(x \o y) = Len(x) + Len(y)
        /\ \A i \in 1..Len(x) + Len(y) : (x \o y)[i] = IF i <= Len(x) THEN x[i] ELSE y[i - Len(x)]
    BY <2>1, ConcatProperties
  <2>3. Len(y) \in Nat \ {0} /\ DOMAIN y = 1..Len(y) /\ DOMAIN (x \o y) = 1..(1 + Len(y))
        /\ \A i \in 1..(1 + Len(y)) : (x \o y)[i] = IF i <= 1 THEN x[i] ELSE y[i - 1]
    <3>1. Len(y) \in Nat \ {0} /\ DOMAIN y = 1..Len(y)
      BY <2>1, EmptySeq
    <3>2. QED BY <2>1, <2>2, <3>1
  <2> DEFINE z == x \o y
             m == Len(y)
  <2>4. z[1] = s /\ \A i \in 1..m : z[i + 1] = y[i]
    <3>1. \A i \in 1..m : i + 1 \in 1..(1 + m) /\ ~(i + 1 <= 1) /\ (i + 1) - 1 = i
      BY <2>3
    <3>2. 1 \in 1..(1 + m)
      BY <2>3
    <3> HIDE DEF z
    <3>3. \A i \in 1..(1 + m) : z[i] = IF i <= 1 THEN x[i] ELSE y[i - 1]
      BY <2>3 DEF z
    <3>4. ASSUME NEW i \in 1..m PROVE z[i + 1] = y[i]
      BY <3>1, <3>3
    <3>5. QED BY <2>1, <3>2, <3>3, <3>4
  <2>5. DOMAIN z = 1..(1 + m) /\ m \in Nat \ {0} /\ DOMAIN y = 1..m /\ Len(z) = 1 + m
    BY <2>1, <2>2, <2>3
  <2> HIDE DEF z
  <2>6. ToSet(z) = {s} \cup ToSet(y)
    <3>1. ASSUME NEW i \in 1..(1 + m) PROVE z[i] \in {s} \cup ToSet(y)
      <4>1. CASE i = 1
        BY <2>4, <4>1
      <4>2. CASE i # 1
        <5>1. i - 1 \in 1..m /\ (i - 1) + 1 = i
          BY <2>5, <4>2
        <5>2. z[i] = y[i - 1]
          BY <2>4, <5>1
        <5>3. QED BY <2>5, <5>1, <5>2 DEF ToSet
      <4>3. QED BY <4>1, <4>2
    <3>2. ASSUME NEW i \in 1..m PROVE y[i] \in ToSet(z)
      <4>1. i + 1 \in 1..(1 + m) /\ z[i + 1] = y[i]
        BY <2>4, <2>5
      <4>2. QED BY <2>5, <4>1 DEF ToSet
    <3>3. s \in ToSet(z)
      <4>1. 1 \in 1..(1 + m)
        BY <2>5
      <4>2. QED BY <2>4, <2>5, <4>1 DEF ToSet
    <3>4. ToSet(z) \subseteq {s} \cup ToSet(y)
      BY <2>5, <3>1 DEF ToSet
    <3>5. ToSet(y) \subseteq ToSet(z)
      <4>1. ToSet(y) = {y[i] : i \in 1..m}
        BY <2>5 DEF ToSet
      <4>2. QED BY <3>2, <4>1
    <3>6. QED BY <3>3, <3>4, <3>5
  <2>7. Last(z) = Last(y)
    <3>1. m \in 1..m /\ 1 + m = m + 1
      BY <2>5
    <3>2. Last(z) = z[m + 1]
      BY <2>5, <3>1 DEF Last
    <3>3. QED BY <2>4, <3>1, <3>2 DEF Last
  <2>8. c[s] = z
    BY <2>1 DEF z
  <2> HIDE DEF m
  <2>9. QED BY <1>4, <2>6, <2>7, <2>8 DEF c, y
<1>5. QED BY <1>3, <1>4

\* The streams W on the way from s to h, which has the next block: each but h is empty and
\* gets its blocks from the next one on the way, and all have the same root.
GoodWay(ss, s, W, h) ==
  /\ s \in W /\ h \in W /\ W \subseteq 1..s
  /\ \A t \in W : h <= t
  /\ ss[h].parent = 0 \/ ss[h].buf # <<>>
  /\ \A t \in W \ {h} : ss[t].parent # 0 /\ ss[t].buf = <<>> /\ ss[t].parent \in W
  /\ \A t \in W \ {s} : \E u \in W : ss[u].parent = t
  /\ \A t \in W : RootsOf(ss)[t] = RootsOf(ss)[s]

\* The chain of every stream of a tree is a way in this sense.
LEMMA WaysAreGood ==
  ASSUME NEW ss, Tree(ss)
  PROVE  \A s \in 1..Len(ss) : GoodWay(ss, s, ToSet(ChainOf(ss)[s]), Last(ChainOf(ss)[s]))
<1> DEFINE n == Len(ss)
           up == [s \in 1..n |-> ss[s].parent]
           W(s) == ToSet(ChainOf(ss)[s])
           h(s) == Last(ChainOf(ss)[s])
           S == {s \in 1..n : GoodWay(ss, s, W(s), h(s))}
<1>1. /\ n \in Nat
      /\ \A s \in 1..n : up[s] = ss[s].parent /\ up[s] \in 0..(s - 1) /\ (up[s] # 0 => up[s] \in 1..n)
  BY TreeFields
<1>2. ASSUME NEW s \in 1..n
      PROVE  /\ ss[s].parent = 0 \/ ss[s].buf # <<>> => W(s) = {s} /\ h(s) = s
             /\ ss[s].parent # 0 /\ ss[s].buf = <<>> =>
                  W(s) = {s} \cup W(ss[s].parent) /\ h(s) = h(ss[s].parent)
  BY WayMeans
<1> HIDE DEF W, h
<1>3. ASSUME NEW s \in 1..n, up[s] = 0 \/ up[s] \in S PROVE GoodWay(ss, s, W(s), h(s))
  <2>1. CASE ss[s].parent = 0 \/ ss[s].buf # <<>>
    <3>1. W(s) = {s} /\ h(s) = s
      BY <1>2, <2>1
    <3>2. s <= s /\ s \in 1..s
      BY <1>1
    <3>3. QED BY <2>1, <3>1, <3>2 DEF GoodWay
  <2>2. CASE ss[s].parent # 0 /\ ss[s].buf = <<>>
    <3> DEFINE p == ss[s].parent
    <3>1. W(s) = {s} \cup W(p) /\ h(s) = h(p)
      BY <1>2, <2>2
    <3>2. p \in 0..(s - 1) /\ p # 0 /\ p \in 1..n /\ p \in S
      BY <1>1, <1>3, <2>2
    <3>3. GoodWay(ss, p, W(p), h(p))
      BY <3>2
    <3>4. p \in W(p) /\ h(p) \in W(p) /\ W(p) \subseteq 1..p /\ h(p) <= p
      BY <3>3 DEF GoodWay
    <3>5. h(p) <= s /\ W(p) \subseteq 1..s /\ s \in 1..s /\ h(p) \in Nat
      BY <1>1, <3>2, <3>4
    <3>6. RootsOf(ss)[p] = RootsOf(ss)[s]
      BY <2>2, RootsMeans
    <3> HIDE DEF p
    <3>7. s \in W(s) /\ h(s) \in W(s) /\ W(s) \subseteq 1..s /\ \A t \in W(s) : h(s) <= t
      BY <3>1, <3>3, <3>4, <3>5 DEF GoodWay
    <3>8. ss[h(s)].parent = 0 \/ ss[h(s)].buf # <<>>
      BY <3>1, <3>3 DEF GoodWay
    <3>9. \A t \in W(s) \ {h(s)} : ss[t].parent # 0 /\ ss[t].buf = <<>> /\ ss[t].parent \in W(s)
      <4>1. ASSUME NEW t \in W(s) \ {h(s)}
            PROVE  ss[t].parent # 0 /\ ss[t].buf = <<>> /\ ss[t].parent \in W(s)
        <5>1. CASE t = s
          BY <2>2, <3>1, <3>4, <5>1 DEF p
        <5>2. CASE t # s
          BY <3>1, <3>3, <5>2 DEF GoodWay
        <5>3. QED BY <5>1, <5>2
      <4>2. QED BY <4>1
    <3>10. \A t \in W(s) \ {s} : \E u \in W(s) : ss[u].parent = t
      <4>1. ASSUME NEW t \in W(s) \ {s} PROVE \E u \in W(s) : ss[u].parent = t
        <5>1. CASE t = p
          BY <3>7, <5>1 DEF p
        <5>2. CASE t # p
          BY <3>1, <3>3, <5>2 DEF GoodWay
        <5>3. QED BY <5>1, <5>2
      <4>2. QED BY <4>1
    <3>11. \A t \in W(s) : RootsOf(ss)[t] = RootsOf(ss)[s]
      BY <3>1, <3>3, <3>6 DEF GoodWay
    <3>12. QED BY <3>7, <3>8, <3>9, <3>10, <3>11 DEF GoodWay
  <2>3. QED BY <2>1, <2>2
<1>4. \A s \in 1..n : s \in S
  <2>1. \A s \in 1..n : (up[s] = 0 \/ up[s] \in S) => s \in S
    BY <1>3
  <2> HIDE DEF n, up, S
  <2>2. QED BY <1>1, <2>1, TreeInduction
<1>5. QED BY <1>4 DEF W, h

-----------------------------------------------------------------------------
(***************************************************************************)
(* A block that is read.                                                   *)
(***************************************************************************)
\* What reading does to each stream: the head gives the block n, the branches beside the way
\* keep it.
GivesTo(tt, s, W, h, n) ==
  /\ Len(tt) = Len(streams)
  /\ \A t \in 1..Len(streams) : /\ tt[t].parent = streams[t].parent /\ tt[t].locked = streams[t].locked
                                 /\ tt[t].cut = streams[t].cut
  /\ IF streams[h].buf # <<>>
     THEN /\ n = Head(streams[h].buf) /\ tt[h].buf = Tail(streams[h].buf)
          /\ tt[h].given = streams[h].given
     ELSE /\ n = streams[h].given + 1 /\ tt[h].given = streams[h].given + 1
          /\ tt[h].buf = streams[h].buf
  /\ \A t \in 1..Len(streams) \ {h} :
       /\ tt[t].given = streams[t].given
       /\ tt[t].buf = IF t \notin W /\ streams[t].parent \in W \ {s}
                      THEN Append(streams[t].buf, n) ELSE streams[t].buf

\* A read of a stream that is not at its end gives a block along such a way.
LEMMA PulledGives ==
  ASSUME Tree(streams), NEW s \in 1..Len(streams), ~AtEnd(s)
  PROVE  /\ Tree(Pulled(s)) /\ NextBlock(s) \in 1..Blocks
         /\ GivesTo(Pulled(s), s, ToSet(Chain[s]), Last(Chain[s]), NextBlock(s))
<1> DEFINE W == ToSet(Chain[s])
           h == Last(Chain[s])
           n == NextBlock(s)
           Passed(t) ==
             IF t = h
             THEN IF streams[t].buf # <<>> THEN [streams[t] EXCEPT !.buf = Tail(@)]
                  ELSE [streams[t] EXCEPT !.given = @ + 1]
             ELSE IF t \notin W /\ streams[t].parent \in W \ {s}
             THEN [streams[t] EXCEPT !.buf = Append(@, n)]
             ELSE streams[t]
           tt == Pulled(s)
<1>1. tt = [t \in DOMAIN streams |-> Passed(t)]
  BY DEF Pulled
<1>2. n = IF streams[h].buf # <<>> THEN Head(streams[h].buf) ELSE streams[h].given + 1
  BY DEF NextBlock
<1>3. /\ Len(streams) \in Nat /\ DOMAIN streams = 1..Len(streams) /\ Blocks \in Nat
      /\ \A t \in 1..Len(streams) : /\ streams[t].parent \in 0..(t - 1) /\ streams[t].given \in 0..Blocks
                                    /\ streams[t].buf \in Seq(1..Blocks)
  BY TreeFields
<1>4. h \in 1..Len(streams)
  <2>1. GoodWay(streams, s, W, h)
    BY WaysAreGood, SameFunctions
  <2> HIDE DEF W, h
  <2>2. h \in 1..s
    BY <2>1 DEF GoodWay
  <2>3. QED BY <1>3, <2>2
<1>5. ~(n > Blocks)
  BY DEF AtEnd
<1> HIDE DEF W, h, n, tt
<1>6. n \in 1..Blocks
  <2>1. streams[h].buf \in Seq(1..Blocks) /\ streams[h].given \in 0..Blocks
    BY <1>3, <1>4
  <2>2. streams[h].buf # <<>> => Head(streams[h].buf) \in 1..Blocks
    BY <2>1, HeadTailProperties
  <2>3. CASE streams[h].buf # <<>>
    BY <1>2, <2>2, <2>3
  <2>4. CASE streams[h].buf = <<>>
    BY <1>2, <1>3, <1>5, <2>1, <2>4
  <2>5. QED BY <2>3, <2>4
<1>7. ASSUME NEW t \in 1..Len(streams)
      PROVE  /\ Passed(t) \in StreamOf(1..Blocks) /\ Passed(t).given <= Blocks
             /\ Passed(t).parent = streams[t].parent /\ Passed(t).locked = streams[t].locked
             /\ Passed(t).cut = streams[t].cut
             /\ t # h => /\ Passed(t).given = streams[t].given
                         /\ Passed(t).buf = IF t \notin W /\ streams[t].parent \in W \ {s}
                                            THEN Append(streams[t].buf, n) ELSE streams[t].buf
             /\ t = h /\ streams[t].buf # <<>> =>
                  /\ Passed(t).buf = Tail(streams[t].buf) /\ Passed(t).given = streams[t].given
             /\ t = h /\ streams[t].buf = <<>> =>
                  /\ Passed(t).buf = streams[t].buf /\ Passed(t).given = streams[t].given + 1
  <2>1. streams[t] \in StreamOf(1..Blocks) /\ streams[t].given \in 0..Blocks
    BY <1>3 DEF Tree
  <2> DEFINE x == streams[t]
  <2>2. x.buf \in Seq(1..Blocks) /\ x.given \in Nat /\ x.given <= Blocks
    BY <1>3
  <2>3. CASE t = h /\ x.buf # <<>>
    <3> DEFINE y == [x EXCEPT !.buf = Tail(x.buf)]
    <3>1. Passed(t) = y
      BY <2>3
    <3>2. Tail(x.buf) \in Seq(1..Blocks)
      BY <2>2, <2>3, HeadTailProperties
    <3> HIDE DEF x
    <3>3. /\ y \in StreamOf(1..Blocks) /\ y.given = x.given /\ y.parent = x.parent /\ y.locked = x.locked
          /\ y.buf = Tail(x.buf) /\ y.cut = x.cut
      <4>1. x \in StreamOf(1..Blocks)
        BY <2>1 DEF x
      <4>2. QED BY <3>2, <4>1 DEF StreamOf
    <3> HIDE DEF y, Passed
    <3>4. QED BY <2>2, <2>3, <3>1, <3>3 DEF x
  <2>4. CASE t = h /\ x.buf = <<>>
    <3> DEFINE y == [x EXCEPT !.given = x.given + 1]
    <3>1. Passed(t) = y
      BY <2>4
    <3>2. n = x.given + 1
      BY <1>2, <2>4
    <3>3. x.given + 1 \in Nat /\ x.given + 1 <= Blocks
      BY <1>3, <1>6, <2>2, <3>2
    <3> HIDE DEF x
    <3>4. /\ y \in StreamOf(1..Blocks) /\ y.given = x.given + 1 /\ y.parent = x.parent
          /\ y.locked = x.locked /\ y.buf = x.buf /\ y.cut = x.cut
      <4>1. x \in StreamOf(1..Blocks)
        BY <2>1 DEF x
      <4>2. QED BY <3>3, <4>1 DEF StreamOf
    <3> HIDE DEF y, Passed
    <3>5. QED BY <2>4, <3>1, <3>3, <3>4 DEF x
  <2>5. CASE t # h /\ t \notin W /\ x.parent \in W \ {s}
    <3> DEFINE y == [x EXCEPT !.buf = Append(x.buf, n)]
    <3>1. Passed(t) = y
      BY <2>5
    <3>2. Append(x.buf, n) \in Seq(1..Blocks)
      BY <1>6, <2>2
    <3> HIDE DEF x
    <3>3. /\ y \in StreamOf(1..Blocks) /\ y.given = x.given /\ y.parent = x.parent /\ y.locked = x.locked
          /\ y.buf = Append(x.buf, n) /\ y.cut = x.cut
      <4>1. x \in StreamOf(1..Blocks)
        BY <2>1 DEF x
      <4>2. QED BY <3>2, <4>1 DEF StreamOf
    <3> HIDE DEF y, Passed
    <3>4. QED BY <2>2, <2>5, <3>1, <3>3 DEF x
  <2>6. CASE t # h /\ ~(t \notin W /\ x.parent \in W \ {s})
    <3>1. Passed(t) = x
      BY <2>6
    <3> HIDE DEF Passed
    <3>2. QED BY <2>1, <2>2, <2>6, <3>1
  <2>7. QED BY <2>3, <2>4, <2>5, <2>6
<1> HIDE DEF Passed
<1>8. tt \in Seq(StreamOf(1..Blocks)) /\ Len(tt) = Len(streams)
      /\ \A t \in 1..Len(streams) : tt[t] = Passed(t)
  <2> DEFINE m == Len(streams)
             f == [t \in 1..m |-> Passed(t)]
  <2>1. tt = f
    BY <1>1, <1>3
  <2>2. f \in [1..m -> StreamOf(1..Blocks)] /\ m \in Nat
    BY <1>3, <1>7
  <2>3. f \in Seq(StreamOf(1..Blocks)) /\ DOMAIN f = 1..m
    <3> HIDE DEF m, f
    <3>1. f \in Seq(StreamOf(1..Blocks))
      BY <2>2, SeqDef
    <3>2. QED BY <2>2, <3>1
  <2>4. Len(f) = m
    <3> HIDE DEF m, f
    <3>1. QED BY <2>2, <2>3, LenProperties
  <2>5. QED BY <2>1, <2>3, <2>4
<1>9. Tree(tt)
  <2>1. ASSUME NEW t \in 1..Len(tt) PROVE tt[t].parent < t /\ tt[t].given <= Blocks
    <3>1. t \in 1..Len(streams) /\ tt[t] = Passed(t)
      BY <1>8
    <3>2. tt[t].parent = streams[t].parent /\ tt[t].given <= Blocks
      BY <1>7, <3>1
    <3>3. streams[t].parent < t
      BY <3>1 DEF Tree
    <3>4. QED BY <3>2, <3>3
  <2>2. QED BY <1>8, <2>1 DEF Tree
<1>10. GivesTo(tt, s, W, h, n)
  <2>1. \A t \in 1..Len(streams) :
          /\ tt[t].parent = streams[t].parent /\ tt[t].locked = streams[t].locked
          /\ tt[t].cut = streams[t].cut
    BY <1>7, <1>8
  <2>2. CASE streams[h].buf # <<>>
    BY <1>2, <1>4, <1>7, <1>8, <2>1, <2>2 DEF GivesTo
  <2>3. CASE streams[h].buf = <<>>
    BY <1>2, <1>4, <1>7, <1>8, <2>1, <2>3 DEF GivesTo
  <2>4. QED BY <2>2, <2>3
<1>11. QED BY <1>6, <1>9, <1>10 DEF W, h, n, tt

\* Blocks at the front of a sequence, and at its end.
LEMMA FirstBlock ==
  ASSUME NEW V, NEW buf \in Seq(V), NEW rest \in Seq(V), buf # <<>>
  PROVE  buf \o rest = <<Head(buf)>> \o (Tail(buf) \o rest)
<1> DEFINE x == <<Head(buf)>>
           y == Tail(buf)
<1>1. /\ Head(buf) \in V /\ y \in Seq(V) /\ Len(y) = Len(buf) - 1
      /\ \A i \in 1..Len(y) : y[i] = buf[i + 1]
  BY HeadTailProperties
<1>2. Len(buf) \in Nat \ {0} /\ Head(buf) = buf[1]
  BY EmptySeq
<1>3. x \in Seq(V) /\ Len(x) = 1 /\ x[1] = buf[1]
  BY <1>1, <1>2
<1>4. y \in Seq(V)
  BY <1>1
<1> HIDE DEF x, y
<1>5. /\ x \o y \in Seq(V) /\ Len(x \o y) = Len(x) + Len(y)
      /\ \A i \in 1..Len(x) + Len(y) : (x \o y)[i] = IF i <= Len(x) THEN x[i] ELSE y[i - Len(x)]
  BY <1>3, <1>4, ConcatProperties
<1>6. Len(x \o y) = Len(buf)
  BY <1>1, <1>2, <1>3, <1>5
<1>7. ASSUME NEW i \in 1..Len(buf) PROVE (x \o y)[i] = buf[i]
  <2>1. i \in 1..Len(x) + Len(y)
    BY <1>5, <1>6
  <2>2. (x \o y)[i] = IF i <= 1 THEN x[i] ELSE y[i - 1]
    BY <1>3, <1>5, <2>1
  <2>3. CASE i = 1
    BY <1>3, <2>2, <2>3
  <2>4. CASE i # 1
    <3>1. i - 1 \in 1..Len(y) /\ ~(i <= 1) /\ (i - 1) + 1 = i
      BY <1>1, <1>2, <2>4
    <3>2. y[i - 1] = buf[(i - 1) + 1]
      BY <1>1, <3>1
    <3>3. QED BY <2>2, <3>1, <3>2
  <2>5. QED BY <2>3, <2>4
<1>8. x \o y = buf
  BY <1>5, <1>6, <1>7, SeqEqual
<1>9. (x \o y) \o rest = x \o (y \o rest)
  <2>1. \A a, b, c \in Seq(V) : (a \o b) \o c = a \o (b \o c)
    BY ConcatAssociative
  <2>2. QED BY <1>3, <1>4, <2>1, Zenon
<1>10. QED BY <1>8, <1>9 DEF x, y

\* A block between two sequences belongs to either.
LEMMA LastBlock ==
  ASSUME NEW V, NEW buf \in Seq(V), NEW n \in V, NEW rest \in Seq(V)
  PROVE  Append(buf, n) \o rest = buf \o (<<n>> \o rest)
<1>1. Append(buf, n) = buf \o <<n>> /\ <<n>> \in Seq(V)
  BY AppendIsConcat
<1>2. (buf \o <<n>>) \o rest = buf \o (<<n>> \o rest)
  BY <1>1, ConcatAssociative
<1>3. QED BY <1>1, <1>2

\* Nothing before a sequence is the sequence.
LEMMA NoBlock ==
  ASSUME NEW V, NEW rest \in Seq(V)
  PROVE  <<>> \o rest = rest
BY ConcatEmptySeq

\* Nothing remains of a stream at its end.
LEMMA EndMeans ==
  ASSUME Tree(streams)
  PROVE  \A s \in 1..Len(streams) : AtEnd(s) => Remaining[s] = <<>>
<1> DEFINE n == Len(streams)
           up == [s \in 1..n |-> streams[s].parent]
           S == {s \in 1..n : AtEnd(s) => Remaining[s] = <<>>}
<1>1. /\ n \in Nat /\ Blocks \in Nat
      /\ \A s \in 1..n : /\ up[s] = streams[s].parent /\ up[s] \in 0..(s - 1) /\ (up[s] # 0 => up[s] \in 1..n)
                         /\ streams[s].given \in 0..Blocks /\ streams[s].buf \in Seq(1..Blocks)
  BY TreeFields
<1>2. After(Blocks) = <<>> /\ <<>> \o After(Blocks) = <<>>
  <2>1. After(Blocks) = <<>>
    BY <1>1 DEF After
  <2>2. <<>> \in Seq(1..Blocks)
    OBVIOUS
  <2>3. QED BY <2>1, <2>2, NoBlock
<1>3. ASSUME NEW s \in 1..n
      PROVE  Remaining[s] = streams[s].buf \o (IF streams[s].parent # 0 THEN Remaining[streams[s].parent]
                                               ELSE After(streams[s].given))
  BY RestMeans, SameFunctions
<1>4. ASSUME NEW s \in 1..n, up[s] = 0 \/ up[s] \in S, AtEnd(s) PROVE Remaining[s] = <<>>
  <2> DEFINE h == Last(Chain[s])
  <2>1. NextBlock(s) = IF streams[h].buf # <<>> THEN Head(streams[h].buf) ELSE streams[h].given + 1
    BY DEF NextBlock
  <2>2. NextBlock(s) > Blocks
    BY <1>4 DEF AtEnd
  <2>3. CASE streams[s].parent = 0 \/ streams[s].buf # <<>>
    <3>1. h = s
      BY <2>3, WayMeans, SameFunctions
    <3> HIDE DEF h
    <3>2. ASSUME streams[s].buf # <<>> PROVE FALSE
      <4>1. Head(streams[s].buf) \in 1..Blocks
        BY <1>1, <3>2, HeadTailProperties
      <4>2. NextBlock(s) = Head(streams[s].buf)
        BY <2>1, <3>1, <3>2
      <4>3. QED BY <1>1, <2>2, <4>1, <4>2
    <3>3. streams[s].given = Blocks
      <4>1. NextBlock(s) = streams[s].given + 1
        BY <2>1, <3>1, <3>2
      <4>2. streams[s].given \in 0..Blocks
        BY <1>1
      <4>3. QED BY <1>1, <2>2, <4>1, <4>2
    <3>4. QED BY <1>2, <1>3, <2>3, <3>2, <3>3
  <2>4. CASE streams[s].parent # 0 /\ streams[s].buf = <<>>
    <3> DEFINE p == streams[s].parent
    <3>1. p \in 1..n /\ p \in S
      BY <1>1, <1>4, <2>4
    <3>2. h = Last(Chain[p])
      BY <2>4, WayMeans, SameFunctions
    <3>3. NextBlock(p) = NextBlock(s)
      BY <3>2 DEF NextBlock
    <3>4. Remaining[p] = <<>>
      BY <2>2, <3>1, <3>3 DEF AtEnd
    <3>5. <<>> \o <<>> = <<>>
      BY <1>2
    <3> HIDE DEF h
    <3>6. QED BY <1>3, <2>4, <3>4, <3>5
  <2>5. QED BY <2>3, <2>4
<1>5. \A s \in 1..n : s \in S
  <2>1. \A s \in 1..n : (up[s] = 0 \/ up[s] \in S) => s \in S
    BY <1>4
  <2> HIDE DEF n, up, S
  <2>2. QED BY <1>1, <2>1, TreeInduction
<1>6. QED BY <1>5

\* What remains of a stream and of its parent, after a read that gave the block n.
LEMMA ReadKeepsBlocks ==
  ASSUME Tree(streams), NEW s \in 1..Len(streams), NEW W, NEW h, NEW n \in 1..Blocks, NEW tt, Tree(tt),
         GoodWay(streams, s, W, h), GivesTo(tt, s, W, h, n)
  PROVE  /\ Branches(s) = {} =>
              \A t \in 1..Len(streams) :
                Remaining[t] = IF t \in W THEN <<n>> \o RemainingOf(tt)[t] ELSE RemainingOf(tt)[t]
         /\ \A t \in 1..Len(streams) :
              Roots[t] # Roots[s] => Remaining[t] = RemainingOf(tt)[t]
<1> DEFINE m == Len(streams)
           V == Seq(1..Blocks)
           up == [t \in 1..m |-> streams[t].parent]
           q == Remaining
           r == RemainingOf(tt)
<1>1. /\ m \in Nat /\ Len(tt) = m /\ DOMAIN streams = 1..m
      /\ \A t \in 1..m : /\ up[t] = streams[t].parent /\ up[t] \in 0..(t - 1)
                         /\ up[t] # 0 => up[t] \in 1..m
                         /\ streams[t].buf \in V /\ streams[t].given \in 0..Blocks
      /\ \A t \in 1..m : tt[t].buf \in V /\ tt[t].given \in 0..Blocks /\ tt[t].parent = up[t]
  BY TreeFields DEF GivesTo
<1>2. \A t \in 1..m : q[t] \in V /\ q[t] = streams[t].buf \o (IF up[t] # 0 THEN q[up[t]]
                                                            ELSE After(streams[t].given))
  <2>1. \A t \in 1..m : q[t] \in V /\ q[t] = streams[t].buf \o (IF streams[t].parent # 0
                                  THEN q[streams[t].parent] ELSE After(streams[t].given))
    BY RestMeans, SameFunctions
  <2> HIDE DEF q, V
  <2>2. QED BY <1>1, <2>1
<1>3. \A t \in 1..m : r[t] \in V /\ r[t] = tt[t].buf \o (IF up[t] # 0 THEN r[up[t]]
                                                       ELSE After(tt[t].given))
  <2>1. \A t \in 1..Len(tt) : r[t] \in V /\ r[t] = tt[t].buf \o (IF tt[t].parent # 0
                                  THEN r[tt[t].parent] ELSE After(tt[t].given))
    BY RestMeans, Zenon
  <2> HIDE DEF r, V
  <2>2. QED BY <1>1, <2>1
<1>4. s \in 1..m /\ h \in W /\ s \in W /\ W \subseteq 1..s /\ h \in 1..m
  BY <1>1 DEF GoodWay
<1> HIDE DEF q, r
\* A stream that the block does not reach.
<1>5. ASSUME NEW t \in 1..m \ {h}, up[t] = 0 \/ q[up[t]] = r[up[t]],
             t \in W \/ streams[t].parent \notin W \ {s}
      PROVE  q[t] = r[t]
  <2>1. tt[t].buf = streams[t].buf /\ tt[t].given = streams[t].given
    BY <1>5 DEF GivesTo
  <2>2. t \in 1..m
    OBVIOUS
  <2> HIDE DEF up
  <2>3. QED BY <1>2, <1>3, <1>5, <2>1, <2>2
<1>6. ASSUME Branches(s) = {}
      PROVE  \A t \in 1..m : q[t] = IF t \in W THEN <<n>> \o r[t] ELSE r[t]
  <2> DEFINE S == {t \in 1..m : q[t] = IF t \in W THEN <<n>> \o r[t] ELSE r[t]}
  <2>1. ASSUME NEW t \in 1..m, up[t] = 0 \/ up[t] \in S
        PROVE  q[t] = IF t \in W THEN <<n>> \o r[t] ELSE r[t]
    <3> DEFINE p == up[t]
    <3>1. p # 0 => p \in 1..m /\ q[p] \in V /\ r[p] \in V
                   /\ q[p] = IF p \in W THEN <<n>> \o r[p] ELSE r[p]
      BY <1>1, <1>2, <1>3, <2>1
    <3>2. p = streams[t].parent /\ p \in 0..(t - 1)
      BY <1>1
    <3> HIDE DEF up, S
    <3>3. CASE t = h
      <4>1. p \notin W
        <5>1. p \in W => h <= p
          BY DEF GoodWay
        <5>2. QED BY <1>1, <3>2, <3>3, <5>1
      <4>2. p # 0 => q[p] = r[p]
        BY <3>1, <4>1
      <4>3. CASE streams[h].buf # <<>>
        <5> DEFINE X == IF p # 0 THEN r[p] ELSE After(streams[t].given)
                   B == streams[t].buf
        <5>1. n = Head(B) /\ tt[t].buf = Tail(B) /\ tt[t].given = streams[t].given
          BY <3>3, <4>3 DEF GivesTo
        <5>2. q[t] = B \o X
          BY <1>2, <4>2
        <5>3. r[t] = Tail(B) \o X
          BY <1>3, <5>1
        <5>4. X \in V /\ B \in V /\ B # <<>>
          BY <1>1, <3>1, <3>3, <4>3, AfterBlocks
        <5>5. B \o X = <<Head(B)>> \o (Tail(B) \o X)
          <6> HIDE DEF B, X
          <6> QED BY <5>4, FirstBlock
        <5> HIDE DEF B, X
        <5>6. QED BY <1>4, <3>3, <5>1, <5>2, <5>3, <5>5
      <4>4. CASE streams[h].buf = <<>>
        <5> DEFINE g == streams[t].given
        <5>1. p = 0
          BY <3>2, <3>3, <4>4 DEF GoodWay
        <5>2. n = g + 1 /\ tt[t].buf = <<>> /\ tt[t].given = g + 1
          BY <3>3, <4>4 DEF GivesTo
        <5>3. q[t] = <<>> \o After(g) /\ r[t] = <<>> \o After(g + 1)
          BY <1>2, <1>3, <3>3, <4>4, <5>1, <5>2
        <5>4. g \in 0..Blocks /\ g < Blocks /\ g + 1 \in 0..Blocks
          <6>1. g \in 0..Blocks /\ Blocks \in Nat /\ g + 1 \in 1..Blocks
            BY <1>1, <5>2, BodiesAssumption
          <6> HIDE DEF g
          <6>2. QED BY <6>1
        <5> HIDE DEF g
        <5>5. After(g) = <<g + 1>> \o After(g + 1) /\ After(g) \in V /\ After(g + 1) \in V
          BY <5>4, AfterBlocks
        <5>6. <<>> \o After(g) = After(g) /\ <<>> \o After(g + 1) = After(g + 1)
          BY <5>5, NoBlock
        <5>7. QED BY <1>4, <3>3, <5>2, <5>3, <5>5, <5>6
      <4>5. QED BY <4>3, <4>4
    <3>4. CASE t \in W /\ t # h
      <4>1. p # 0 /\ streams[t].buf = <<>> /\ p \in W
        BY <3>2, <3>4 DEF GoodWay
      <4>2. tt[t].buf = <<>>
        BY <3>4, <4>1 DEF GivesTo
      <4>3. q[t] = <<>> \o q[p] /\ r[t] = <<>> \o r[p]
        BY <1>2, <1>3, <4>1, <4>2
      <4>4. <<>> \o q[p] = q[p] /\ <<>> \o r[p] = r[p]
        BY <3>1, <4>1, NoBlock
      <4>5. q[p] = <<n>> \o r[p]
        BY <3>1, <4>1
      <4>6. QED BY <3>4, <4>3, <4>4, <4>5
    <3>5. CASE t \notin W /\ p \in W
      <4>1. p # 0 /\ p # s /\ t # h
        <5>1. W \subseteq 1..s /\ h \in W
          BY <1>4
        <5>2. t \notin Branches(s)
          BY <1>6
        <5>3. streams[t].parent # s
          BY <1>1, <5>2 DEF Branches
        <5>4. 0 \notin 1..s
          BY <1>1, <1>4
        <5>5. QED BY <3>2, <3>5, <5>1, <5>3, <5>4
      <4> DEFINE B == streams[t].buf
      <4>2. tt[t].buf = Append(B, n)
        BY <3>2, <3>5, <4>1 DEF GivesTo
      <4>3. q[t] = B \o q[p] /\ r[t] = Append(B, n) \o r[p]
        BY <1>2, <1>3, <4>1, <4>2
      <4>4. q[p] = <<n>> \o r[p] /\ r[p] \in V /\ B \in V
        BY <1>1, <3>1, <3>5, <4>1
      <4> HIDE DEF B
      <4>5. Append(B, n) \o r[p] = B \o (<<n>> \o r[p])
        <5> DEFINE D == 1..Blocks
                   X == r[p]
        <5>1. B \in Seq(D) /\ X \in Seq(D) /\ n \in D
          BY <4>4
        <5> HIDE DEF D, X
        <5>2. Append(B, n) \o X = B \o (<<n>> \o X)
          BY <5>1, LastBlock
        <5>3. QED BY <5>2 DEF X
      <4>6. QED BY <3>5, <4>3, <4>4, <4>5
    <3>6. CASE t \notin W /\ p \notin W
      <4>1. t # h
        BY <1>4, <3>6
      <4>2. p = 0 \/ q[p] = r[p]
        BY <3>1, <3>6
      <4>3. streams[t].parent \notin W \ {s}
        BY <3>2, <3>6
      <4>4. QED BY <1>5, <3>6, <4>1, <4>2, <4>3
    <3>7. QED BY <3>3, <3>4, <3>5, <3>6
  <2>2. \A t \in 1..m : t \in S
    <3>1. \A t \in 1..m : (up[t] = 0 \/ up[t] \in S) => t \in S
      BY <2>1
    <3>2. m \in Nat /\ \A t \in 1..m : up[t] \in 0..(t - 1)
      BY <1>1
    <3> HIDE DEF m, up, S
    <3>3. QED BY <3>1, <3>2, TreeInduction
  <2>3. QED BY <2>2
<1>7. \A t \in 1..m : Roots[t] # Roots[s] => q[t] = r[t]
  <2> DEFINE S == {t \in 1..m : Roots[t] # Roots[s] => q[t] = r[t]}
  <2>1. ASSUME NEW t \in 1..m, up[t] = 0 \/ up[t] \in S, Roots[t] # Roots[s]
        PROVE  q[t] = r[t]
    <3> DEFINE p == up[t]
    <3>1. p = streams[t].parent /\ (p # 0 => p \in 1..m)
      BY <1>1
    <3>2. p # 0 => Roots[p] = Roots[t]
      BY <3>1, RootsMeans, SameFunctions
    <3>3. \A u \in W : Roots[u] = Roots[s]
      BY SameFunctions DEF GoodWay
    <3>4. 0 \notin W
      BY <1>1, <1>4
    <3> HIDE DEF p
    <3>5. t \notin W /\ p \notin W /\ t # h
      BY <1>4, <2>1, <3>2, <3>3, <3>4
    <3>6. p = 0 \/ q[p] = r[p]
      BY <2>1, <3>2 DEF p
    <3>7. QED BY <1>5, <3>1, <3>5, <3>6 DEF p
  <2>2. \A t \in 1..m : t \in S
    <3>1. \A t \in 1..m : (up[t] = 0 \/ up[t] \in S) => t \in S
      BY <2>1
    <3>2. m \in Nat /\ \A t \in 1..m : up[t] \in 0..(t - 1)
      BY <1>1
    <3> HIDE DEF m, up, S
    <3>3. QED BY <3>1, <3>2, TreeInduction
  <2>3. QED BY <2>2
<1>8. QED BY <1>6, <1>7 DEF q, r

-----------------------------------------------------------------------------
(***************************************************************************)
(* Streams that are marked, locked and added.                              *)
(***************************************************************************)
\* The streams tt differ from ss in their marks and locks only.
Alike(tt, ss) ==
  /\ tt \in Seq(StreamOf(1..Blocks)) /\ Len(tt) = Len(ss)
  /\ \A t \in 1..Len(ss) : /\ tt[t].parent = ss[t].parent
                           /\ tt[t].buf = ss[t].buf /\ tt[t].given = ss[t].given

\* Streams that differ in their marks and locks only form the same trees.
LEMMA AlikeIsTree ==
  ASSUME NEW ss, Tree(ss), NEW tt, Alike(tt, ss)
  PROVE  Tree(tt)
BY DEF Tree, Alike

\* One stream is replaced by another with the same blocks.
LEMMA StreamReplaced ==
  ASSUME NEW ss, Tree(ss), NEW s \in 1..Len(ss), NEW x \in StreamOf(1..Blocks),
         x.parent = ss[s].parent, x.buf = ss[s].buf, x.given = ss[s].given
  PROVE  /\ Alike([ss EXCEPT ![s] = x], ss)
         /\ \A t \in 1..Len(ss) : [ss EXCEPT ![s] = x][t] = IF t = s THEN x ELSE ss[t]
<1> DEFINE D == StreamOf(1..Blocks)
           tt == [ss EXCEPT ![s] = x]
<1>1. ss \in Seq(D) /\ x \in D
  BY DEF Tree
<1> HIDE DEF D
<1>2. /\ tt \in Seq(D) /\ Len(tt) = Len(ss)
      /\ \A t \in 1..Len(ss) : tt[t] = IF t = s THEN x ELSE ss[t]
  BY <1>1, ExceptSeq
<1> HIDE DEF tt
<1>3. QED BY <1>2 DEF Alike, D, tt

\* Marking a stream changes no other field, of it or of another.
LEMMA DisturbIsAlike ==
  ASSUME NEW ss, Tree(ss), NEW s \in 1..Len(ss)
  PROVE  /\ Alike(Disturb(ss, s), ss) /\ Tree(Disturb(ss, s))
         /\ \A t \in 1..Len(ss) : /\ Disturb(ss, s)[t].locked = ss[t].locked
                                  /\ ss[t].disturbed => Disturb(ss, s)[t].disturbed
                                  /\ Disturb(ss, s)[t].cut = ss[t].cut
         /\ Disturb(ss, s)[s].disturbed
<1> DEFINE x == [ss[s] EXCEPT !.disturbed = TRUE]
<1>1. ss[s] \in StreamOf(1..Blocks)
  BY DEF Tree
<1>2. /\ x \in StreamOf(1..Blocks) /\ x.parent = ss[s].parent /\ x.buf = ss[s].buf
      /\ x.given = ss[s].given /\ x.locked = ss[s].locked /\ x.disturbed = TRUE
      /\ x.cut = ss[s].cut
  BY <1>1 DEF StreamOf
<1>3. Disturb(ss, s) = [ss EXCEPT ![s] = x]
  BY DEF Disturb
<1> HIDE DEF x
<1>4. /\ Alike(Disturb(ss, s), ss)
      /\ \A t \in 1..Len(ss) : Disturb(ss, s)[t] = IF t = s THEN x ELSE ss[t]
  <2>1. /\ Alike([ss EXCEPT ![s] = x], ss)
        /\ \A t \in 1..Len(ss) : [ss EXCEPT ![s] = x][t] = IF t = s THEN x ELSE ss[t]
    BY <1>2, StreamReplaced
  <2>2. QED BY <1>3, <2>1
<1>5. Tree(Disturb(ss, s))
  BY <1>4, AlikeIsTree
<1>6. QED BY <1>2, <1>4, <1>5

\* A new stream over p.
LEMMA AddedIsTree ==
  ASSUME NEW ss, Tree(ss), NEW p \in 0..Len(ss)
  PROVE  /\ Tree(Append(ss, Stream(p))) /\ Len(Append(ss, Stream(p))) = Len(ss) + 1
         /\ \A t \in 1..Len(ss) : Append(ss, Stream(p))[t] = ss[t]
         /\ Append(ss, Stream(p))[Len(ss) + 1] = Stream(p)
<1> DEFINE D == StreamOf(1..Blocks)
           x == Stream(p)
           tt == Append(ss, x)
<1>1. ss \in Seq(D) /\ Len(ss) \in Nat /\ Blocks \in Nat /\ p \in Nat /\ p < Len(ss) + 1
  BY TreeFields DEF Tree
<1>2. x \in D /\ x.parent = p /\ x.given = 0
  BY <1>1 DEF StreamOf, Stream
<1> HIDE DEF D, x
<1>3. /\ tt \in Seq(D) /\ Len(tt) = Len(ss) + 1 /\ tt[Len(ss) + 1] = x
      /\ \A t \in 1..Len(ss) : tt[t] = ss[t]
  BY <1>1, <1>2, AppendProperties
<1> HIDE DEF tt
<1>4. ASSUME NEW t \in 1..Len(tt) PROVE tt[t].parent < t /\ tt[t].given <= Blocks
  <2>1. CASE t \in 1..Len(ss)
    BY <1>3, <2>1 DEF Tree
  <2>2. CASE t = Len(ss) + 1
    BY <1>1, <1>2, <1>3, <2>2
  <2>3. QED BY <1>1, <1>3, <2>1, <2>2
<1>5. QED BY <1>3, <1>4 DEF Tree, D, x, tt

\* The two branches of a tee, one after the other.
LEMMA TwoOf ==
  ASSUME NEW D, NEW x \in D
  PROVE  Append(<<x>>, x) = <<x, x>>
<1>1. /\ <<x>> \in Seq(D) /\ <<x, x>> \in Seq(D)
      /\ Len(<<x>>) = 1 /\ Len(<<x, x>>) = 2
  OBVIOUS
<1>2. /\ Append(<<x>>, x) \in Seq(D) /\ Len(Append(<<x>>, x)) = 2
      /\ Append(<<x>>, x)[1] = x /\ Append(<<x>>, x)[2] = x
  BY <1>1
<1>3. \A i \in 1..2 : Append(<<x>>, x)[i] = <<x, x>>[i]
  BY <1>2
<1>4. QED BY <1>1, <1>2, <1>3, SeqEqual

\* The two branches of a tee over s.
LEMMA TeeIsTree ==
  ASSUME Tree(streams), NEW s \in 1..Len(streams)
  PROVE  /\ Tree(Tee(s)) /\ Len(Tee(s)) = Len(streams) + 2
         /\ \A t \in 1..Len(streams) : Tee(s)[t] = streams[t]
         /\ Tee(s)[Len(streams) + 1] = Stream(s) /\ Tee(s)[Len(streams) + 2] = Stream(s)
<1> DEFINE x == Stream(s)
           a == Append(streams, x)
           b == Append(a, x)
           n == Len(streams)
<1>1. n \in Nat /\ s \in 0..n /\ s \in 0..(n + 1)
  BY TreeFields
<1>2. /\ Tree(a) /\ Len(a) = n + 1 /\ a[n + 1] = x
      /\ \A t \in 1..n : a[t] = streams[t]
  BY <1>1, AddedIsTree
<1> HIDE DEF a, n
<1>3. /\ Tree(b) /\ Len(b) = (n + 1) + 1 /\ b[(n + 1) + 1] = x
      /\ \A t \in 1..(n + 1) : b[t] = a[t]
  <2>1. Tree(a) /\ s \in 0..Len(a) /\ Len(a) = n + 1
    BY <1>1, <1>2
  <2>2. /\ Tree(Append(a, Stream(s))) /\ Len(Append(a, Stream(s))) = Len(a) + 1
        /\ \A t \in 1..Len(a) : Append(a, Stream(s))[t] = a[t]
        /\ Append(a, Stream(s))[Len(a) + 1] = Stream(s)
    BY <2>1, AddedIsTree
  <2>3. QED BY <2>1, <2>2
<1>4. Tee(s) = b
  <2> DEFINE D == StreamOf(1..Blocks)
  <2>1. streams \in Seq(D) /\ a \in Seq(D) /\ x \in D
    BY <1>1, <1>2 DEF Tree, StreamOf, Stream
  <2>2. Tee(s) = streams \o <<x, x>>
    BY <1>1 DEF Tee
  <2> HIDE DEF D, x
  <2>3. a = streams \o <<x>> /\ b = a \o <<x>>
    <3>1. \A e \in Seq(D) : Append(e, x) = e \o <<x>>
      BY <2>1, AppendIsConcat
    <3>2. QED BY <2>1, <3>1 DEF a
  <2>4. (streams \o <<x>>) \o <<x>> = streams \o (<<x>> \o <<x>>)
    <3>1. \A e, f, g \in Seq(D) : (e \o f) \o g = e \o (f \o g)
      BY ConcatAssociative
    <3>2. <<x>> \in Seq(D)
      BY <2>1
    <3>3. QED BY <2>1, <3>1, <3>2, Zenon
  <2>5. <<x>> \o <<x>> = <<x, x>>
    <3>1. <<x>> \in Seq(D)
      BY <2>1
    <3>2. Append(<<x>>, x) = <<x>> \o <<x>>
      BY <2>1, <3>1, AppendIsConcat
    <3>3. Append(<<x>>, x) = <<x, x>>
      BY <2>1, TwoOf
    <3>4. QED BY <3>2, <3>3
  <2>6. QED BY <2>2, <2>3, <2>4, <2>5
<1> HIDE DEF b
<1>5. (n + 1) + 1 = n + 2 /\ (\A t \in 1..n : t \in 1..(n + 1)) /\ n + 1 \in 1..(n + 1)
  BY <1>1
<1>6. QED BY <1>2, <1>3, <1>4, <1>5 DEF n

-----------------------------------------------------------------------------
(***************************************************************************)
(* The invariant that carries WholeBody. As long as no script took blocks  *)
(* past the checks, a body that is an object's and a stream that a call    *)
(* reads have no branches, belong to one object and one call, and hold,    *)
(* with what the call has, the whole of the blocks.                        *)
(***************************************************************************)
Fresh(s) == s # 0 /\ Roots[s] \notin spoiled

CallWhole(c) ==
  Fresh(calls[c].stream) =>
    /\ Branches(calls[c].stream) = {}
    /\ streams[calls[c].stream].disturbed /\ ~streams[calls[c].stream].locked
    /\ calls[c].got \o Remaining[calls[c].stream] = All
    /\ calls[c].done => calls[c].got = All \/ streams[calls[c].stream].cut

CallsApart == \A c, d \in DOMAIN calls :
                c # d /\ calls[c].stream = calls[d].stream => ~Fresh(calls[c].stream)

CallsPart ==
  /\ calls \in Seq(CallOf(1..Blocks))
  /\ \A c \in DOMAIN calls : /\ calls[c].stream <= Len(streams)
                             /\ calls[c].stream = 0 => calls[c].done
                             /\ CallWhole(c)
  /\ CallsApart

ObjectWhole(o) ==
  Fresh(objects[o].body) =>
    /\ Branches(objects[o].body) = {}
    /\ ~Used(o) => Remaining[objects[o].body] = All

ObjectsApart == \A o, p \in DOMAIN objects :
                  o # p /\ objects[o].body = objects[p].body => ~Fresh(objects[o].body)

ObjectsPart ==
  /\ \A o \in DOMAIN objects : objects[o].body_js <= Len(streams) /\ ObjectWhole(o)
  /\ ObjectsApart

WholeInv == Tree(streams) /\ spoiled \subseteq DOMAIN streams /\ CallsPart /\ ObjectsPart

\* What every step does: the trees stay, with their marks, and what is spoiled stays so.
Onward ==
  /\ Tree(streams') /\ Len(streams') >= Len(streams) /\ MarksStay
  /\ \A t \in 1..Len(streams) : Roots'[t] = Roots[t] /\ (streams[t].cut => streams'[t].cut)
  /\ spoiled \subseteq spoiled' /\ spoiled' \subseteq 1..Len(streams')

\* The same of the state after a step.
FreshAfter(t) == t # 0 /\ Roots'[t] \notin spoiled'
BranchesAfter(t) == {b \in DOMAIN streams' : streams'[b].parent = t}

\* Streams without branches, but for those of X, get none and are not read or locked.
CallsCalm(X) ==
  \A t \in 1..Len(streams) \ X : FreshAfter(t) /\ Branches(t) = {} =>
    /\ BranchesAfter(t) = {} /\ Remaining'[t] = Remaining[t]
    /\ streams'[t].locked => streams[t].locked

\* The same with the weaker demand of an object's body: it may be read once it is marked.
ObjectsCalm(X) ==
  \A t \in 1..Len(streams) \ X : FreshAfter(t) /\ Branches(t) = {} =>
    /\ BranchesAfter(t) = {}
    /\ Remaining'[t] = Remaining[t] \/ streams'[t].disturbed

\* What the invariants say of the fields.
LEMMA WholeFields ==
  ASSUME BodiesInv, WholeInv
  PROVE  /\ Len(streams) \in Nat /\ DOMAIN streams = 1..Len(streams) /\ Blocks \in Nat
         /\ Len(objects) \in Nat /\ DOMAIN objects = 1..Len(objects)
         /\ Len(calls) \in Nat /\ DOMAIN calls = 1..Len(calls)
         /\ \A o \in 1..Len(objects) : /\ objects[o].body \in 0..Len(streams)
                                       /\ objects[o].body_js \in 0..Len(streams)
                                       /\ objects[o].list \in Types \cup {None}
                                       /\ Visible(o) \in Types \cup {None}
         /\ \A c \in 1..Len(calls) : /\ calls[c] \in CallOf(1..Blocks)
                                     /\ calls[c].stream \in 0..Len(streams)
                                     /\ calls[c].got \in Seq(1..Blocks)
<1>1. Len(streams) \in Nat /\ DOMAIN streams = 1..Len(streams) /\ Blocks \in Nat
  BY TreeFields DEF WholeInv
<1>2. /\ objects \in Seq(ObjectType)
      /\ \A o \in DOMAIN objects : objects[o].body <= Len(streams)
      /\ \A o \in DOMAIN objects : objects[o].body_js <= Len(streams)
  BY DEF BodiesInv, ObjectsTyped, WholeInv, ObjectsPart
<1>3. Len(objects) \in Nat /\ DOMAIN objects = 1..Len(objects)
  BY <1>2
<1>4. ASSUME NEW o \in 1..Len(objects)
      PROVE  /\ objects[o].body \in 0..Len(streams) /\ objects[o].body_js \in 0..Len(streams)
             /\ objects[o].list \in Types \cup {None} /\ Visible(o) \in Types \cup {None}
  <2>1. objects[o] \in ObjectType
    BY <1>2
  <2>2. /\ objects[o].body \in Nat /\ objects[o].body_js \in Nat
        /\ objects[o].list \in Types \cup {None} /\ objects[o].headers_js \in Types \cup {None}
    BY <2>1 DEF ObjectType
  <2>3. objects[o].body <= Len(streams) /\ objects[o].body_js <= Len(streams)
    BY <1>2, <1>3
  <2>4. QED BY <1>1, <2>2, <2>3 DEF Visible
<1>5. /\ calls \in Seq(CallOf(1..Blocks))
      /\ \A c \in DOMAIN calls : calls[c].stream <= Len(streams)
  BY DEF WholeInv, CallsPart
<1>6. Len(calls) \in Nat /\ DOMAIN calls = 1..Len(calls)
  BY <1>5
<1>7. ASSUME NEW c \in 1..Len(calls)
      PROVE  /\ calls[c] \in CallOf(1..Blocks) /\ calls[c].stream \in 0..Len(streams)
             /\ calls[c].got \in Seq(1..Blocks)
  <2>1. calls[c] \in CallOf(1..Blocks)
    BY <1>5
  <2>2. calls[c].stream \in Nat /\ calls[c].got \in Seq(1..Blocks)
    BY <2>1 DEF CallOf
  <2>3. calls[c].stream <= Len(streams)
    BY <1>5, <1>6
  <2>4. QED BY <1>1, <2>1, <2>2, <2>3
<1>8. QED BY <1>1, <1>3, <1>4, <1>6, <1>7

\* What is fresh after a step was so before.
LEMMA FreshBefore ==
  ASSUME Onward, NEW t \in 1..Len(streams), FreshAfter(t)
  PROVE  Fresh(t)
BY DEF Onward, Fresh, FreshAfter, Branches, BranchesAfter

\* A call that a step does not serve.
LEMMA OldCall ==
  ASSUME BodiesInv, WholeInv, Onward, NEW X, CallsCalm(X), NEW c \in DOMAIN calls,
         Fresh(calls[c].stream) => calls[c].stream \notin X,
         calls'[c].stream = calls[c].stream, calls'[c].got = calls[c].got,
         calls'[c].done = calls[c].done
  PROVE  CallWhole(c)'
<1> DEFINE t == calls[c].stream
<1> SUFFICES ASSUME FreshAfter(t)
             PROVE  /\ BranchesAfter(t) = {} /\ streams'[t].disturbed /\ ~streams'[t].locked
                    /\ calls[c].got \o Remaining'[t] = All
                    /\ calls[c].done => calls[c].got = All \/ streams'[t].cut
  BY DEF CallWhole, Fresh, FreshAfter, Branches, BranchesAfter, All
<1>1. t \in 1..Len(streams)
  <2>1. t \in 0..Len(streams)
    BY WholeFields
  <2>2. t # 0
    BY DEF Fresh, FreshAfter, Branches, BranchesAfter
  <2> HIDE DEF t
  <2>3. QED BY <2>1, <2>2
<1>2. Fresh(t)
  BY <1>1, FreshBefore
<1>3. /\ Branches(t) = {} /\ streams[t].disturbed /\ ~streams[t].locked
      /\ calls[c].got \o Remaining[t] = All
      /\ calls[c].done => calls[c].got = All \/ streams[t].cut
  BY <1>2 DEF WholeInv, CallsPart, CallWhole
<1>4. /\ BranchesAfter(t) = {} /\ Remaining'[t] = Remaining[t]
      /\ streams'[t].locked => streams[t].locked
  BY <1>1, <1>2, <1>3 DEF CallsCalm
<1>5. streams'[t].disturbed
  BY <1>1, <1>3 DEF Onward, MarksStay
<1>6. streams[t].cut => streams'[t].cut
  BY <1>1 DEF Onward
<1>7. QED BY <1>3, <1>4, <1>5, <1>6

\* No call is made or served.
LEMMA CallsStill ==
  ASSUME BodiesInv, WholeInv, Onward, NEW X, CallsCalm(X), calls' = calls,
         \A c \in DOMAIN calls : Fresh(calls[c].stream) => calls[c].stream \notin X
  PROVE  CallsPart'
<1>1. \A c \in DOMAIN calls : CallWhole(c)'
  BY OldCall
<1>2. /\ Len(streams) \in Nat /\ Len(streams') \in Nat /\ Len(streams) <= Len(streams')
      /\ \A c \in DOMAIN calls : calls[c].stream \in 0..Len(streams)
  BY WholeFields, TreeFields DEF Onward
<1>3. \A c \in DOMAIN calls : calls[c].stream <= Len(streams')
  BY <1>2
<1>4. CallsApart'
  <2>1. ASSUME NEW c \in DOMAIN calls, NEW d \in DOMAIN calls, c # d,
               calls[c].stream = calls[d].stream, FreshAfter(calls[c].stream)
        PROVE  FALSE
    <3>1. calls[c].stream \in 1..Len(streams)
      BY <1>2, <2>1 DEF Fresh, FreshAfter, Branches, BranchesAfter
    <3>2. Fresh(calls[c].stream)
      BY <2>1, <3>1, FreshBefore
    <3>3. QED BY <2>1, <3>2 DEF WholeInv, CallsPart, CallsApart
  <2>2. QED BY <2>1 DEF CallsApart, Fresh, FreshAfter, Branches, BranchesAfter
<1>5. QED BY <1>1, <1>3, <1>4 DEF WholeInv, CallsPart

\* A call is made: it reads a stream that has the whole body and that no call has.
LEMMA CallsMore ==
  ASSUME BodiesInv, WholeInv, Onward, NEW X, CallsCalm(X),
         \A c \in DOMAIN calls : Fresh(calls[c].stream) => calls[c].stream \notin X,
         NEW r \in CallOf(1..Blocks), calls' = Append(calls, r),
         r.stream <= Len(streams'), r.done <=> r.stream = 0, r.got = <<>>,
         FreshAfter(r.stream) =>
           /\ BranchesAfter(r.stream) = {} /\ streams'[r.stream].disturbed /\ ~streams'[r.stream].locked
           /\ Remaining'[r.stream] = All
           /\ \A c \in DOMAIN calls : calls[c].stream # r.stream
  PROVE  CallsPart'
<1> DEFINE n == Len(calls)
<1>1. calls \in Seq(CallOf(1..Blocks)) /\ n \in Nat /\ DOMAIN calls = 1..n
  BY WholeFields DEF WholeInv, CallsPart
<1>2. /\ calls' \in Seq(CallOf(1..Blocks)) /\ Len(calls') = n + 1 /\ calls'[n + 1] = r
      /\ \A c \in 1..n : calls'[c] = calls[c]
  <2> DEFINE D == CallOf(1..Blocks)
             k == Append(calls, r)
  <2>1. calls \in Seq(D) /\ r \in D
    BY <1>1
  <2> HIDE DEF D
  <2>2. /\ k \in Seq(D) /\ Len(k) = n + 1 /\ k[n + 1] = r
        /\ \A c \in 1..n : k[c] = calls[c]
    BY <2>1, AppendProperties
  <2>3. calls' = k
    OBVIOUS
  <2> HIDE DEF k
  <2>4. QED BY <2>2, <2>3 DEF D
<1>3. DOMAIN calls' = 1..(n + 1) /\ \A c \in 1..(n + 1) : c \in 1..n \/ c = n + 1
  BY <1>1, <1>2
<1>4. \A c \in 1..n : CallWhole(c)'
  <2>1. ASSUME NEW c \in 1..n PROVE CallWhole(c)'
    <3>1. /\ c \in DOMAIN calls /\ (Fresh(calls[c].stream) => calls[c].stream \notin X)
          /\ calls'[c].stream = calls[c].stream /\ calls'[c].got = calls[c].got
          /\ calls'[c].done = calls[c].done
      BY <1>1, <1>2
    <3>2. QED BY <3>1, OldCall
  <2>2. QED BY <2>1
<1>5. ASSUME NEW c, c = n + 1 PROVE CallWhole(c)'
  <2>0. calls'[c] = r
    BY <1>2, <1>5
  <2> SUFFICES ASSUME FreshAfter(r.stream)
               PROVE  /\ BranchesAfter(r.stream) = {} /\ streams'[r.stream].disturbed
                      /\ ~streams'[r.stream].locked
                      /\ r.got \o Remaining'[r.stream] = All /\ ~r.done
    BY <2>0 DEF CallWhole, Fresh, FreshAfter, Branches, BranchesAfter, All
  <2>1. All \in Seq(1..Blocks)
    <3>1. All \in [1..Blocks -> 1..Blocks] /\ Blocks \in Nat
      BY BodiesAssumption DEF All
    <3>2. QED BY <3>1, SeqDef
  <2>2. <<>> \o All = All
    BY <2>1, NoBlock
  <2>3. ~r.done
    BY DEF FreshAfter
  <2>4. QED BY <2>2, <2>3
<1>6. /\ Len(streams) \in Nat /\ Len(streams') \in Nat /\ Len(streams) <= Len(streams')
      /\ \A c \in 1..n : calls[c].stream \in 0..Len(streams)
  BY WholeFields, TreeFields DEF Onward
<1>7. \A c \in 1..(n + 1) : calls'[c].stream <= Len(streams') /\ (calls'[c].stream = 0 => calls'[c].done)
  <2>1. ASSUME NEW c \in 1..n
        PROVE  calls'[c].stream <= Len(streams') /\ (calls'[c].stream = 0 => calls'[c].done)
    <3>1. calls[c].stream = 0 => calls[c].done
      BY <1>1 DEF WholeInv, CallsPart
    <3>2. calls[c].stream <= Len(streams')
      BY <1>6
    <3>3. QED BY <1>2, <3>1, <3>2
  <2>2. QED BY <1>2, <1>3, <2>1
<1>8. CallsApart'
  <2>1. ASSUME NEW c \in 1..(n + 1), NEW d \in 1..(n + 1), c # d,
               calls'[c].stream = calls'[d].stream, FreshAfter(calls'[c].stream)
        PROVE  FALSE
    <3>1. CASE c \in 1..n /\ d \in 1..n
      <4>1. calls[c].stream \in 1..Len(streams) /\ calls[c].stream = calls[d].stream
            /\ FreshAfter(calls[c].stream)
        BY <1>2, <1>6, <2>1, <3>1 DEF Fresh, FreshAfter, Branches, BranchesAfter
      <4>2. Fresh(calls[c].stream)
        BY <4>1, FreshBefore
      <4>3. QED BY <1>1, <2>1, <3>1, <4>1, <4>2 DEF WholeInv, CallsPart, CallsApart
    <3>2. ASSUME NEW e \in 1..n, calls[e].stream = r.stream, FreshAfter(r.stream) PROVE FALSE
      BY <1>1, <3>2
    <3>3. CASE c = n + 1
      <4>1. d \in 1..n /\ calls[d].stream = r.stream
        BY <1>2, <1>3, <2>1, <3>3
      <4>2. FreshAfter(r.stream)
        BY <1>2, <2>1, <3>3 DEF Fresh, FreshAfter, Branches, BranchesAfter
      <4>3. QED BY <3>2, <4>1, <4>2
    <3>4. CASE d = n + 1
      <4>1. c \in 1..n /\ calls[c].stream = r.stream
        BY <1>2, <1>3, <2>1, <3>4
      <4>2. FreshAfter(r.stream)
        BY <1>2, <2>1, <3>4 DEF Fresh, FreshAfter, Branches, BranchesAfter
      <4>3. QED BY <3>2, <4>1, <4>2
    <3>5. QED BY <1>3, <3>1, <3>3, <3>4
  <2>2. QED BY <1>3, <2>1 DEF CallsApart, Fresh, FreshAfter, Branches, BranchesAfter
<1>9. \A c \in 1..(n + 1) : CallWhole(c)'
  BY <1>3, <1>4, <1>5
<1>10. QED BY <1>2, <1>3, <1>7, <1>8, <1>9 DEF CallsPart

\* Objects keep their bodies, or get streams that no other object has.
LEMMA ObjectsOn ==
  ASSUME BodiesInv, WholeInv, Onward, NEW X, ObjectsCalm(X),
         \A o \in DOMAIN objects' :
           objects'[o].body \in 0..Len(streams') /\ objects'[o].body_js <= Len(streams'),
         \A o \in DOMAIN objects' :
           \/ /\ o \in DOMAIN objects /\ objects'[o].body = objects[o].body
              /\ FreshAfter(objects[o].body) => objects[o].body \notin X
           \/ ~FreshAfter(objects'[o].body)
           \/ /\ objects'[o].body > Len(streams) /\ BranchesAfter(objects'[o].body) = {}
              /\ streams'[objects'[o].body].disturbed \/ Remaining'[objects'[o].body] = All
              /\ \A p \in DOMAIN objects' : p # o => objects'[p].body # objects'[o].body
  PROVE  ObjectsPart'
<1> DEFINE Old(o) == /\ o \in DOMAIN objects /\ objects'[o].body = objects[o].body
                     /\ FreshAfter(objects[o].body) => objects[o].body \notin X
           New(o) == /\ objects'[o].body > Len(streams) /\ BranchesAfter(objects'[o].body) = {}
                     /\ streams'[objects'[o].body].disturbed \/ Remaining'[objects'[o].body] = All
                     /\ \A p \in DOMAIN objects' : p # o => objects'[p].body # objects'[o].body
<1>1. /\ Len(streams) \in Nat /\ Len(streams') \in Nat /\ Len(streams) <= Len(streams')
      /\ \A o \in DOMAIN objects : objects[o].body \in 0..Len(streams)
  BY WholeFields, TreeFields DEF Onward
<1>2. ASSUME NEW o \in DOMAIN objects', FreshAfter(objects'[o].body) PROVE Old(o) \/ New(o)
  BY <1>2
<1>3. ASSUME NEW o \in DOMAIN objects', FreshAfter(objects'[o].body), Old(o)
      PROVE  /\ objects[o].body \in 1..Len(streams) /\ Fresh(objects[o].body)
             /\ FreshAfter(objects[o].body) /\ objects[o].body \notin X
  <2>1. objects'[o].body = objects[o].body /\ o \in DOMAIN objects
    BY <1>3
  <2>2. FreshAfter(objects[o].body)
    BY <1>3, <2>1 DEF Fresh, FreshAfter, Branches, BranchesAfter
  <2>3. objects[o].body \in 1..Len(streams)
    BY <1>1, <2>1, <2>2 DEF Fresh, FreshAfter, Branches, BranchesAfter
  <2>4. Fresh(objects[o].body)
    BY <2>2, <2>3, FreshBefore
  <2>5. QED BY <1>3, <2>2, <2>3, <2>4
<1>4. ASSUME NEW o \in DOMAIN objects' PROVE ObjectWhole(o)'
  <2> DEFINE b == objects'[o].body
  <2> SUFFICES ASSUME FreshAfter(b)
               PROVE  BranchesAfter(b) = {} /\ (streams'[b].disturbed \/ Remaining'[b] = All)
    BY DEF ObjectWhole, Fresh, FreshAfter, Branches, BranchesAfter, All, Used
  <2>1. CASE Old(o)
    <3>1. /\ b \in 1..Len(streams) /\ Fresh(b) /\ b \notin X /\ b = objects[o].body
          /\ o \in DOMAIN objects
      BY <1>3, <2>1
    <3>2. Branches(b) = {} /\ (~Used(o) => Remaining[b] = All)
      BY <3>1 DEF WholeInv, ObjectsPart, ObjectWhole
    <3>3. BranchesAfter(b) = {} /\ (Remaining'[b] = Remaining[b] \/ streams'[b].disturbed)
      BY <3>1, <3>2 DEF ObjectsCalm
    <3>4. Used(o) => streams'[b].disturbed
      BY <3>1 DEF Used, Onward, MarksStay
    <3>5. QED BY <3>2, <3>3, <3>4
  <2>2. CASE New(o)
    BY <2>2
  <2>3. QED BY <1>2, <2>1, <2>2
<1>5. ObjectsApart'
  <2>1. ASSUME NEW o \in DOMAIN objects', NEW p \in DOMAIN objects', o # p,
               objects'[o].body = objects'[p].body, FreshAfter(objects'[o].body)
        PROVE  FALSE
    <3>1. FreshAfter(objects'[p].body)
      BY <2>1 DEF Fresh, FreshAfter, Branches, BranchesAfter
    <3>2. ~New(o) /\ ~New(p)
      BY <2>1
    <3>3. Old(o) /\ Old(p)
      BY <1>2, <2>1, <3>1, <3>2
    <3>4. /\ o \in DOMAIN objects /\ p \in DOMAIN objects
          /\ objects[o].body = objects[p].body /\ Fresh(objects[o].body)
      BY <1>3, <2>1, <3>3
    <3>5. QED BY <2>1, <3>4 DEF WholeInv, ObjectsPart, ObjectsApart
  <2>2. QED BY <2>1 DEF ObjectsApart, Fresh, FreshAfter, Branches, BranchesAfter
<1>6. QED BY <1>4, <1>5 DEF ObjectsPart

\* The objects keep their bodies.
LEMMA ObjectsStill ==
  ASSUME BodiesInv, WholeInv, Onward, ObjectsCalm({}), DOMAIN objects' = DOMAIN objects,
         \A o \in DOMAIN objects : /\ objects'[o].body = objects[o].body
                                   /\ objects'[o].body_js \in 0..Len(streams)
  PROVE  ObjectsPart'
<1>1. /\ Len(streams) \in Nat /\ Len(streams') \in Nat /\ Len(streams) <= Len(streams')
      /\ \A o \in DOMAIN objects : objects[o].body \in 0..Len(streams)
  BY WholeFields, TreeFields DEF Onward
<1>2. ASSUME NEW o \in DOMAIN objects'
      PROVE  objects'[o].body \in 0..Len(streams') /\ objects'[o].body_js <= Len(streams')
  <2>1. objects'[o].body \in 0..Len(streams) /\ objects'[o].body_js \in 0..Len(streams)
    BY <1>1
  <2>2. QED BY <1>1, <2>1
<1>3. QED BY <1>2, ObjectsOn

-----------------------------------------------------------------------------
(***************************************************************************)
(* Steps that read no block: the streams are marked, those of L locked,    *)
(* and new streams come over those of P (over none, if 0 is in P).         *)
(***************************************************************************)
Extends(tt, P, L) ==
  /\ Tree(tt) /\ Len(tt) >= Len(streams)
  /\ \A t \in 1..Len(streams) :
       /\ tt[t].parent = streams[t].parent /\ tt[t].buf = streams[t].buf
       /\ tt[t].given = streams[t].given
       /\ streams[t].disturbed => tt[t].disturbed
       /\ streams[t].cut => tt[t].cut
       /\ tt[t].locked /\ t \notin L => streams[t].locked
  /\ \A t \in 1..Len(tt) : t \notin 1..Len(streams) =>
       /\ tt[t].parent \in P /\ tt[t].buf = <<>> /\ tt[t].given = 0 /\ ~tt[t].locked

\* To do nothing is such a step.
LEMMA NothingExtends ==
  ASSUME Tree(streams)
  PROVE  Extends(streams, {}, {})
BY TreeFields DEF Extends

\* So is one that marks a stream besides.
LEMMA DisturbExtends ==
  ASSUME NEW tt, NEW P, NEW L, Extends(tt, P, L), NEW s \in 1..Len(tt), Tree(streams)
  PROVE  Extends(Disturb(tt, s), P, L) /\ Len(Disturb(tt, s)) = Len(tt) /\ Disturb(tt, s)[s].disturbed
<1> DEFINE d == Disturb(tt, s)
<1>1. /\ Tree(tt) /\ Tree(d) /\ Alike(d, tt) /\ d[s].disturbed
      /\ \A t \in 1..Len(tt) : /\ d[t].locked = tt[t].locked /\ (tt[t].disturbed => d[t].disturbed)
                              /\ d[t].cut = tt[t].cut
  BY DisturbIsAlike DEF Extends
<1>2. Len(streams) \in Nat /\ Len(tt) \in Nat /\ Len(tt) >= Len(streams)
  BY <1>1, TreeFields DEF Extends
<1> HIDE DEF d
<1>3. /\ Len(d) = Len(tt)
      /\ \A t \in 1..Len(tt) : d[t].parent = tt[t].parent /\ d[t].buf = tt[t].buf /\ d[t].given = tt[t].given
  BY <1>1 DEF Alike
<1>4. \A t \in 1..Len(streams) : t \in 1..Len(tt)
  BY <1>2
<1>5. \A t \in 1..Len(streams) :
       /\ d[t].parent = streams[t].parent /\ d[t].buf = streams[t].buf
       /\ d[t].given = streams[t].given
       /\ streams[t].disturbed => d[t].disturbed
       /\ streams[t].cut => d[t].cut
       /\ d[t].locked /\ t \notin L => streams[t].locked
  BY <1>1, <1>3, <1>4 DEF Extends
<1>6. \A t \in 1..Len(d) : t \notin 1..Len(streams) =>
       /\ d[t].parent \in P /\ d[t].buf = <<>> /\ d[t].given = 0 /\ ~d[t].locked
  BY <1>1, <1>3 DEF Extends
<1>7. QED BY <1>1, <1>2, <1>3, <1>5, <1>6 DEF Extends, d

\* So is one that adds a stream, over a stream there is or over none.
LEMMA AddedExtends ==
  ASSUME NEW tt, NEW P, NEW L, Extends(tt, P, L), NEW p \in 0..Len(tt), Tree(streams)
  PROVE  /\ Extends(Append(tt, Stream(p)), P \cup {p}, L)
         /\ Len(Append(tt, Stream(p))) = Len(tt) + 1
         /\ Append(tt, Stream(p))[Len(tt) + 1] = Stream(p)
<1> DEFINE a == Append(tt, Stream(p))
           n == Len(tt)
<1>1. /\ Tree(tt) /\ Tree(a) /\ Len(a) = n + 1 /\ a[n + 1] = Stream(p)
      /\ \A t \in 1..n : a[t] = tt[t]
  BY AddedIsTree DEF Extends
<1>2. Len(streams) \in Nat /\ n \in Nat /\ n >= Len(streams)
  BY <1>1, TreeFields DEF Extends
<1> HIDE DEF a
<1>3. /\ \A t \in 1..Len(streams) : t \in 1..n
      /\ \A t \in 1..(n + 1) : t \in 1..n \/ t = n + 1
  BY <1>2
<1>4. \A t \in 1..Len(streams) :
       /\ a[t].parent = streams[t].parent /\ a[t].buf = streams[t].buf
       /\ a[t].given = streams[t].given
       /\ streams[t].disturbed => a[t].disturbed
       /\ streams[t].cut => a[t].cut
       /\ a[t].locked /\ t \notin L => streams[t].locked
  BY <1>1, <1>3 DEF Extends
<1>5. ASSUME NEW t \in 1..Len(a), t \notin 1..Len(streams)
      PROVE  a[t].parent \in P \cup {p} /\ a[t].buf = <<>> /\ a[t].given = 0 /\ ~a[t].locked
  <2>1. CASE t \in 1..n
    BY <1>1, <1>5, <2>1 DEF Extends
  <2>2. CASE t = n + 1
    BY <1>1, <2>2 DEF Stream
  <2>3. QED BY <1>1, <1>3, <2>1, <2>2
<1>6. Len(a) >= Len(streams)
  BY <1>1, <1>2
<1>7. QED BY <1>1, <1>4, <1>5, <1>6 DEF Extends, a

\* The tee of a stream adds two branches over it.
LEMMA TeeExtends ==
  ASSUME Tree(streams), NEW s \in 1..Len(streams)
  PROVE  /\ Extends(Tee(s), {s}, {}) /\ Len(Tee(s)) = Len(streams) + 2
         /\ Tee(s)[Len(streams) + 1].parent = s /\ Tee(s)[Len(streams) + 2].parent = s
<1> DEFINE n == Len(streams)
           a == Tee(s)
<1>1. /\ Tree(a) /\ Len(a) = n + 2 /\ n \in Nat
      /\ \A t \in 1..n : a[t] = streams[t]
      /\ a[n + 1] = Stream(s) /\ a[n + 2] = Stream(s)
  BY TeeIsTree, TreeFields
<1> HIDE DEF a
<1>2. ASSUME NEW t \in 1..Len(a), t \notin 1..n
      PROVE  a[t].parent = s /\ a[t].buf = <<>> /\ a[t].given = 0 /\ ~a[t].locked
  <2>1. t = n + 1 \/ t = n + 2
    BY <1>1, <1>2
  <2>2. a[t] = Stream(s)
    BY <1>1, <2>1
  <2>3. QED BY <2>2 DEF Stream
<1>3. Len(a) >= n
  BY <1>1
<1>4. Extends(a, {s}, {})
  BY <1>1, <1>2, <1>3 DEF Extends
<1>5. QED BY <1>1, <1>4 DEF a, Stream

\* What such a step leaves and what it adds.
LEMMA TreesGrow ==
  ASSUME Tree(streams), NEW P, NEW L, P \subseteq 0..Len(streams), Extends(streams', P, L),
         spoiled \subseteq spoiled', spoiled' \subseteq 1..Len(streams')
  PROVE  /\ Onward /\ CallsCalm(P \cup L) /\ ObjectsCalm(P)
         /\ \A t \in 1..Len(streams) : Remaining'[t] = Remaining[t]
         /\ \A t \in 1..Len(streams) : Branches(t) = {} /\ t \notin P => BranchesAfter(t) = {}
         /\ \A t \in 1..Len(streams') : t \notin 1..Len(streams) =>
              /\ t > Len(streams) /\ BranchesAfter(t) = {}
              /\ streams'[t].parent = 0 => Remaining'[t] = All
              /\ streams'[t].parent # 0 =>
                   /\ Remaining'[t] = Remaining[streams'[t].parent]
                   /\ Roots'[t] = Roots[streams'[t].parent]
<1> DEFINE n == Len(streams)
           m == Len(streams')
<1>1. /\ Tree(streams') /\ n \in Nat /\ m \in Nat /\ n <= m
      /\ DOMAIN streams = 1..n /\ DOMAIN streams' = 1..m
      /\ \A t \in 1..n : streams[t].parent < t
  BY TreeFields DEF Extends, Tree
<1>2. \A t \in 1..n : Roots'[t] = Roots[t]
  <2>1. \A t \in 1..n : streams'[t].parent = streams[t].parent
    BY DEF Extends
  <2>2. \A t \in 1..n : RootsOf(streams')[t] = RootsOf(streams)[t]
    BY <1>1, <2>1, RootsSame
  <2>3. QED BY <2>2, SameFunctions
<1>3. \A t \in 1..n : Remaining'[t] = Remaining[t]
  <2>1. \A t \in 1..n : /\ streams'[t].parent = streams[t].parent
                        /\ streams'[t].buf = streams[t].buf /\ streams'[t].given = streams[t].given
    BY DEF Extends
  <2>2. \A t \in 1..n : RemainingOf(streams')[t] = RemainingOf(streams)[t]
    BY <1>1, <2>1, RestSame
  <2>3. QED BY <2>2, SameFunctions
<1>4. Onward
  <2>1. MarksStay
    BY <1>1 DEF Extends, MarksStay
  <2>2. \A t \in 1..n : streams[t].cut => streams'[t].cut
    BY DEF Extends
  <2>3. QED BY <1>1, <1>2, <2>1, <2>2 DEF Onward
<1>5. ASSUME NEW t \in 1..n, Branches(t) = {}, t \notin P PROVE BranchesAfter(t) = {}
  <2>1. ASSUME NEW b \in 1..m, streams'[b].parent = t PROVE FALSE
    <3>1. CASE b \in 1..n
      <4>1. streams[b].parent = t
        BY <2>1, <3>1 DEF Extends
      <4>2. b \in Branches(t)
        BY <1>1, <3>1, <4>1 DEF Branches
      <4>3. QED BY <1>5, <4>2
    <3>2. CASE b \notin 1..n
      BY <1>5, <2>1, <3>2 DEF Extends
    <3>3. QED BY <3>1, <3>2
  <2>2. QED BY <1>1, <2>1 DEF BranchesAfter
<1>6. ASSUME NEW t \in 1..m, t \notin 1..n
      PROVE  /\ t > n /\ BranchesAfter(t) = {}
             /\ streams'[t].parent = 0 => Remaining'[t] = All
             /\ streams'[t].parent # 0 =>
                  /\ Remaining'[t] = Remaining[streams'[t].parent]
                  /\ Roots'[t] = Roots[streams'[t].parent]
  <2> DEFINE p == streams'[t].parent
  <2>1. t > n /\ p \in 0..n /\ p < t /\ streams'[t].buf = <<>> /\ streams'[t].given = 0
    <3>1. t > n
      BY <1>1, <1>6
    <3>2. p \in P /\ streams'[t].buf = <<>> /\ streams'[t].given = 0
      BY <1>6 DEF Extends
    <3>3. p \in 0..n
      BY <3>2
    <3> HIDE DEF p
    <3>4. p < t
      BY <1>1, <3>1, <3>3
    <3>5. QED BY <3>1, <3>2, <3>3, <3>4
  <2>2. BranchesAfter(t) = {}
    <3>1. ASSUME NEW b \in 1..m, streams'[b].parent = t PROVE FALSE
      <4>1. CASE b \in 1..n
        <5>1. streams[b].parent = t /\ streams[b].parent < b /\ b <= n
          BY <1>1, <3>1, <4>1 DEF Extends
        <5>2. t < b
          BY <5>1
        <5>3. QED BY <1>1, <2>1, <4>1, <5>2
      <4>2. CASE b \notin 1..n
        BY <1>1, <1>6, <3>1, <4>2 DEF Extends
      <4>3. QED BY <4>1, <4>2
    <3>2. QED BY <1>1, <3>1 DEF BranchesAfter
  <2>3. Remaining'[t] = <<>> \o (IF p # 0 THEN Remaining'[p] ELSE After(0))
    <3>1. RemainingOf(streams')[t] = streams'[t].buf \o (IF p # 0 THEN RemainingOf(streams')[p]
                                                        ELSE After(streams'[t].given))
      BY <1>1, RestMeans
    <3>2. QED BY <2>1, <3>1, SameFunctions
  <2>4. Roots'[t] = IF p = 0 THEN t ELSE Roots'[p]
    <3>1. RootsOf(streams')[t] = IF p = 0 THEN t ELSE RootsOf(streams')[p]
      BY <1>1, RootsMeans
    <3>2. QED BY <3>1, SameFunctions
  <2> HIDE DEF p
  <2>5. CASE p = 0
    <3>1. 0 \in 0..Blocks
      BY BodiesAssumption
    <3>2. After(0) \in Seq(1..Blocks)
      BY <3>1, AfterBlocks
    <3>3. <<>> \o After(0) = After(0)
      BY <3>2, NoBlock
    <3>4. After(0) = All
      <4>1. Blocks - 0 = Blocks /\ \A i \in 1..Blocks : 0 + i = i
        BY BodiesAssumption
      <4>2. QED BY <4>1 DEF After, All
    <3>5. QED BY <2>1, <2>2, <2>3, <2>5, <3>3, <3>4 DEF p
  <2>6. CASE p # 0
    <3>1. p \in 1..n
      BY <2>1, <2>6
    <3>2. Remaining[p] \in Seq(1..Blocks)
      BY <3>1, RestMeans, SameFunctions
    <3>3. <<>> \o Remaining[p] = Remaining[p]
      BY <3>2, NoBlock
    <3>4. Remaining'[p] = Remaining[p] /\ Roots'[p] = Roots[p]
      BY <1>2, <1>3, <3>1
    <3>5. QED BY <2>1, <2>2, <2>3, <2>4, <2>6, <3>3, <3>4 DEF p
  <2>7. QED BY <2>5, <2>6
<1>7. CallsCalm(P \cup L)
  <2>1. \A t \in 1..n : streams'[t].locked /\ t \notin L => streams[t].locked
    BY DEF Extends
  <2>2. QED BY <1>3, <1>5, <2>1 DEF CallsCalm
<1>8. ObjectsCalm(P)
  BY <1>3, <1>5 DEF ObjectsCalm
<1>9. QED BY <1>3, <1>4, <1>5, <1>6, <1>7, <1>8

-----------------------------------------------------------------------------
(***************************************************************************)
(* Steps that read a block from s, and perhaps mark s.                     *)
(***************************************************************************)
LEMMA BlockRead ==
  ASSUME Tree(streams), NEW s \in 1..Len(streams),
         streams' = Pulled(s) \/ streams' = Disturb(Pulled(s), s),
         spoiled \subseteq spoiled', spoiled' \subseteq 1..Len(streams)
  PROVE  /\ Onward /\ Len(streams') = Len(streams)
         /\ \A t \in 1..Len(streams) :
              BranchesAfter(t) = Branches(t) /\ streams'[t].locked = streams[t].locked
         /\ \A t \in 1..Len(streams) : Roots[t] # Roots[s] => Remaining'[t] = Remaining[t]
         /\ Branches(s) = {} =>
              /\ \A t \in 1..Len(streams) :
                   t # s /\ Branches(t) = {} => Remaining'[t] = Remaining[t]
              /\ AtEnd(s) => Remaining'[s] = Remaining[s]
              /\ ~AtEnd(s) => NextBlock(s) \in 1..Blocks /\ Remaining[s] = <<NextBlock(s)>> \o Remaining'[s]
<1> DEFINE n == Len(streams)
           q == Pulled(s)
<1>1. n \in Nat /\ DOMAIN streams = 1..n
  BY TreeFields
\* The streams after the read.
<1>2. /\ Tree(q) /\ Len(q) = n
      /\ \A t \in 1..n : /\ q[t].parent = streams[t].parent /\ q[t].locked = streams[t].locked
                         /\ q[t].cut = streams[t].cut
      /\ \A t \in 1..n : Roots[t] # Roots[s] => RemainingOf(q)[t] = Remaining[t]
      /\ Branches(s) = {} =>
           /\ \A t \in 1..n : t # s /\ Branches(t) = {} => RemainingOf(q)[t] = Remaining[t]
           /\ AtEnd(s) => RemainingOf(q)[s] = Remaining[s]
           /\ ~AtEnd(s) => NextBlock(s) \in 1..Blocks /\ Remaining[s] = <<NextBlock(s)>> \o RemainingOf(q)[s]
  <2>1. CASE AtEnd(s)
    <3>1. q = streams
      BY <2>1 DEF Pulled
    <3>2. RemainingOf(streams) = Remaining
      BY SameFunctions
    <3> HIDE DEF q
    <3>3. QED BY <2>1, <3>1, <3>2
  <2>2. CASE ~AtEnd(s)
    <3> DEFINE W == ToSet(Chain[s])
               h == Last(Chain[s])
               b == NextBlock(s)
    <3>1. Tree(q) /\ b \in 1..Blocks /\ GivesTo(q, s, W, h, b)
      BY <2>2, PulledGives
    <3>2. GoodWay(streams, s, W, h)
      BY WaysAreGood, SameFunctions
    <3> HIDE DEF q, W, h, b
    <3>3. /\ Branches(s) = {} =>
               \A t \in 1..n :
                 Remaining[t] = IF t \in W THEN <<b>> \o RemainingOf(q)[t] ELSE RemainingOf(q)[t]
          /\ \A t \in 1..n : Roots[t] # Roots[s] => Remaining[t] = RemainingOf(q)[t]
      BY <3>1, <3>2, ReadKeepsBlocks
    <3>4. /\ Len(q) = n
          /\ \A t \in 1..n : /\ q[t].parent = streams[t].parent /\ q[t].locked = streams[t].locked
                             /\ q[t].cut = streams[t].cut
      BY <3>1 DEF GivesTo
    <3>5. ASSUME NEW t \in 1..n, t # s, Branches(t) = {} PROVE t \notin W
      <4>1. t \in W => \E u \in W : streams[u].parent = t
        BY <3>2, <3>5 DEF GoodWay
      <4>2. \A u \in W : u \in 1..n
        BY <1>1, <3>2 DEF GoodWay
      <4>3. QED BY <1>1, <3>5, <4>1, <4>2 DEF Branches
    <3>6. s \in W
      BY <3>2 DEF GoodWay
    <3>7. Branches(s) = {} =>
           /\ \A t \in 1..n : t # s /\ Branches(t) = {} => RemainingOf(q)[t] = Remaining[t]
           /\ Remaining[s] = <<b>> \o RemainingOf(q)[s]
      BY <3>3, <3>5, <3>6
    <3>8. \A t \in 1..n : Roots[t] # Roots[s] => RemainingOf(q)[t] = Remaining[t]
      BY <3>3
    <3>9. QED BY <2>2, <3>1, <3>4, <3>7, <3>8 DEF b
  <2>3. QED BY <2>1, <2>2
\* Marking s changes nothing of that.
<1>3. /\ Tree(streams') /\ Len(streams') = n
      /\ \A t \in 1..n : streams'[t].parent = q[t].parent /\ streams'[t].locked = q[t].locked
      /\ \A t \in 1..n : RemainingOf(streams')[t] = RemainingOf(q)[t]
      /\ \A t \in 1..n : (q[t].disturbed => streams'[t].disturbed) /\ streams'[t].cut = q[t].cut
  <2>1. CASE streams' = q
    <3> HIDE DEF q
    <3>1. QED BY <1>2, <2>1
  <2>2. CASE streams' = Disturb(q, s)
    <3> HIDE DEF q
    <3>1. Tree(q) /\ s \in 1..Len(q)
      BY <1>2
    <3> DEFINE d == Disturb(q, s)
    <3>2. /\ Alike(d, q) /\ Tree(d)
          /\ \A t \in 1..Len(q) : /\ d[t].locked = q[t].locked /\ (q[t].disturbed => d[t].disturbed)
                                  /\ d[t].cut = q[t].cut
      BY <3>1, DisturbIsAlike
    <3> HIDE DEF d
    <3>3. /\ Len(d) = Len(q)
          /\ \A t \in 1..Len(q) : /\ d[t].parent = q[t].parent
                                  /\ d[t].buf = q[t].buf /\ d[t].given = q[t].given
      BY <3>2 DEF Alike
    <3>4. Len(q) <= Len(d)
      BY <1>1, <1>2, <3>3
    <3>5. \A t \in 1..Len(q) : RemainingOf(d)[t] = RemainingOf(q)[t]
      BY <3>1, <3>2, <3>3, <3>4, RestSame
    <3>6. streams' = d
      BY <2>2 DEF d
    <3>7. QED BY <1>2, <3>2, <3>3, <3>5, <3>6
  <2>3. QED BY <2>1, <2>2
<1>4. \A t \in 1..n : q[t].disturbed = streams[t].disturbed
  <2>1. streams \in Seq(StreamOf(1..Blocks))
    BY DEF Tree
  <2>2. QED BY <2>1, PulledKeeps
<1> HIDE DEF q
<1>5. \A t \in 1..n : Roots'[t] = Roots[t]
  <2>1. \A t \in 1..n : streams'[t].parent = streams[t].parent
    BY <1>2, <1>3
  <2>2. n <= Len(streams')
    BY <1>1, <1>3
  <2>3. \A t \in 1..n : RootsOf(streams')[t] = RootsOf(streams)[t]
    BY <1>3, <2>1, <2>2, RootsSame
  <2>4. QED BY <2>3, SameFunctions
<1>6. Onward
  <2>1. MarksStay
    BY <1>1, <1>3, <1>4 DEF MarksStay
  <2>2. Len(streams') >= Len(streams)
    BY <1>1, <1>3
  <2>3. \A t \in 1..n : streams[t].cut => streams'[t].cut
    BY <1>2, <1>3
  <2>4. QED BY <1>3, <1>5, <2>1, <2>2, <2>3 DEF Onward
<1>7. \A t \in 1..n : BranchesAfter(t) = Branches(t)
  <2>1. DOMAIN streams' = 1..n
    BY <1>3, TreeFields
  <2>2. QED BY <1>1, <1>2, <1>3, <2>1 DEF BranchesAfter, Branches
<1>8. Remaining' = RemainingOf(streams')
  BY SameFunctions
<1>9. \A t \in 1..n : Remaining'[t] = RemainingOf(q)[t]
  BY <1>3, <1>8
<1> HIDE DEF n
<1>10. /\ \A t \in 1..n : Roots[t] # Roots[s] => Remaining'[t] = Remaining[t]
       /\ \A t \in 1..n : streams'[t].locked = streams[t].locked
  BY <1>2, <1>3, <1>9
<1>11. s \in 1..n
  BY DEF n
<1>12. Branches(s) = {} =>
         /\ \A t \in 1..n : t # s /\ Branches(t) = {} => Remaining'[t] = Remaining[t]
         /\ AtEnd(s) => Remaining'[s] = Remaining[s]
         /\ ~AtEnd(s) => NextBlock(s) \in 1..Blocks /\ Remaining[s] = <<NextBlock(s)>> \o Remaining'[s]
  BY <1>2, <1>9, <1>11
<1>13. QED BY <1>3, <1>6, <1>7, <1>10, <1>12 DEF n

\* Nothing is read of a stream that was cancelled.
LEMMA NothingRead ==
  ASSUME Tree(streams), streams' = streams, spoiled' = spoiled, spoiled \subseteq 1..Len(streams)
  PROVE  /\ Onward /\ Len(streams') = Len(streams)
         /\ \A t \in 1..Len(streams) :
              /\ BranchesAfter(t) = Branches(t) /\ streams'[t].locked = streams[t].locked
              /\ Remaining'[t] = Remaining[t]
<1> DEFINE P == {}
           L == {}
<1>1. Extends(streams', P, L)
  BY NothingExtends
<1>2. spoiled \subseteq spoiled' /\ spoiled' \subseteq 1..Len(streams') /\ P \subseteq 0..Len(streams)
  OBVIOUS
<1> HIDE DEF P, L
<1>3. Onward /\ \A t \in 1..Len(streams) : Remaining'[t] = Remaining[t]
  BY <1>1, <1>2, TreesGrow
<1>4. \A t \in 1..Len(streams) : BranchesAfter(t) = Branches(t)
  BY DEF BranchesAfter, Branches
<1>5. QED BY <1>3, <1>4

-----------------------------------------------------------------------------
(***************************************************************************)
(* Steps that leave the bodies, and steps that take one.                   *)
(***************************************************************************)
\* No block is read, no body replaced, no call made.
LEMMA QuietStep ==
  ASSUME BodiesInv, WholeInv, NEW L, Extends(streams', {}, L), calls' = calls, spoiled' = spoiled,
         \A c \in DOMAIN calls : Fresh(calls[c].stream) => calls[c].stream \notin L,
         DOMAIN objects' = DOMAIN objects,
         \A o \in DOMAIN objects : /\ objects'[o].body = objects[o].body
                                   /\ objects'[o].body_js \in 0..Len(streams)
  PROVE  WholeInv'
<1>1. Tree(streams) /\ spoiled' \subseteq 1..Len(streams)
  BY TreeFields DEF WholeInv
<1>2. Tree(streams') /\ Len(streams) <= Len(streams') /\ Len(streams) \in Nat /\ Len(streams') \in Nat
  BY <1>1, TreeFields DEF Extends
<1>3. spoiled' \subseteq 1..Len(streams')
  BY <1>1, <1>2
<1> DEFINE P == {}
<1>4. P \subseteq 0..Len(streams) /\ Extends(streams', P, L) /\ spoiled \subseteq spoiled'
  OBVIOUS
<1>5. Onward /\ CallsCalm(P \cup L) /\ ObjectsCalm(P)
  <2> HIDE DEF P
  <2>1. QED BY <1>1, <1>3, <1>4, TreesGrow
<1>6. P \cup L = L /\ P = {}
  OBVIOUS
<1> HIDE DEF P
<1>7. CallsCalm(L) /\ ObjectsCalm({})
  BY <1>5, <1>6
<1>8. CallsPart'
  BY <1>5, <1>7, CallsStill
<1>9. ObjectsPart'
  BY <1>5, <1>7, ObjectsStill
<1>10. DOMAIN streams' = 1..Len(streams')
  BY <1>2, TreeFields
<1>11. QED BY <1>2, <1>3, <1>8, <1>9, <1>10 DEF WholeInv

\* A free body is taken: what it was is what its branches are.
LEMMA TakenBody ==
  ASSUME BodiesInv, WholeInv, NEW o \in DOMAIN objects, NEW s, s = objects[o].body, Free(s),
         spoiled' = spoiled,
         s = 0 => streams' = streams,
         s # 0 => Extends(streams', {s}, {})
  PROVE  /\ Onward /\ CallsCalm({s}) /\ ObjectsCalm({s}) /\ spoiled' \subseteq DOMAIN streams'
         /\ \A c \in DOMAIN calls : Fresh(calls[c].stream) => calls[c].stream # s
         /\ \A p \in DOMAIN objects : p # o /\ FreshAfter(objects[p].body) => objects[p].body # s
         /\ \A t \in 1..Len(streams') : t \notin 1..Len(streams) =>
              /\ t > Len(streams) /\ BranchesAfter(t) = {}
              /\ FreshAfter(t) => Remaining'[t] = All
<1>1. /\ Tree(streams) /\ spoiled' \subseteq 1..Len(streams) /\ Len(streams) \in Nat
      /\ DOMAIN streams = 1..Len(streams)
      /\ s \in 0..Len(streams) /\ DOMAIN objects = 1..Len(objects)
      /\ \A p \in DOMAIN objects : objects[p].body \in 0..Len(streams)
  BY WholeFields DEF WholeInv
<1> DEFINE P == {s}
           L == {}
           E == IF s = 0 THEN {} ELSE P
<1>2. Extends(streams', E, L) /\ E \subseteq 0..Len(streams)
  <2>1. CASE s = 0
    BY <1>1, <2>1, NothingExtends
  <2>2. CASE s # 0
    BY <1>1, <2>2
  <2>3. QED BY <2>1, <2>2
<1>3. Tree(streams') /\ Len(streams) <= Len(streams') /\ Len(streams') \in Nat
      /\ DOMAIN streams' = 1..Len(streams')
  BY <1>1, <1>2, TreeFields DEF Extends
<1>4. spoiled \subseteq spoiled' /\ spoiled' \subseteq 1..Len(streams')
  BY <1>1, <1>3
<1>5. /\ Onward /\ CallsCalm(E \cup L) /\ ObjectsCalm(E)
      /\ \A t \in 1..Len(streams') : t \notin 1..Len(streams) =>
              /\ t > Len(streams) /\ BranchesAfter(t) = {}
              /\ streams'[t].parent = 0 => Remaining'[t] = All
              /\ streams'[t].parent # 0 =>
                   /\ Remaining'[t] = Remaining[streams'[t].parent]
                   /\ Roots'[t] = Roots[streams'[t].parent]
  <2> HIDE DEF E, L
  <2>1. QED BY <1>1, <1>2, <1>4, TreesGrow
<1>6. CallsCalm({s}) /\ ObjectsCalm({s})
  <2>1. E \cup L \subseteq {s} /\ E \subseteq {s}
    OBVIOUS
  <2> HIDE DEF E, L
  <2>2. QED BY <1>5, <2>1 DEF CallsCalm, ObjectsCalm
\* A fresh stream that a call reads is marked.
<1>7. ASSUME NEW c \in DOMAIN calls, Fresh(calls[c].stream) PROVE calls[c].stream # s
  <2>1. streams[calls[c].stream].disturbed /\ calls[c].stream # 0
    BY <1>7 DEF WholeInv, CallsPart, CallWhole, Fresh
  <2>2. QED BY <2>1 DEF Free
<1>8. ASSUME NEW p \in DOMAIN objects, p # o, FreshAfter(objects[p].body) PROVE objects[p].body # s
  <2>1. objects[p].body \in 1..Len(streams)
    BY <1>1, <1>8 DEF FreshAfter
  <2>2. Fresh(objects[p].body)
    BY <1>5, <1>8, <2>1, FreshBefore
  <2>3. QED BY <1>8, <2>2 DEF WholeInv, ObjectsPart, ObjectsApart
<1>9. ASSUME NEW t \in 1..Len(streams'), t \notin 1..Len(streams), FreshAfter(t)
      PROVE  Remaining'[t] = All
  <2>1. s # 0 /\ streams'[t].parent = s
    <3>1. streams'[t].parent \in E
      BY <1>2, <1>9 DEF Extends
    <3>2. QED BY <3>1
  <2>2. Remaining'[t] = Remaining[s] /\ Roots'[t] = Roots[s]
    BY <1>5, <1>9, <2>1
  <2>3. Fresh(s)
    BY <1>4, <1>9, <2>1, <2>2 DEF Fresh, FreshAfter
  <2>4. ~Used(o)
    BY <2>1 DEF Free, Used
  <2>5. Remaining[s] = All
    BY <2>3, <2>4 DEF WholeInv, ObjectsPart, ObjectWhole
  <2>6. QED BY <2>2, <2>5
<1>10. spoiled' \subseteq DOMAIN streams'
  BY <1>3, <1>4
<1> HIDE DEF E, L, P
<1>11. \A t \in 1..Len(streams') : t \notin 1..Len(streams) =>
              /\ t > Len(streams) /\ BranchesAfter(t) = {}
              /\ FreshAfter(t) => Remaining'[t] = All
  BY <1>5, <1>9
<1>12. QED BY <1>5, <1>6, <1>7, <1>8, <1>10, <1>11

\* The objects with a body replaced, and with one more.
LEMMA BodySet ==
  ASSUME BodiesInv, NEW o \in DOMAIN objects, NEW a \in Nat
  PROVE  LET k == [objects EXCEPT ![o].body = a] IN
         /\ k \in Seq(ObjectType) /\ Len(k) = Len(objects) /\ DOMAIN k = 1..Len(objects)
         /\ k[o].body = a /\ k[o].body_js = objects[o].body_js
         /\ \A p \in 1..Len(objects) : p # o => k[p] = objects[p]
<1> DEFINE e == [objects[o] EXCEPT !.body = a]
           k == [objects EXCEPT ![o].body = a]
<1>1. objects \in Seq(ObjectType) /\ o \in 1..Len(objects) /\ Len(objects) \in Nat
  BY DEF BodiesInv, ObjectsTyped
<1>2. objects[o] \in ObjectType
  BY <1>1
<1>3. e \in ObjectType /\ e.body = a /\ e.body_js = objects[o].body_js
  BY <1>2 DEF ObjectType
<1>4. k = [objects EXCEPT ![o] = e]
  OBVIOUS
<1> HIDE DEF e, k
<1>5. /\ k \in Seq(ObjectType) /\ Len(k) = Len(objects)
      /\ \A p \in 1..Len(objects) : k[p] = IF p = o THEN e ELSE objects[p]
  BY <1>1, <1>3, <1>4, ExceptSeq
<1>6. DOMAIN k = 1..Len(objects)
  BY <1>5
<1>7. QED BY <1>1, <1>3, <1>5, <1>6 DEF k

\* An object appended to the others has the body it is given, and no stream object.
LEMMA ObjectAdded ==
  ASSUME NEW k \in Seq(ObjectType), NEW kind \in {"Request", "Response"}, NEW b \in Nat,
         NEW t \in Types \cup {None}
  PROVE  LET l == Append(k, Object(kind, b, t)) IN
         /\ DOMAIN l = 1..(Len(k) + 1) /\ \A p \in 1..Len(k) : l[p] = k[p]
         /\ l[Len(k) + 1].body = b /\ l[Len(k) + 1].body_js = 0
<1> DEFINE x == Object(kind, b, t)
           l == Append(k, x)
<1>1. x \in ObjectType /\ x.body = b /\ x.body_js = 0
  BY DEF Object, ObjectType
<1> HIDE DEF x
<1>2. /\ l \in Seq(ObjectType) /\ Len(l) = Len(k) + 1 /\ l[Len(k) + 1] = x
      /\ \A p \in 1..Len(k) : l[p] = k[p]
  BY <1>1, AppendProperties
<1> HIDE DEF l
<1>3. DOMAIN l = 1..(Len(k) + 1)
  BY <1>2
<1>4. QED BY <1>1, <1>2, <1>3 DEF l, x

\* An object whose body is taken gets a branch, and so does the object that took it.
LEMMA ObjectsTake ==
  ASSUME BodiesInv, WholeInv, Onward, NEW o \in DOMAIN objects, NEW s, ObjectsCalm({s}),
         \A p \in DOMAIN objects : p # o /\ FreshAfter(objects[p].body) => objects[p].body # s,
         \A t \in 1..Len(streams') : t \notin 1..Len(streams) =>
              /\ t > Len(streams) /\ BranchesAfter(t) = {}
              /\ FreshAfter(t) => Remaining'[t] = All,
         NEW a \in 0..Len(streams'), NEW b \in 0..Len(streams'),
         a \notin 1..Len(streams), b \notin 1..Len(streams), a # b \/ (a = 0 /\ b = 0),
         NEW kind \in {"Request", "Response"}, NEW h \in Types \cup {None},
         \/ objects' = [objects EXCEPT ![o].body = a]
         \/ objects' = Append([objects EXCEPT ![o].body = a], Object(kind, b, h))
  PROVE  ObjectsPart'
<1> DEFINE n == Len(objects)
           k == [objects EXCEPT ![o].body = a]
<1>1. /\ n \in Nat /\ DOMAIN objects = 1..n /\ Len(streams) \in Nat /\ Len(streams') \in Nat
      /\ Len(streams) <= Len(streams') /\ a \in Nat /\ b \in Nat
      /\ \A p \in 1..n : objects[p].body \in 0..Len(streams) /\ objects[p].body_js \in 0..Len(streams)
  BY WholeFields, TreeFields DEF Onward
<1>2. /\ k \in Seq(ObjectType) /\ Len(k) = n /\ DOMAIN k = 1..n
      /\ k[o].body = a /\ k[o].body_js = objects[o].body_js
      /\ \A p \in 1..n : p # o => k[p] = objects[p]
  BY <1>1, BodySet
<1> HIDE DEF k
<1>3. objects' = k \/ objects' = Append(k, Object(kind, b, h))
  BY DEF k
<1>4. /\ \A p \in 1..n : objects'[p] = k[p]
      /\ DOMAIN objects' = 1..n \/ DOMAIN objects' = 1..(n + 1)
      /\ DOMAIN objects' = 1..(n + 1) =>
           objects'[n + 1].body = b /\ objects'[n + 1].body_js = 0
  <2>1. CASE objects' = k
    <3>1. 1..n # 1..(n + 1)
      <4>1. n + 1 \in 1..(n + 1) /\ n + 1 \notin 1..n
        BY <1>1
      <4>2. QED BY <4>1
    <3>2. QED BY <1>2, <2>1, <3>1
  <2>2. CASE objects' = Append(k, Object(kind, b, h))
    <3> DEFINE l == Append(k, Object(kind, b, h))
    <3>1. /\ DOMAIN l = 1..(Len(k) + 1) /\ \A p \in 1..Len(k) : l[p] = k[p]
          /\ l[Len(k) + 1].body = b /\ l[Len(k) + 1].body_js = 0
      <4>1. k \in Seq(ObjectType) /\ b \in Nat
        BY <1>1, <1>2
      <4>2. QED BY <4>1, ObjectAdded
    <3> HIDE DEF l
    <3>2. QED BY <1>2, <2>2, <3>1 DEF l
  <2>3. QED BY <1>3, <2>1, <2>2
<1>5. ASSUME NEW p \in DOMAIN objects'
      PROVE  \/ p \in 1..n /\ p # o /\ objects'[p] = objects[p]
             \/ p = o /\ objects'[p].body = a /\ objects'[p].body_js = objects[o].body_js
             \/ p = n + 1 /\ p \notin 1..n /\ objects'[p].body = b /\ objects'[p].body_js = 0
  <2>1. CASE p \in 1..n
    BY <1>2, <1>4, <2>1
  <2>2. CASE p \notin 1..n
    BY <1>1, <1>4, <2>2
  <2>3. QED BY <2>1, <2>2
<1>6. \A p \in DOMAIN objects' :
           objects'[p].body \in 0..Len(streams') /\ objects'[p].body_js <= Len(streams')
  <2>1. ASSUME NEW p \in DOMAIN objects'
        PROVE  objects'[p].body \in 0..Len(streams') /\ objects'[p].body_js \in 0..Len(streams')
    <3>1. \A x \in 0..Len(streams) : x \in 0..Len(streams')
      BY <1>1
    <3>2. 0 \in 0..Len(streams') /\ o \in 1..n
      BY <1>1
    <3>3. QED BY <1>1, <1>5, <3>1, <3>2
  <2>2. QED BY <1>1, <2>1
<1>7. ASSUME NEW x \in {a, b}, FreshAfter(x)
      PROVE  x > Len(streams) /\ BranchesAfter(x) = {} /\ Remaining'[x] = All
  <2>1. x \in 1..Len(streams') /\ x \notin 1..Len(streams)
    BY <1>1, <1>7 DEF FreshAfter
  <2>2. QED BY <1>7, <2>1
\* A branch belongs to one object.
<1>8. ASSUME NEW p \in DOMAIN objects', NEW x \in {a, b}, FreshAfter(x), objects'[p].body = x,
             NEW q \in DOMAIN objects', q # p, objects'[q].body = x
      PROVE  FALSE
  <2>1. x \notin 0..Len(streams)
    BY <1>1, <1>7, <1>8
  <2>2. \A r \in 1..n : objects[r].body # x
    BY <1>1, <2>1
  <2>3. a # b
    <3>1. x # 0
      BY <1>8 DEF FreshAfter
    <3>2. QED BY <3>1
  <2>4. (p = o /\ q = n + 1 /\ x = a /\ x = b) \/ (q = o /\ p = n + 1 /\ x = a /\ x = b)
    BY <1>1, <1>5, <1>8, <2>2
  <2>5. QED BY <2>3, <2>4
<1>9. ASSUME NEW p \in DOMAIN objects'
      PROVE
           \/ /\ p \in DOMAIN objects /\ objects'[p].body = objects[p].body
              /\ FreshAfter(objects[p].body) => objects[p].body \notin {s}
           \/ ~FreshAfter(objects'[p].body)
           \/ /\ objects'[p].body > Len(streams) /\ BranchesAfter(objects'[p].body) = {}
              /\ streams'[objects'[p].body].disturbed \/ Remaining'[objects'[p].body] = All
              /\ \A q \in DOMAIN objects' : q # p => objects'[q].body # objects'[p].body
  <2>1. CASE p \in 1..n /\ p # o /\ objects'[p] = objects[p]
    BY <1>1, <2>1
  <2>2. ASSUME NEW x \in {a, b}, objects'[p].body = x, FreshAfter(x)
        PROVE  /\ objects'[p].body > Len(streams) /\ BranchesAfter(objects'[p].body) = {}
               /\ Remaining'[objects'[p].body] = All
               /\ \A q \in DOMAIN objects' : q # p => objects'[q].body # objects'[p].body
    BY <1>7, <1>8, <2>2
  <2>3. QED BY <1>5, <2>1, <2>2
<1>10. QED BY <1>6, <1>9, ObjectsOn

-----------------------------------------------------------------------------
(***************************************************************************)
(* The actions.                                                            *)
(***************************************************************************)
\* An object's fields change, and not its body; or nothing does.
LEMMA WholeEdit ==
  ASSUME BodiesInv, WholeInv, streams' = streams, calls' = calls, spoiled' = spoiled,
         \/ objects' = objects
         \/ \E o \in DOMAIN objects, b \in 0..Len(streams) :
              objects' = [objects EXCEPT ![o].body_js = b]
         \/ \E o \in DOMAIN objects : \E t : objects' = [objects EXCEPT ![o].headers_js = t]
  PROVE  WholeInv'
<1> DEFINE L == {}
<1>1. Extends(streams', {}, L)
  BY NothingExtends DEF WholeInv
<1>2. /\ DOMAIN objects = 1..Len(objects)
      /\ \A o \in DOMAIN objects : objects[o].body_js \in 0..Len(streams)
      /\ \A o \in DOMAIN objects : objects[o] \in ObjectType
  BY WholeFields DEF BodiesInv, ObjectsTyped
<1>3. /\ DOMAIN objects' = DOMAIN objects
      /\ \A o \in DOMAIN objects : /\ objects'[o].body = objects[o].body
                                   /\ objects'[o].body_js \in 0..Len(streams)
  <2>1. CASE objects' = objects
    BY <1>2, <2>1
  <2>2. ASSUME NEW o \in DOMAIN objects, NEW b \in 0..Len(streams),
               objects' = [objects EXCEPT ![o].body_js = b]
        PROVE  /\ DOMAIN objects' = DOMAIN objects
               /\ \A p \in DOMAIN objects : /\ objects'[p].body = objects[p].body
                                            /\ objects'[p].body_js \in 0..Len(streams)
    <3>1. /\ [objects[o] EXCEPT !.body_js = b].body = objects[o].body
          /\ [objects[o] EXCEPT !.body_js = b].body_js = b
      BY <1>2 DEF ObjectType
    <3>2. QED BY <1>2, <2>2, <3>1
  <2>3. ASSUME NEW o \in DOMAIN objects, NEW t, objects' = [objects EXCEPT ![o].headers_js = t]
        PROVE  /\ DOMAIN objects' = DOMAIN objects
               /\ \A p \in DOMAIN objects : /\ objects'[p].body = objects[p].body
                                            /\ objects'[p].body_js \in 0..Len(streams)
    <3>1. /\ [objects[o] EXCEPT !.headers_js = t].body = objects[o].body
          /\ [objects[o] EXCEPT !.headers_js = t].body_js = objects[o].body_js
      BY <1>2 DEF ObjectType
    <3>2. QED BY <1>2, <2>3, <3>1
  <2>4. QED BY <2>1, <2>2, <2>3
<1>4. \A c \in DOMAIN calls : Fresh(calls[c].stream) => calls[c].stream \notin L
  OBVIOUS
<1> HIDE DEF L
<1>5. QED BY <1>1, <1>3, <1>4, QuietStep

\* getReader() locks a stream that no call reads, for it was not disturbed.
LEMMA WholeGetReader ==
  ASSUME BodiesInv, WholeInv, NEW o \in DOMAIN objects, GetReader(o)
  PROVE  WholeInv'
<1> DEFINE s == objects[o].body_js
           x == [streams[s] EXCEPT !.locked = TRUE, !.reader = TRUE]
           L == {s}
<1>1. /\ s # 0 /\ Free(s) /\ objects' = objects /\ calls' = calls /\ spoiled' = spoiled
      /\ streams' = [streams EXCEPT ![s] = x]
  BY DEF GetReader
<1>2. /\ s \in 1..Len(streams) /\ DOMAIN objects = 1..Len(objects)
      /\ \A p \in DOMAIN objects : objects[p].body_js \in 0..Len(streams)
      /\ Tree(streams) /\ Len(streams) \in Nat
  BY <1>1, WholeFields DEF WholeInv
<1>3. streams[s] \in StreamOf(1..Blocks)
  BY <1>2 DEF Tree
<1>4. /\ x \in StreamOf(1..Blocks) /\ x.parent = streams[s].parent /\ x.buf = streams[s].buf
      /\ x.given = streams[s].given /\ x.disturbed = streams[s].disturbed
      /\ x.cut = streams[s].cut
  BY <1>3 DEF StreamOf
<1> HIDE DEF x, s
<1>5. /\ Alike(streams', streams)
      /\ \A t \in 1..Len(streams) : streams'[t] = IF t = s THEN x ELSE streams[t]
  <2>1. /\ Alike([streams EXCEPT ![s] = x], streams)
        /\ \A t \in 1..Len(streams) : [streams EXCEPT ![s] = x][t] = IF t = s THEN x ELSE streams[t]
    BY <1>2, <1>4, StreamReplaced
  <2>2. QED BY <1>1, <2>1
<1>6. Extends(streams', {}, L)
  <2>1. Tree(streams') /\ Len(streams') = Len(streams)
    BY <1>2, <1>5, AlikeIsTree DEF Alike
  <2>2. \A t \in 1..Len(streams) :
           /\ streams[t].disturbed => streams'[t].disturbed
           /\ streams[t].cut => streams'[t].cut
           /\ streams'[t].locked /\ t \notin L => streams[t].locked
    BY <1>4, <1>5
  <2>3. QED BY <1>2, <1>5, <2>1, <2>2 DEF Extends, Alike
<1>7. ASSUME NEW c \in DOMAIN calls, Fresh(calls[c].stream) PROVE calls[c].stream \notin L
  <2>1. streams[calls[c].stream].disturbed
    BY <1>7 DEF WholeInv, CallsPart, CallWhole
  <2>2. QED BY <1>1, <2>1 DEF Free
<1> HIDE DEF L
<1>8. QED BY <1>1, <1>2, <1>6, <1>7, QuietStep

\* releaseLock() only takes a lock away.
LEMMA WholeReleaseLock ==
  ASSUME BodiesInv, WholeInv, NEW s \in DOMAIN streams, ReleaseLock(s)
  PROVE  WholeInv'
<1> DEFINE x == [streams[s] EXCEPT !.locked = FALSE]
           L == {}
<1>1. /\ objects' = objects /\ calls' = calls /\ spoiled' = spoiled /\ streams[s].locked
      /\ streams' = [streams EXCEPT ![s] = x]
  BY DEF ReleaseLock
<1>2. /\ s \in 1..Len(streams) /\ DOMAIN objects = 1..Len(objects)
      /\ \A p \in DOMAIN objects : objects[p].body_js \in 0..Len(streams)
      /\ Tree(streams) /\ Len(streams) \in Nat
  BY WholeFields DEF WholeInv
<1>3. streams[s] \in StreamOf(1..Blocks)
  BY <1>2 DEF Tree
<1>4. /\ x \in StreamOf(1..Blocks) /\ x.parent = streams[s].parent /\ x.buf = streams[s].buf
      /\ x.given = streams[s].given /\ x.disturbed = streams[s].disturbed
      /\ x.cut = streams[s].cut
  BY <1>3 DEF StreamOf
<1> HIDE DEF x
<1>5. /\ Alike(streams', streams)
      /\ \A t \in 1..Len(streams) : streams'[t] = IF t = s THEN x ELSE streams[t]
  <2>1. /\ Alike([streams EXCEPT ![s] = x], streams)
        /\ \A t \in 1..Len(streams) : [streams EXCEPT ![s] = x][t] = IF t = s THEN x ELSE streams[t]
    BY <1>2, <1>4, StreamReplaced
  <2>2. QED BY <1>1, <2>1
<1>6. Extends(streams', {}, L)
  <2>1. Tree(streams') /\ Len(streams') = Len(streams)
    BY <1>2, <1>5, AlikeIsTree DEF Alike
  <2>2. \A t \in 1..Len(streams) :
           /\ streams[t].disturbed => streams'[t].disturbed
           /\ streams[t].cut => streams'[t].cut
           /\ streams'[t].locked /\ t \notin L => streams[t].locked
    BY <1>1, <1>4, <1>5
  <2>3. QED BY <1>2, <1>5, <2>1, <2>2 DEF Extends, Alike
<1>7. \A c \in DOMAIN calls : Fresh(calls[c].stream) => calls[c].stream \notin L
  OBVIOUS
<1> HIDE DEF L
<1>8. QED BY <1>1, <1>2, <1>6, <1>7, QuietStep

\* cancel() takes nothing from a call but what it is told: its stream is marked as cut.
LEMMA WholeCancel ==
  ASSUME BodiesInv, WholeInv, NEW s \in DOMAIN streams, NEW locked \in BOOLEAN,
         locked => streams[s].locked, Cancel(s, locked)
  PROVE  WholeInv'
<1> DEFINE z == streams[s].cut \/ ~AtEnd(s)
           x == [streams[s] EXCEPT !.disturbed = TRUE, !.locked = locked, !.cut = z]
           L == {}
<1>1. /\ objects' = objects /\ calls' = calls
      /\ spoiled' = IF Branches(s) = {} THEN spoiled ELSE spoiled \cup {Roots[s]}
      /\ streams' = [streams EXCEPT ![s] = x]
  BY DEF Cancel
<1>2. /\ s \in 1..Len(streams) /\ DOMAIN objects = 1..Len(objects)
      /\ \A p \in DOMAIN objects : objects[p].body_js \in 0..Len(streams)
      /\ Tree(streams) /\ Len(streams) \in Nat /\ spoiled \subseteq 1..Len(streams)
  BY WholeFields DEF WholeInv
<1>3. streams \in Seq(StreamOf(1..Blocks))
  BY <1>2 DEF Tree
<1>4. /\ x \in StreamOf(1..Blocks) /\ x.parent = streams[s].parent /\ x.buf = streams[s].buf
      /\ x.given = streams[s].given /\ x.disturbed /\ x.locked = locked
      /\ streams[s].cut => x.cut
  <2>1. streams[s] \in StreamOf(1..Blocks) /\ z \in BOOLEAN /\ (streams[s].cut => z)
    BY <1>2, <1>3
  <2> HIDE DEF z
  <2>2. QED BY <2>1 DEF StreamOf
<1> HIDE DEF x
<1>5. /\ Alike(streams', streams)
      /\ \A t \in 1..Len(streams) : streams'[t] = IF t = s THEN x ELSE streams[t]
  <2>1. /\ Alike([streams EXCEPT ![s] = x], streams)
        /\ \A t \in 1..Len(streams) : [streams EXCEPT ![s] = x][t] = IF t = s THEN x ELSE streams[t]
    BY <1>2, <1>4, StreamReplaced
  <2>2. QED BY <1>1, <2>1
<1>6. Extends(streams', L, L) /\ Len(streams') = Len(streams)
  <2>1. Tree(streams') /\ Len(streams') = Len(streams)
    BY <1>2, <1>5, AlikeIsTree DEF Alike
  <2>2. \A t \in 1..Len(streams) :
           /\ streams[t].disturbed => streams'[t].disturbed
           /\ streams[t].cut => streams'[t].cut
           /\ streams'[t].locked => streams[t].locked
    BY <1>4, <1>5
  <2>3. QED BY <1>2, <1>5, <2>1, <2>2 DEF Extends, Alike
<1>7. spoiled \subseteq spoiled' /\ spoiled' \subseteq 1..Len(streams') /\ L \subseteq 0..Len(streams)
  <2>1. Roots[s] \in 1..Len(streams)
    BY <1>2, RootsMeans, SameFunctions
  <2>2. QED BY <1>1, <1>2, <1>6, <2>1
<1>8. L \cup L = L /\ L = {} /\ \A c \in DOMAIN calls : Fresh(calls[c].stream) => calls[c].stream \notin L
  OBVIOUS
<1> HIDE DEF L
<1>9. Onward /\ CallsCalm(L) /\ ObjectsCalm(L)
  <2>1. Onward /\ CallsCalm(L \cup L) /\ ObjectsCalm(L)
    BY <1>2, <1>6, <1>7, TreesGrow
  <2>2. QED BY <1>8, <2>1
<1>10. ObjectsCalm({})
  BY <1>8, <1>9
<1>11. CallsPart'
  BY <1>1, <1>8, <1>9, CallsStill
<1>12. ObjectsPart'
  <2>1. DOMAIN objects' = DOMAIN objects
    BY <1>1
  <2>2. QED BY <1>1, <1>2, <1>6, <1>9, <1>10, <2>1, ObjectsStill
<1>13. DOMAIN streams' = 1..Len(streams')
  BY <1>9, TreeFields DEF Onward
<1>14. QED BY <1>9, <1>11, <1>12, <1>13 DEF WholeInv, Onward

\* A read past the checks spoils the root; one of a locked stream is of no call.
LEMMA WholeReaderRead ==
  ASSUME BodiesInv, WholeInv, NEW s \in DOMAIN streams, ReaderRead(s)
  PROVE  WholeInv'
<1>1. /\ streams' = Disturb(Pulled(s), s) /\ objects' = objects /\ calls' = calls
      /\ spoiled' = IF streams[s].locked /\ Branches(s) = {} THEN spoiled
                    ELSE spoiled \cup {Roots[s]}
  BY DEF ReaderRead
<1>2. /\ s \in 1..Len(streams) /\ DOMAIN objects = 1..Len(objects)
      /\ \A p \in DOMAIN objects : objects[p].body_js \in 0..Len(streams)
      /\ Tree(streams) /\ Len(streams) \in Nat /\ spoiled \subseteq 1..Len(streams)
  BY WholeFields DEF WholeInv
<1>3. spoiled \subseteq spoiled' /\ spoiled' \subseteq 1..Len(streams)
  <2>1. Roots[s] \in 1..Len(streams)
    BY <1>2, RootsMeans, SameFunctions
  <2>2. QED BY <1>1, <1>2, <2>1
<1>4. /\ Onward /\ Len(streams') = Len(streams)
      /\ \A t \in 1..Len(streams) :
           BranchesAfter(t) = Branches(t) /\ streams'[t].locked = streams[t].locked
      /\ \A t \in 1..Len(streams) : Roots[t] # Roots[s] => Remaining'[t] = Remaining[t]
      /\ Branches(s) = {} =>
           \A t \in 1..Len(streams) : t # s /\ Branches(t) = {} => Remaining'[t] = Remaining[t]
  BY <1>1, <1>2, <1>3, BlockRead
<1>5. streams'[s].disturbed
  <2>1. PICK V : streams \in Seq(StreamOf(V))
    BY <1>2 DEF Tree
  <2> DEFINE W == V \cup {NextBlock(s)}
  <2>2. Pulled(s) \in Seq(StreamOf(W)) /\ Len(Pulled(s)) = Len(streams)
    BY <2>1, PulledKeeps
  <2> HIDE DEF W
  <2>3. QED BY <1>1, <1>2, <2>2, DisturbKeeps
\* What is still fresh and has no branches keeps its blocks, but for s itself.
<1>6. ASSUME NEW t \in 1..Len(streams), FreshAfter(t), Branches(t) = {}, t # s
      PROVE  Remaining'[t] = Remaining[t]
  <2>1. CASE streams[s].locked /\ Branches(s) = {}
    BY <1>4, <1>6, <2>1
  <2>2. CASE ~(streams[s].locked /\ Branches(s) = {})
    <3>1. Roots[s] \in spoiled'
      BY <1>1, <2>2
    <3>2. Roots[t] # Roots[s]
      BY <1>4, <1>6, <3>1 DEF FreshAfter, Onward
    <3>3. QED BY <1>4, <3>2
  <2>3. QED BY <2>1, <2>2
<1> DEFINE X == {s}
<1>7. CallsCalm(X) /\ ObjectsCalm({})
  <2>1. CallsCalm(X)
    BY <1>4, <1>6 DEF CallsCalm
  <2>2. ObjectsCalm({})
    BY <1>4, <1>5, <1>6 DEF ObjectsCalm
  <2>3. QED BY <2>1, <2>2
<1>8. CASE \A c \in DOMAIN calls : Fresh(calls[c].stream) => calls[c].stream \notin X
  <2> HIDE DEF X
  <2>1. CallsPart'
    BY <1>1, <1>4, <1>7, <1>8, CallsStill
  <2>2. ObjectsPart'
    <3>1. DOMAIN objects' = DOMAIN objects
      BY <1>1
    <3>2. QED BY <1>1, <1>2, <1>4, <1>7, <3>1, ObjectsStill
  <2>3. DOMAIN streams' = 1..Len(streams')
    BY <1>4, TreeFields DEF Onward
  <2>4. QED BY <1>4, <2>1, <2>2, <2>3 DEF WholeInv, Onward
\* A call of s: it is not locked, so that its root is spoiled and no stream is affected.
<1>9. CASE \E c \in DOMAIN calls : Fresh(calls[c].stream) /\ calls[c].stream \in X
  <2>1. ~streams[s].locked
    BY <1>9 DEF WholeInv, CallsPart, CallWhole
  <2>2. Roots[s] \in spoiled'
    BY <1>1, <2>1
  <2>3. ~FreshAfter(s)
    BY <1>2, <1>4, <2>2 DEF FreshAfter, Onward
  <2> DEFINE Y == {}
  <2>4. CallsCalm(Y)
    BY <1>7, <2>3 DEF CallsCalm
  <2>5. \A c \in DOMAIN calls : Fresh(calls[c].stream) => calls[c].stream \notin Y
    OBVIOUS
  <2> HIDE DEF X, Y
  <2>6. CallsPart'
    BY <1>1, <1>4, <2>4, <2>5, CallsStill
  <2>7. ObjectsPart'
    <3>1. DOMAIN objects' = DOMAIN objects
      BY <1>1
    <3>2. QED BY <1>1, <1>2, <1>4, <1>7, <3>1, ObjectsStill
  <2>8. DOMAIN streams' = 1..Len(streams')
    BY <1>4, TreeFields DEF Onward
  <2>9. QED BY <1>4, <2>6, <2>7, <2>8 DEF WholeInv, Onward
<1>10. QED BY <1>8, <1>9

\* What a call is when it is made.
LEMMA CallMade ==
  ASSUME NEW o \in Nat, NEW s \in Nat, NEW t \in Types \cup {None}
  PROVE  /\ Reading(o, s, t) \in CallOf(1..Blocks)
         /\ Reading(o, s, t).stream = s /\ Reading(o, s, t).got = <<>>
         /\ Reading(o, s, t).done <=> s = 0
<1>1. <<>> \in Seq(1..Blocks) /\ (s = 0) \in BOOLEAN
  OBVIOUS
<1>2. QED BY <1>1 DEF Reading, CallOf

\* The same of the call of fetch(): it reads the copy of the request.
LEMMA FetchMade ==
  ASSUME NEW s \in Nat, NEW t \in Types \cup {None}, NEW u \in Types \cup {None}
  PROVE  LET r == [Reading(0, s, t) EXCEPT !.shown = u] IN
         /\ r \in CallOf(1..Blocks) /\ r.stream = s /\ r.got = <<>>
         /\ r.done <=> s = 0
<1>1. <<>> \in Seq(1..Blocks) /\ (s = 0) \in BOOLEAN
  OBVIOUS
<1>2. QED BY <1>1 DEF Reading, CallOf

\* A call that takes an object's unused body gets all of it.
LEMMA WholeConsume ==
  ASSUME BodiesInv, WholeInv, NEW o \in DOMAIN objects, NEW form \in BOOLEAN, Consume(o, form)
  PROVE  WholeInv'
<1> DEFINE s == objects[o].body
           r == Reading(o, s, Visible(o))
           P == {}
           L == {}
<1>1. /\ s # 0 /\ Free(s) /\ streams' = Disturb(streams, s) /\ objects' = objects
      /\ spoiled' = spoiled /\ calls' = Append(calls, r)
  BY DEF Consume
<1>2. /\ s \in 1..Len(streams) /\ DOMAIN objects = 1..Len(objects) /\ o \in Nat
      /\ \A p \in DOMAIN objects : objects[p].body_js \in 0..Len(streams)
      /\ Tree(streams) /\ Len(streams) \in Nat /\ spoiled \subseteq 1..Len(streams)
      /\ Visible(o) \in Types \cup {None}
  <2>1. DOMAIN objects = 1..Len(objects) /\ o \in 1..Len(objects) /\ Len(objects) \in Nat
    BY WholeFields
  <2>2. s \in 0..Len(streams) /\ Visible(o) \in Types \cup {None} /\ Len(streams) \in Nat
    BY <2>1, WholeFields
  <2>3. s \in 1..Len(streams) /\ o \in Nat
    BY <1>1, <2>1, <2>2
  <2>4. \A p \in DOMAIN objects : objects[p].body_js \in 0..Len(streams)
    BY <2>1, WholeFields
  <2>5. Tree(streams) /\ spoiled \subseteq 1..Len(streams)
    BY WholeFields DEF WholeInv
  <2> HIDE DEF s
  <2>6. QED BY <2>1, <2>2, <2>3, <2>4, <2>5
<1>3. r \in CallOf(1..Blocks) /\ r.stream = s /\ r.got = <<>> /\ (r.done <=> s = 0)
  <2> DEFINE t == Visible(o)
  <2>1. o \in Nat /\ s \in Nat /\ t \in Types \cup {None} /\ r = Reading(o, s, t)
    BY <1>2
  <2> HIDE DEF s, t, r
  <2>2. QED BY <2>1, CallMade
<1> HIDE DEF s, r, P, L
<1>4. Extends(streams', P, L) /\ Len(streams') = Len(streams) /\ streams'[s].disturbed
  <2>1. Extends(streams, P, L)
    BY <1>2, NothingExtends DEF P, L
  <2>2. QED BY <1>1, <1>2, <2>1, DisturbExtends
<1>5. spoiled \subseteq spoiled' /\ spoiled' \subseteq 1..Len(streams') /\ P \subseteq 0..Len(streams)
  BY <1>1, <1>2, <1>4 DEF P
<1>6. /\ Onward /\ CallsCalm(P \cup L) /\ ObjectsCalm(P)
      /\ \A t \in 1..Len(streams) : Remaining'[t] = Remaining[t]
      /\ \A t \in 1..Len(streams) : Branches(t) = {} /\ t \notin P => BranchesAfter(t) = {}
  BY <1>2, <1>4, <1>5, TreesGrow
<1>7. CallsCalm(L) /\ ObjectsCalm({}) /\ P = {} /\ L = {}
  BY <1>6 DEF P, L
<1>8. ASSUME FreshAfter(s)
      PROVE  /\ BranchesAfter(s) = {} /\ ~streams'[s].locked /\ Remaining'[s] = All
             /\ \A c \in DOMAIN calls : calls[c].stream # s
  <2>1. Fresh(s)
    BY <1>2, <1>6, <1>8, FreshBefore
  <2>2. ~Used(o) /\ ~streams[s].locked /\ ~streams[s].disturbed
    BY <1>1 DEF Free, Used, s
  <2>3. Branches(s) = {} /\ Remaining[s] = All
    BY <2>1, <2>2 DEF WholeInv, ObjectsPart, ObjectWhole, s
  <2>4. BranchesAfter(s) = {} /\ Remaining'[s] = All
    BY <1>2, <1>6, <1>7, <2>3
  <2>5. ~streams'[s].locked
    BY <1>2, <1>4, <1>7, <2>2 DEF Extends
  <2>6. ASSUME NEW c \in DOMAIN calls, calls[c].stream = s PROVE FALSE
    BY <2>1, <2>2, <2>6 DEF WholeInv, CallsPart, CallWhole
  <2>7. QED BY <2>4, <2>5, <2>6
<1>9. CallsPart'
  <2>1. \A c \in DOMAIN calls : Fresh(calls[c].stream) => calls[c].stream \notin L
    BY DEF L
  <2>2. r.stream <= Len(streams') /\ (r.done <=> r.stream = 0)
    BY <1>1, <1>2, <1>3, <1>4
  <2>3. FreshAfter(r.stream) =>
           /\ BranchesAfter(r.stream) = {} /\ streams'[r.stream].disturbed
           /\ ~streams'[r.stream].locked
           /\ Remaining'[r.stream] = All
           /\ \A c \in DOMAIN calls : calls[c].stream # r.stream
    BY <1>3, <1>4, <1>8
  <2>4. QED BY <1>1, <1>3, <1>6, <1>7, <2>1, <2>2, <2>3, CallsMore
<1>10. ObjectsPart'
  <2>1. DOMAIN objects' = DOMAIN objects
    BY <1>1
  <2>2. QED BY <1>1, <1>2, <1>6, <1>7, <2>1, ObjectsStill
<1>11. DOMAIN streams' = 1..Len(streams')
  BY <1>6, TreeFields DEF Onward
<1>12. QED BY <1>6, <1>9, <1>10, <1>11 DEF WholeInv, Onward

\* What a call gets next is what its stream loses; nothing else that is fresh changes.
LEMMA WholeConsumeStep ==
  ASSUME BodiesInv, WholeInv, NEW c \in DOMAIN calls, ConsumeStep(c)
  PROVE  WholeInv'
<1> DEFINE s == calls[c].stream
           n == NextBlock(s)
           e == streams[s].cut \/ AtEnd(s)
           x == [calls[c] EXCEPT !.done = TRUE]
           y == [calls[c] EXCEPT !.got = Append(calls[c].got, n)]
<1>1. /\ ~calls[c].done /\ objects' = objects /\ spoiled' = spoiled
      /\ streams' = (IF streams[s].cut THEN streams ELSE Pulled(s))
      /\ calls' = IF e THEN [calls EXCEPT ![c] = x] ELSE [calls EXCEPT ![c] = y]
  BY DEF ConsumeStep
<1>2. /\ s \in 1..Len(streams) /\ DOMAIN objects = 1..Len(objects)
      /\ \A p \in DOMAIN objects : objects[p].body_js \in 0..Len(streams)
      /\ Tree(streams) /\ Len(streams) \in Nat /\ spoiled \subseteq 1..Len(streams)
      /\ DOMAIN calls = 1..Len(calls) /\ Len(calls) \in Nat
      /\ calls \in Seq(CallOf(1..Blocks)) /\ calls[c] \in CallOf(1..Blocks)
      /\ \A d \in DOMAIN calls : calls[d].stream \in 0..Len(streams)
  <2>1. s # 0
    BY <1>1 DEF WholeInv, CallsPart
  <2>2. s \in 0..Len(streams)
    BY WholeFields
  <2>3. s \in 1..Len(streams)
    BY <2>1, <2>2
  <2>4. QED BY <2>3, WholeFields DEF WholeInv, CallsPart
<1>3. spoiled \subseteq spoiled' /\ spoiled' \subseteq 1..Len(streams)
  BY <1>1, <1>2
<1>4. ~e => n \in 1..Blocks
  BY <1>2, PulledGives
<1>5. /\ x \in CallOf(1..Blocks) /\ x.stream = s /\ x.got = calls[c].got
      /\ y.stream = s /\ y.got = Append(calls[c].got, n) /\ y.done = calls[c].done
      /\ ~e => y \in CallOf(1..Blocks)
  <2>1. x \in CallOf(1..Blocks) /\ x.stream = s /\ x.got = calls[c].got
        /\ y.stream = s /\ y.got = Append(calls[c].got, n) /\ y.done = calls[c].done
    BY <1>2 DEF CallOf
  <2>2. ASSUME ~e PROVE y \in CallOf(1..Blocks)
    <3> DEFINE D == 1..Blocks
    <3>1. n \in D /\ calls[c] \in CallOf(D)
      BY <1>2, <1>4, <2>2
    <3> HIDE DEF n, D
    <3>2. calls[c].got \in Seq(D)
      BY <3>1 DEF CallOf
    <3>3. Append(calls[c].got, n) \in Seq(D)
      BY <3>1, <3>2
    <3>4. y \in CallOf(D)
      BY <3>1, <3>3 DEF CallOf
    <3>5. QED BY <3>4 DEF D
  <2>3. QED BY <2>1, <2>2
<1> DEFINE cut == streams[s].cut
<1> HIDE DEF s, n, x, y, e
<1>6. /\ Onward /\ Len(streams') = Len(streams)
      /\ \A t \in 1..Len(streams) :
           BranchesAfter(t) = Branches(t) /\ streams'[t].locked = streams[t].locked
      /\ \A t \in 1..Len(streams) : Roots[t] # Roots[s] => Remaining'[t] = Remaining[t]
      /\ Branches(s) = {} =>
           /\ \A t \in 1..Len(streams) : t # s /\ Branches(t) = {} => Remaining'[t] = Remaining[t]
           /\ e => Remaining'[s] = Remaining[s]
           /\ ~e => n \in 1..Blocks /\ Remaining[s] = <<n>> \o Remaining'[s]
  <2>1. CASE ~cut
    <3>1. streams' = Pulled(s) \/ streams' = Disturb(Pulled(s), s)
      BY <1>1, <2>1
    <3>2. e <=> AtEnd(s)
      BY <2>1 DEF e
    <3>3. QED BY <1>2, <1>3, <3>1, <3>2, BlockRead DEF n
  <2>2. CASE cut
    <3>1. streams' = streams /\ e
      BY <1>1, <2>2 DEF e
    <3>2. /\ Onward /\ Len(streams') = Len(streams)
          /\ \A t \in 1..Len(streams) :
               /\ BranchesAfter(t) = Branches(t) /\ streams'[t].locked = streams[t].locked
               /\ Remaining'[t] = Remaining[t]
      BY <1>1, <1>2, <3>1, NothingRead
    <3>3. QED BY <1>2, <3>1, <3>2
  <2>3. QED BY <2>1, <2>2
<1>7. Fresh(s) => /\ Branches(s) = {} /\ streams[s].disturbed /\ ~streams[s].locked
                  /\ calls[c].got \o Remaining[s] = All
  BY DEF WholeInv, CallsPart, CallWhole, s
\* The other fresh streams without branches keep their blocks.
<1>8. ASSUME NEW t \in 1..Len(streams), FreshAfter(t), Branches(t) = {}, t # s
      PROVE  Remaining'[t] = Remaining[t]
  <2>1. CASE Roots[t] # Roots[s]
    BY <1>6, <2>1
  <2>2. CASE Roots[t] = Roots[s]
    <3>1. Fresh(t)
      BY <1>6, <1>8, FreshBefore
    <3>2. Fresh(s)
      BY <1>2, <2>2, <3>1 DEF Fresh
    <3>3. QED BY <1>6, <1>7, <1>8, <3>2
  <2>3. QED BY <2>1, <2>2
<1> DEFINE X == {s}
<1>9. CallsCalm(X) /\ ObjectsCalm({})
  <2>1. CallsCalm(X)
    BY <1>6, <1>8 DEF CallsCalm
  <2>2. FreshAfter(s) => streams'[s].disturbed
    <3>1. FreshAfter(s) => streams[s].disturbed
      BY <1>2, <1>6, <1>7, FreshBefore
    <3>2. QED BY <1>2, <1>6, <3>1 DEF Onward, MarksStay
  <2>3. ObjectsCalm({})
    BY <1>6, <1>8, <2>2 DEF ObjectsCalm
  <2>4. QED BY <2>1, <2>3
<1>10. ObjectsPart'
  <2>1. DOMAIN objects' = DOMAIN objects
    BY <1>1
  <2>2. QED BY <1>1, <1>2, <1>6, <1>9, <2>1, ObjectsStill
<1>11. /\ calls' \in Seq(CallOf(1..Blocks)) /\ DOMAIN calls' = DOMAIN calls
       /\ calls'[c].stream = s
       /\ e => calls'[c].got = calls[c].got
       /\ ~e => calls'[c].got = Append(calls[c].got, n) /\ calls'[c].done = calls[c].done
       /\ \A d \in DOMAIN calls : d # c => calls'[d] = calls[d]
  <2> DEFINE D == CallOf(1..Blocks)
  <2>1. calls \in Seq(D) /\ c \in 1..Len(calls) /\ x \in D /\ (~e => y \in D)
    BY <1>2, <1>5
  <2> HIDE DEF D
  <2>2. CASE e
    <3>1. calls' = [calls EXCEPT ![c] = x]
      BY <1>1, <2>2
    <3>2. calls' \in Seq(D)
      BY <2>1, <3>1, ExceptSeq
    <3>3. DOMAIN calls' = DOMAIN calls /\ calls'[c] = x /\ \A d \in DOMAIN calls : d # c => calls'[d] = calls[d]
      BY <3>1
    <3>4. QED BY <1>5, <2>2, <3>2, <3>3 DEF D
  <2>3. CASE ~e
    <3>1. calls' = [calls EXCEPT ![c] = y] /\ y \in D
      BY <1>1, <2>1, <2>3
    <3>2. calls' \in Seq(D)
      BY <2>1, <3>1, ExceptSeq
    <3>3. DOMAIN calls' = DOMAIN calls /\ calls'[c] = y /\ \A d \in DOMAIN calls : d # c => calls'[d] = calls[d]
      BY <3>1
    <3>4. QED BY <1>5, <2>3, <3>2, <3>3 DEF D
  <2>4. QED BY <2>2, <2>3
<1>12. ASSUME NEW d \in DOMAIN calls, d # c PROVE CallWhole(d)'
  <2>1. Fresh(calls[d].stream) => calls[d].stream \notin X
    BY <1>12 DEF WholeInv, CallsPart, CallsApart, s
  <2>2. /\ calls'[d].stream = calls[d].stream /\ calls'[d].got = calls[d].got
        /\ calls'[d].done = calls[d].done
    BY <1>11, <1>12
  <2> HIDE DEF X
  <2>3. QED BY <1>6, <1>9, <2>1, <2>2, OldCall
<1>13. CallWhole(c)'
  <2> SUFFICES ASSUME FreshAfter(s)
               PROVE  /\ BranchesAfter(s) = {} /\ streams'[s].disturbed /\ ~streams'[s].locked
                      /\ calls'[c].got \o Remaining'[s] = All
                      /\ calls'[c].done => calls'[c].got = All \/ streams'[s].cut
    BY <1>11 DEF CallWhole, Fresh, FreshAfter, Branches, BranchesAfter, All
  <2>1. Fresh(s)
    BY <1>2, <1>6, FreshBefore
  <2>2. BranchesAfter(s) = {} /\ ~streams'[s].locked /\ streams'[s].disturbed
    BY <1>2, <1>6, <1>7, <2>1 DEF Onward, MarksStay
  <2>3. calls'[c].got \o Remaining'[s] = calls[c].got \o Remaining[s]
    <3>1. CASE e
      BY <1>6, <1>7, <1>11, <2>1, <3>1
    <3>2. CASE ~e
      <4> DEFINE D == 1..Blocks
                 g == calls[c].got
                 q == Remaining'[s]
      <4>1. n \in D /\ Remaining[s] = <<n>> \o q
        BY <1>6, <1>7, <2>1, <3>2
      <4>2. g \in Seq(D)
        BY WholeFields
      <4>3. q \in Seq(D)
        <5>1. Tree(streams') /\ s \in 1..Len(streams')
          BY <1>2, <1>6 DEF Onward
        <5>2. RemainingOf(streams')[s] \in Seq(1..Blocks)
          BY <5>1, RestMeans
        <5>3. QED BY <5>2, SameFunctions
      <4> HIDE DEF D, g, q
      <4>4. Append(g, n) \o q = g \o (<<n>> \o q)
        BY <4>1, <4>2, <4>3, LastBlock
      <4>5. QED BY <1>11, <3>2, <4>1, <4>4 DEF g, q
    <3>3. QED BY <3>1, <3>2
  <2>4. calls'[c].done => calls'[c].got = All \/ streams'[s].cut
    <3>1. CASE ~e
      BY <1>1, <1>11, <3>1
    <3>2. CASE cut
      <4>1. streams'[s].cut
        BY <1>2, <1>6, <3>2 DEF Onward
      <4>2. QED BY <4>1
    <3>3. CASE e /\ ~cut
      <4>1. AtEnd(s)
        BY <3>3 DEF e
      <4>2. Remaining[s] = <<>>
        BY <1>2, <4>1, EndMeans
      <4>3. calls[c].got \in Seq(1..Blocks)
        BY WholeFields
      <4>4. calls[c].got \o <<>> = calls[c].got
        BY <4>3, ConcatEmptySeq
      <4>5. QED BY <1>7, <1>11, <2>1, <3>3, <4>2, <4>4
    <3>4. QED BY <3>1, <3>2, <3>3
  <2>5. QED BY <1>7, <2>1, <2>2, <2>3, <2>4
<1>14. \A d \in DOMAIN calls : calls'[d].stream = calls[d].stream
  BY <1>11 DEF s
<1>15. \A d \in DOMAIN calls' : calls'[d].stream <= Len(streams') /\ (calls'[d].stream = 0 => calls'[d].done)
  <2>1. ASSUME NEW d \in DOMAIN calls
        PROVE  calls'[d].stream <= Len(streams') /\ (calls'[d].stream = 0 => calls'[d].done)
    <3>1. calls'[d].stream <= Len(streams')
      BY <1>2, <1>6, <1>14
    <3>2. CASE d = c
      BY <1>2, <1>11, <3>1, <3>2
    <3>3. CASE d # c
      BY <1>11, <3>1, <3>3 DEF WholeInv, CallsPart
    <3>4. QED BY <3>2, <3>3
  <2>2. QED BY <1>11, <2>1
<1>16. CallsApart'
  <2>1. ASSUME NEW d \in DOMAIN calls, NEW f \in DOMAIN calls, d # f,
               calls[d].stream = calls[f].stream, FreshAfter(calls[d].stream)
        PROVE  FALSE
    <3>1. calls[d].stream \in 1..Len(streams)
      BY <1>2, <2>1 DEF FreshAfter
    <3>2. Fresh(calls[d].stream)
      BY <1>6, <2>1, <3>1, FreshBefore
    <3>3. QED BY <2>1, <3>2 DEF WholeInv, CallsPart, CallsApart
  <2>2. QED BY <1>11, <1>14, <2>1 DEF CallsApart, Fresh, FreshAfter
<1>17. CallsPart'
  BY <1>11, <1>12, <1>13, <1>15, <1>16 DEF CallsPart
<1>18. DOMAIN streams' = 1..Len(streams')
  BY <1>6, TreeFields DEF Onward
<1>19. QED BY <1>6, <1>10, <1>17, <1>18 DEF WholeInv, Onward

\* A new object comes with a body of its own, or over a stream that is spoiled.
LEMMA ObjectsMore ==
  ASSUME BodiesInv, WholeInv, Onward, ObjectsCalm({}),
         NEW kind \in {"Request", "Response"}, NEW h \in Types \cup {None},
         NEW b \in 0..Len(streams'), objects' = Append(objects, Object(kind, b, h)),
         \/ ~FreshAfter(b)
         \/ b > Len(streams) /\ BranchesAfter(b) = {} /\ Remaining'[b] = All
  PROVE  ObjectsPart'
<1> DEFINE n == Len(objects)
<1>1. /\ n \in Nat /\ DOMAIN objects = 1..n /\ Len(streams) \in Nat /\ Len(streams') \in Nat
      /\ Len(streams) <= Len(streams') /\ b \in Nat
      /\ \A p \in 1..n : objects[p].body \in 0..Len(streams) /\ objects[p].body_js \in 0..Len(streams)
  BY WholeFields, TreeFields DEF Onward
<1>2. /\ DOMAIN objects' = 1..(n + 1) /\ \A p \in 1..n : objects'[p] = objects[p]
      /\ objects'[n + 1].body = b /\ objects'[n + 1].body_js = 0
  <2>1. objects \in Seq(ObjectType)
    BY DEF BodiesInv, ObjectsTyped
  <2> DEFINE l == Append(objects, Object(kind, b, h))
  <2>2. /\ DOMAIN l = 1..(n + 1) /\ \A p \in 1..n : l[p] = objects[p]
        /\ l[n + 1].body = b /\ l[n + 1].body_js = 0
    BY <1>1, <2>1, ObjectAdded
  <2>3. objects' = l
    OBVIOUS
  <2> HIDE DEF l
  <2>4. QED BY <2>2, <2>3
<1>3. \A p \in DOMAIN objects' : \/ p \in 1..n /\ objects'[p] = objects[p]
                                 \/ p = n + 1 /\ objects'[p].body = b /\ objects'[p].body_js = 0
  BY <1>1, <1>2
<1>4. \A p \in DOMAIN objects' :
         objects'[p].body \in 0..Len(streams') /\ objects'[p].body_js <= Len(streams')
  BY <1>1, <1>3
<1>5. ASSUME NEW p \in DOMAIN objects'
      PROVE
           \/ /\ p \in DOMAIN objects /\ objects'[p].body = objects[p].body
              /\ FreshAfter(objects[p].body) => objects[p].body \notin {}
           \/ ~FreshAfter(objects'[p].body)
           \/ /\ objects'[p].body > Len(streams) /\ BranchesAfter(objects'[p].body) = {}
              /\ streams'[objects'[p].body].disturbed \/ Remaining'[objects'[p].body] = All
              /\ \A q \in DOMAIN objects' : q # p => objects'[q].body # objects'[p].body
  <2>1. CASE p \in 1..n
    BY <1>1, <1>2, <2>1
  <2>2. CASE p \notin 1..n
    <3>1. p = n + 1 /\ objects'[p].body = b
      BY <1>3, <2>2
    <3>2. CASE ~FreshAfter(b)
      BY <3>1, <3>2
    <3>3. CASE b > Len(streams) /\ BranchesAfter(b) = {} /\ Remaining'[b] = All
      <4>1. ASSUME NEW q \in DOMAIN objects', q # p PROVE objects'[q].body # b
        <5>1. q \in 1..n /\ objects'[q] = objects[q]
          BY <1>3, <3>1, <4>1
        <5>2. objects[q].body \in 0..Len(streams)
          BY <1>1, <5>1
        <5>3. QED BY <1>1, <3>3, <5>1, <5>2
      <4>2. QED BY <3>1, <3>3, <4>1
    <3>4. QED BY <3>2, <3>3
  <2>3. QED BY <2>1, <2>2
<1>6. QED BY <1>4, <1>5, ObjectsOn

\* An object over bytes of the script.
LEMMA WholeMade ==
  ASSUME BodiesInv, WholeInv, NEW ss, Extends(ss, {}, {}), Len(ss) = Len(streams),
         streams' = Append(ss, Stream(0)), calls' = calls, spoiled' = spoiled,
         NEW kind \in {"Request", "Response"}, NEW h \in Types \cup {None},
         objects' = Append(objects, Object(kind, Len(streams) + 1, h))
  PROVE  WholeInv'
<1> DEFINE n == Len(streams)
           P == {0}
           L == {}
<1>1. /\ Tree(streams) /\ n \in Nat /\ DOMAIN streams = 1..n /\ spoiled \subseteq 1..n
  BY WholeFields DEF WholeInv
<1>2. Extends(streams', P, L) /\ Len(streams') = n + 1 /\ streams'[n + 1] = Stream(0)
  <2>1. 0 \in 0..Len(ss)
    BY <1>1
  <2> DEFINE a == Append(ss, Stream(0))
  <2>2. /\ Extends(a, {} \cup {0}, {}) /\ Len(a) = Len(ss) + 1 /\ a[Len(ss) + 1] = Stream(0)
    BY <1>1, <2>1, AddedExtends
  <2>3. {} \cup {0} = {0} /\ streams' = a
    OBVIOUS
  <2> HIDE DEF a
  <2>4. QED BY <2>2, <2>3
<1>3. P \subseteq 0..n /\ spoiled \subseteq spoiled' /\ spoiled' \subseteq 1..Len(streams')
  BY <1>1, <1>2
<1> HIDE DEF P, L
<1>4. /\ Onward /\ CallsCalm(P \cup L) /\ ObjectsCalm(P)
      /\ \A t \in 1..Len(streams') : t \notin 1..n =>
              /\ t > n /\ BranchesAfter(t) = {}
              /\ streams'[t].parent = 0 => Remaining'[t] = All
  BY <1>1, <1>2, <1>3, TreesGrow
<1>5. ObjectsCalm({})
  <2>1. \A t \in 1..n : t \notin P
    BY <1>1 DEF P
  <2>2. QED BY <1>4, <2>1 DEF ObjectsCalm
<1>6. CallsPart'
  <2> DEFINE X == P \cup L
  <2>1. \A c \in DOMAIN calls : Fresh(calls[c].stream) => calls[c].stream \notin X
    BY DEF P, L, Fresh
  <2> HIDE DEF X
  <2>2. CallsCalm(X)
    BY <1>4 DEF X
  <2>3. QED BY <1>4, <2>1, <2>2, CallsStill
<1>7. ObjectsPart'
  <2> DEFINE b == n + 1
  <2>1. b \in 1..Len(streams') /\ b \notin 1..n /\ b \in 0..Len(streams')
    BY <1>1, <1>2
  <2>2. streams'[b].parent = 0
    BY <1>2 DEF Stream
  <2>3. objects' = Append(objects, Object(kind, b, h))
    OBVIOUS
  <2> HIDE DEF b
  <2>4. b > n /\ BranchesAfter(b) = {} /\ Remaining'[b] = All
    BY <1>4, <2>1, <2>2
  <2>5. QED BY <1>4, <1>5, <2>1, <2>3, <2>4, ObjectsMore
<1>8. DOMAIN streams' = 1..Len(streams')
  BY <1>4, TreeFields DEF Onward
<1>9. QED BY <1>4, <1>6, <1>7, <1>8 DEF WholeInv, Onward

\* A new object has a whole body of its own.
LEMMA WholeNewObject ==
  ASSUME BodiesInv, WholeInv, NEW k \in {"Request", "Response"}, NEW t \in Types, NewObject(k, t)
  PROVE  WholeInv'
<1>1. Extends(streams, {}, {})
  BY NothingExtends DEF WholeInv
<1>2. /\ streams' = Append(streams, Stream(0)) /\ calls' = calls /\ spoiled' = spoiled
      /\ objects' = Append(objects, Object(k, Len(streams) + 1, t)) /\ t \in Types \cup {None}
  BY DEF NewObject
<1>3. QED BY <1>1, <1>2, WholeMade

\* The copy has a body of its own; that of the object it was made from is marked.
LEMMA WholeRequestOver ==
  ASSUME BodiesInv, WholeInv, NEW o \in DOMAIN objects, NEW t \in Types, RequestOver(o, t)
  PROVE  WholeInv'
<1> DEFINE s == objects[o].body
           ss == IF s = 0 THEN streams ELSE Disturb(streams, s)
           h == IF objects[o].list = None THEN t ELSE objects[o].list
<1>1. /\ streams' = Append(ss, Stream(0)) /\ calls' = calls /\ spoiled' = spoiled
      /\ objects' = Append(objects, Object("Request", Len(streams) + 1, h))
  BY DEF RequestOver
<1>2. h \in Types \cup {None} /\ s \in 0..Len(streams)
  BY WholeFields
<1>3. Extends(ss, {}, {}) /\ Len(ss) = Len(streams)
  <2>1. Extends(streams, {}, {}) /\ Tree(streams)
    BY NothingExtends DEF WholeInv
  <2>2. CASE s = 0
    BY <2>1, <2>2
  <2>3. CASE s # 0
    <3>1. s \in 1..Len(streams)
      BY <1>2, <2>3
    <3>2. Extends(Disturb(streams, s), {}, {}) /\ Len(Disturb(streams, s)) = Len(streams)
      BY <2>1, <3>1, DisturbExtends
    <3>3. QED BY <2>3, <3>2
  <2>4. QED BY <2>2, <2>3
<1> HIDE DEF ss, h
<1>4. QED BY <1>1, <1>2, <1>3, WholeMade

-----------------------------------------------------------------------------
\* The branches are new streams, or there are none.
LEMMA NewBranches ==
  ASSUME Tree(streams), NEW s \in 0..Len(streams)
  PROVE  /\ s = 0 => BranchA(s) = 0 /\ BranchB(s) = 0
         /\ s # 0 => /\ BranchA(s) = Len(streams) + 1 /\ BranchB(s) = Len(streams) + 2
                     /\ Len(Tee(s)) = Len(streams) + 2
                     /\ Extends(Tee(s), {s}, {})
<1>1. Len(streams) \in Nat
  BY TreeFields
<1>2. s # 0 => s \in 1..Len(streams)
  BY <1>1
<1>3. s # 0 => Len(Tee(s)) = Len(streams) + 2 /\ Extends(Tee(s), {s}, {})
  BY <1>2, TeeExtends
<1>4. QED BY <1>3 DEF BranchA, BranchB

\* An object's free body is taken, and no call is made.
LEMMA WholeTaken ==
  ASSUME BodiesInv, WholeInv, NEW o \in DOMAIN objects, NEW s, s = objects[o].body, Free(s),
         spoiled' = spoiled, calls' = calls,
         s = 0 => streams' = streams,
         s # 0 => Extends(streams', {s}, {}),
         NEW a \in 0..Len(streams'), NEW b \in 0..Len(streams'),
         a \notin 1..Len(streams), b \notin 1..Len(streams), a # b \/ (a = 0 /\ b = 0),
         NEW kind \in {"Request", "Response"}, NEW h \in Types \cup {None},
         \/ objects' = [objects EXCEPT ![o].body = a]
         \/ objects' = Append([objects EXCEPT ![o].body = a], Object(kind, b, h))
  PROVE  WholeInv'
<1> DEFINE X == {s}
<1>1. /\ Onward /\ CallsCalm({s}) /\ ObjectsCalm({s}) /\ spoiled' \subseteq DOMAIN streams'
      /\ \A c \in DOMAIN calls : Fresh(calls[c].stream) => calls[c].stream # s
      /\ \A p \in DOMAIN objects : p # o /\ FreshAfter(objects[p].body) => objects[p].body # s
      /\ \A t \in 1..Len(streams') : t \notin 1..Len(streams) =>
           /\ t > Len(streams) /\ BranchesAfter(t) = {}
           /\ FreshAfter(t) => Remaining'[t] = All
  BY TakenBody
<1>2. CallsPart'
  <2>1. \A c \in DOMAIN calls : Fresh(calls[c].stream) => calls[c].stream \notin X
    BY <1>1
  <2>2. CallsCalm(X)
    BY <1>1
  <2> HIDE DEF X
  <2>3. QED BY <1>1, <2>1, <2>2, CallsStill
<1>3. ObjectsPart'
  BY <1>1, ObjectsTake
<1>4. QED BY <1>1, <1>2, <1>3 DEF WholeInv, Onward

\* The two branches of clone() are what the body was.
LEMMA WholeClone ==
  ASSUME BodiesInv, WholeInv, NEW o \in DOMAIN objects, Clone(o)
  PROVE  WholeInv'
<1> DEFINE s == objects[o].body
           a == BranchA(s)
           b == BranchB(s)
           k == objects[o].kind
           h == objects[o].list
<1>1. /\ Free(s) /\ streams' = Tee(s) /\ calls' = calls /\ spoiled' = spoiled
      /\ objects' = Append([objects EXCEPT ![o].body = a], Object(k, b, h))
  BY DEF Clone
<1>2. /\ Tree(streams) /\ s \in 0..Len(streams) /\ Len(streams) \in Nat
      /\ k \in {"Request", "Response"} /\ h \in Types \cup {None}
  <2>1. objects[o] \in ObjectType
    BY DEF BodiesInv, ObjectsTyped
  <2>2. k \in {"Request", "Response"} /\ h \in Types \cup {None}
    BY <2>1 DEF ObjectType
  <2>3. QED BY <2>2, WholeFields DEF WholeInv
<1>3. /\ s = 0 => a = 0 /\ b = 0 /\ streams' = streams
      /\ s # 0 => /\ a = Len(streams) + 1 /\ b = Len(streams) + 2
                  /\ Len(streams') = Len(streams) + 2 /\ Extends(streams', {s}, {})
  <2>1. s = 0 => Tee(s) = streams
    BY DEF Tee
  <2>2. QED BY <1>1, <1>2, <2>1, NewBranches
<1>4. s = objects[o].body
  OBVIOUS
<1> HIDE DEF a, b, k, h, s
<1>5. /\ a \in 0..Len(streams') /\ b \in 0..Len(streams')
      /\ a \notin 1..Len(streams) /\ b \notin 1..Len(streams) /\ (a # b \/ (a = 0 /\ b = 0))
  BY <1>2, <1>3
<1>6. QED BY <1>1, <1>2, <1>3, <1>4, <1>5, WholeTaken

\* The new request's branch is not read; the other counts as used.
LEMMA WholeExtract ==
  ASSUME BodiesInv, WholeInv, NEW o \in DOMAIN objects, NEW h \in Types \cup {None}, Extract(o, h)
  PROVE  WholeInv'
<1> DEFINE s == objects[o].body
           a == BranchA(s)
           b == BranchB(s)
<1>1. /\ Free(s) /\ streams' = (IF s = 0 THEN streams ELSE Disturb(Tee(s), a))
      /\ calls' = calls /\ spoiled' = spoiled
      /\ objects' = Append([objects EXCEPT ![o].body = a], Object("Request", b, h))
  BY DEF Extract
<1>2. Tree(streams) /\ s \in 0..Len(streams) /\ Len(streams) \in Nat
  BY WholeFields DEF WholeInv
<1>3. /\ s = 0 => a = 0 /\ b = 0 /\ streams' = streams
      /\ s # 0 => /\ a = Len(streams) + 1 /\ b = Len(streams) + 2
                  /\ Len(streams') = Len(streams) + 2 /\ Extends(streams', {s}, {})
  <2>1. CASE s = 0
    BY <1>1, <1>2, <2>1, NewBranches
  <2>2. CASE s # 0
    <3>1. /\ a = Len(streams) + 1 /\ b = Len(streams) + 2
          /\ Len(Tee(s)) = Len(streams) + 2 /\ Extends(Tee(s), {s}, {})
      BY <1>2, <2>2, NewBranches
    <3>2. a \in 1..Len(Tee(s))
      BY <1>2, <3>1
    <3> DEFINE tt == Tee(s)
               X == {s}
               L == {}
    <3>3. Extends(tt, X, L) /\ a \in 1..Len(tt)
      BY <3>1, <3>2
    <3> HIDE DEF tt, X, L, a
    <3>4. Extends(Disturb(tt, a), X, L) /\ Len(Disturb(tt, a)) = Len(tt)
      BY <1>2, <3>3, DisturbExtends
    <3>5. streams' = Disturb(tt, a)
      BY <1>1, <2>2 DEF tt
    <3>6. QED BY <2>2, <3>1, <3>4, <3>5 DEF X, L, tt
  <2>3. QED BY <2>1, <2>2
<1>4. s = objects[o].body
  OBVIOUS
<1> HIDE DEF a, b, s
<1>5. /\ a \in 0..Len(streams') /\ b \in 0..Len(streams')
      /\ a \notin 1..Len(streams) /\ b \notin 1..Len(streams) /\ (a # b \/ (a = 0 /\ b = 0))
  BY <1>2, <1>3
<1>6. QED BY <1>1, <1>2, <1>3, <1>4, <1>5, WholeTaken

\* The object keeps one branch; the other is dropped with the request that failed.
LEMMA WholeRequestFails ==
  ASSUME BodiesInv, WholeInv, NEW o \in DOMAIN objects, RequestFails(o)
  PROVE  WholeInv'
<1> DEFINE s == objects[o].body
           a == BranchA(s)
           b == 0
           h == None
           k == "Request"
<1>1. /\ s # 0 /\ Free(s) /\ streams' = Append(streams, Stream(s))
      /\ calls' = calls /\ spoiled' = spoiled
      /\ objects' = [objects EXCEPT ![o].body = a]
  BY DEF RequestFails
<1>2. Tree(streams) /\ s \in 0..Len(streams) /\ Len(streams) \in Nat
  BY WholeFields DEF WholeInv
<1>3. a = Len(streams) + 1
  BY <1>1 DEF BranchA
<1>4. s = objects[o].body /\ h \in Types \cup {None} /\ k \in {"Request", "Response"}
  OBVIOUS
<1>5. b = 0
  OBVIOUS
<1> HIDE DEF a, b, s, h, k
<1>6. Extends(streams', {s}, {}) /\ Len(streams') = Len(streams) + 1
  <2>1. Extends(streams, {}, {})
    BY <1>2, NothingExtends
  <2>2. Extends(Append(streams, Stream(s)), {} \cup {s}, {}) /\ Len(Append(streams, Stream(s))) = Len(streams) + 1
    BY <1>2, <2>1, AddedExtends
  <2>3. {} \cup {s} = {s}
    OBVIOUS
  <2>4. QED BY <1>1, <2>2, <2>3
<1>7. /\ a \in 0..Len(streams') /\ b \in 0..Len(streams')
      /\ a \notin 1..Len(streams) /\ b \notin 1..Len(streams) /\ (a # b \/ (a = 0 /\ b = 0))
  BY <1>2, <1>3, <1>5, <1>6
<1>8. QED BY <1>1, <1>2, <1>4, <1>6, <1>7, WholeTaken

\* fetch(o) reads a branch of its own, the request keeps the other.
LEMMA WholeFetch ==
  ASSUME BodiesInv, WholeInv, NEW o \in DOMAIN objects, Fetch(o)
  PROVE  WholeInv'
<1> DEFINE s == objects[o].body
           a == BranchA(s)
           b == BranchB(s)
           t == objects[o].list
           u == Visible(o)
           r == [Reading(0, b, t) EXCEPT !.shown = u]
           X == {s}
<1>1. /\ Free(s) /\ spoiled' = spoiled /\ objects' = [objects EXCEPT ![o].body = a]
      /\ streams' = (IF s = 0 THEN streams ELSE Disturb(Disturb(Tee(s), a), b))
      /\ calls' = Append(calls, r)
  BY DEF Fetch
<1>2. /\ Tree(streams) /\ s \in 0..Len(streams) /\ Len(streams) \in Nat
      /\ t \in Types \cup {None} /\ u \in Types \cup {None}
      /\ \A c \in DOMAIN calls : calls[c].stream \in 0..Len(streams)
  BY WholeFields DEF WholeInv
<1>3. /\ s = 0 => a = 0 /\ b = 0 /\ streams' = streams
      /\ s # 0 => /\ a = Len(streams) + 1 /\ b = Len(streams) + 2
                  /\ Len(streams') = Len(streams) + 2 /\ Extends(streams', {s}, {})
                  /\ streams'[b].disturbed
  <2>1. CASE s = 0
    BY <1>1, <1>2, <2>1, NewBranches
  <2>2. CASE s # 0
    <3>1. /\ a = Len(streams) + 1 /\ b = Len(streams) + 2
          /\ Len(Tee(s)) = Len(streams) + 2 /\ Extends(Tee(s), {s}, {})
      BY <1>2, <2>2, NewBranches
    <3> DEFINE tt == Tee(s)
               dd == Disturb(tt, a)
               L == {}
    <3>2. a \in 1..Len(tt) /\ b \in 1..Len(tt)
      BY <1>2, <3>1
    <3>3. Extends(tt, X, L)
      BY <3>1
    <3>4. streams' = Disturb(dd, b)
      BY <1>1, <2>2
    <3> HIDE DEF tt, X, L, a, b
    <3>5. Extends(dd, X, L) /\ Len(dd) = Len(tt)
      BY <1>2, <3>2, <3>3, DisturbExtends
    <3> HIDE DEF dd
    <3>6. Extends(streams', X, L) /\ Len(streams') = Len(tt) /\ streams'[b].disturbed
      BY <1>2, <3>2, <3>4, <3>5, DisturbExtends
    <3>7. QED BY <2>2, <3>1, <3>6 DEF X, L, tt
  <2>3. QED BY <2>1, <2>2
<1>4. s = objects[o].body
  OBVIOUS
<1>5. r \in CallOf(1..Blocks) /\ r.stream = b /\ r.got = <<>> /\ (r.done <=> b = 0)
  <2>1. b \in Nat /\ t \in Types \cup {None} /\ u \in Types \cup {None}
    BY <1>2, <1>3
  <2> HIDE DEF b, t, u, s
  <2>2. QED BY <2>1, FetchMade
<1> HIDE DEF a, b, t, u, r, s
<1>6. /\ a \in 0..Len(streams') /\ b \in 0..Len(streams')
      /\ a \notin 1..Len(streams) /\ b \notin 1..Len(streams) /\ (a # b \/ (a = 0 /\ b = 0))
      /\ b # 0 => s # 0
  BY <1>2, <1>3
<1>7. /\ Onward /\ CallsCalm({s}) /\ ObjectsCalm({s}) /\ spoiled' \subseteq DOMAIN streams'
      /\ \A c \in DOMAIN calls : Fresh(calls[c].stream) => calls[c].stream # s
      /\ \A p \in DOMAIN objects : p # o /\ FreshAfter(objects[p].body) => objects[p].body # s
      /\ \A v \in 1..Len(streams') : v \notin 1..Len(streams) =>
           /\ v > Len(streams) /\ BranchesAfter(v) = {}
           /\ FreshAfter(v) => Remaining'[v] = All
  BY <1>1, <1>3, <1>4, TakenBody
<1>8. ObjectsPart'
  <2> DEFINE h == None
             k == "Request"
  <2>1. h \in Types \cup {None} /\ k \in {"Request", "Response"}
    OBVIOUS
  <2> HIDE DEF h, k
  <2>2. QED BY <1>1, <1>6, <1>7, <2>1, ObjectsTake
\* The branch is new, and whole if it is fresh.
<1>9. ASSUME FreshAfter(b)
      PROVE  /\ BranchesAfter(b) = {} /\ streams'[b].disturbed /\ ~streams'[b].locked
             /\ Remaining'[b] = All
             /\ \A c \in DOMAIN calls : calls[c].stream # b
  <2>1. b # 0 /\ s # 0
    BY <1>6, <1>9 DEF FreshAfter
  <2>2. b \in 1..Len(streams') /\ b \notin 1..Len(streams) /\ b \notin 0..Len(streams)
    BY <1>2, <1>3, <2>1
  <2>3. BranchesAfter(b) = {} /\ Remaining'[b] = All
    BY <1>7, <1>9, <2>2
  <2>4. streams'[b].disturbed /\ ~streams'[b].locked
    BY <1>3, <2>1, <2>2 DEF Extends
  <2>5. \A c \in DOMAIN calls : calls[c].stream # b
    BY <1>2, <2>2
  <2>6. QED BY <2>3, <2>4, <2>5
<1>10. CallsPart'
  <2>1. \A c \in DOMAIN calls : Fresh(calls[c].stream) => calls[c].stream \notin X
    BY <1>7
  <2>2. CallsCalm(X)
    BY <1>7
  <2> HIDE DEF X
  <2>3. Len(streams') \in Nat
    BY <1>7, TreeFields DEF Onward
  <2>4. r.stream <= Len(streams') /\ (r.done <=> r.stream = 0)
    BY <1>5, <1>6, <2>3
  <2>5. FreshAfter(r.stream) =>
           /\ BranchesAfter(r.stream) = {} /\ streams'[r.stream].disturbed
           /\ ~streams'[r.stream].locked
           /\ Remaining'[r.stream] = All
           /\ \A c \in DOMAIN calls : calls[c].stream # r.stream
    BY <1>5, <1>9
  <2>6. QED BY <1>1, <1>5, <1>7, <2>1, <2>2, <2>4, <2>5, CallsMore
<1>11. QED BY <1>7, <1>8, <1>10 DEF WholeInv, Onward

-----------------------------------------------------------------------------
\* body: null shares a stream, which is marked and its root spoiled.
LEMMA Shared ==
  ASSUME BodiesInv, WholeInv, NEW s \in 0..Len(streams),
         streams' = IF s = 0 THEN streams ELSE Disturb(streams, s),
         spoiled' = IF s = 0 THEN spoiled ELSE spoiled \cup {Roots[s]}
  PROVE  /\ Onward /\ CallsCalm({}) /\ ObjectsCalm({}) /\ Len(streams') = Len(streams)
         /\ DOMAIN streams' = 1..Len(streams') /\ ~FreshAfter(s)
<1> DEFINE P == {}
           L == {}
<1>1. /\ Tree(streams) /\ Len(streams) \in Nat /\ spoiled \subseteq 1..Len(streams)
      /\ s # 0 => s \in 1..Len(streams)
  BY WholeFields DEF WholeInv
<1>2. Extends(streams', P, L) /\ Len(streams') = Len(streams)
  <2>1. Extends(streams, P, L)
    BY <1>1, NothingExtends
  <2> HIDE DEF P, L
  <2>2. QED BY <1>1, <2>1, DisturbExtends
<1>3. s # 0 => Roots[s] \in 1..Len(streams)
  BY <1>1, RootsMeans, SameFunctions
<1>4. spoiled \subseteq spoiled' /\ spoiled' \subseteq 1..Len(streams') /\ P \subseteq 0..Len(streams)
  BY <1>1, <1>2, <1>3
<1> HIDE DEF P, L
<1>5. Onward /\ CallsCalm(P \cup L) /\ ObjectsCalm(P)
  BY <1>1, <1>2, <1>4, TreesGrow
<1>6. P \cup L = {} /\ P = {}
  BY DEF P, L
<1>7. ~FreshAfter(s)
  <2>1. CASE s = 0
    BY <2>1 DEF FreshAfter
  <2>2. CASE s # 0
    BY <1>1, <1>5, <2>2 DEF FreshAfter, Onward
  <2>3. QED BY <2>1, <2>2
<1>8. DOMAIN streams' = 1..Len(streams')
  BY <1>5, TreeFields DEF Onward
<1>9. CallsCalm({}) /\ ObjectsCalm({})
  BY <1>5, <1>6
<1>10. QED BY <1>2, <1>5, <1>7, <1>8, <1>9

\* The copy shares its stream with the object it was made from: the root is spoiled.
LEMMA WholeRequestOverNull ==
  ASSUME BodiesInv, WholeInv, NEW o \in DOMAIN objects, RequestOverNull(o)
  PROVE  WholeInv'
<1> DEFINE s == objects[o].body
           h == objects[o].list
           k == "Request"
           X == {}
<1>1. /\ streams' = (IF s = 0 THEN streams ELSE Disturb(streams, s))
      /\ spoiled' = (IF s = 0 THEN spoiled ELSE spoiled \cup {Roots[s]})
      /\ calls' = calls /\ objects' = Append(objects, Object(k, s, h))
  BY DEF RequestOverNull
<1>2. s \in 0..Len(streams) /\ h \in Types \cup {None} /\ k \in {"Request", "Response"}
  BY WholeFields
<1>3. \A c \in DOMAIN calls : Fresh(calls[c].stream) => calls[c].stream \notin X
  OBVIOUS
<1> HIDE DEF s, h, k
<1>4. /\ Onward /\ CallsCalm({}) /\ ObjectsCalm({}) /\ Len(streams') = Len(streams)
      /\ DOMAIN streams' = 1..Len(streams') /\ ~FreshAfter(s)
  BY <1>1, <1>2, Shared
<1>5. CallsCalm(X)
  BY <1>4
<1> HIDE DEF X
<1>6. CallsPart'
  BY <1>1, <1>3, <1>4, <1>5, CallsStill
<1>7. ObjectsPart'
  BY <1>1, <1>2, <1>4, ObjectsMore
<1>8. QED BY <1>4, <1>6, <1>7 DEF WholeInv, Onward

\* The call reads a stream that is not its own: the root is spoiled.
LEMMA WholeFetchNull ==
  ASSUME BodiesInv, WholeInv, NEW o \in DOMAIN objects, FetchNull(o)
  PROVE  WholeInv'
<1> DEFINE s == objects[o].body
           t == objects[o].list
           u == Visible(o)
           r == [Reading(0, s, t) EXCEPT !.shown = u]
           X == {}
<1>1. /\ s # 0 /\ streams' = Disturb(streams, s) /\ spoiled' = spoiled \cup {Roots[s]}
      /\ calls' = Append(calls, r) /\ objects' = objects
  BY DEF FetchNull
<1>2. /\ s \in 0..Len(streams) /\ t \in Types \cup {None} /\ u \in Types \cup {None} /\ s \in Nat
      /\ DOMAIN objects = 1..Len(objects)
      /\ \A p \in DOMAIN objects : objects[p].body_js \in 0..Len(streams)
  BY WholeFields
<1>3. \A c \in DOMAIN calls : Fresh(calls[c].stream) => calls[c].stream \notin X
  OBVIOUS
<1>4. r \in CallOf(1..Blocks) /\ r.stream = s /\ r.got = <<>> /\ (r.done <=> s = 0)
  <2> HIDE DEF s, t, u
  <2>1. QED BY <1>2, FetchMade
<1> HIDE DEF s, t, u, r
<1>5. /\ Onward /\ CallsCalm({}) /\ ObjectsCalm({}) /\ Len(streams') = Len(streams)
      /\ DOMAIN streams' = 1..Len(streams') /\ ~FreshAfter(s)
  BY <1>1, <1>2, Shared
<1>6. CallsCalm(X)
  BY <1>5
<1> HIDE DEF X
<1>7. CallsPart'
  <2>1. r.stream <= Len(streams') /\ (r.done <=> r.stream = 0) /\ ~FreshAfter(r.stream)
    BY <1>1, <1>2, <1>4, <1>5, WholeFields
  <2>2. QED BY <1>1, <1>3, <1>4, <1>5, <1>6, <2>1, CallsMore
<1>8. ObjectsPart'
  <2>1. DOMAIN objects' = DOMAIN objects
    BY <1>1
  <2>2. QED BY <1>1, <1>2, <1>5, <2>1, ObjectsStill
<1>9. QED BY <1>5, <1>7, <1>8 DEF WholeInv, Onward

-----------------------------------------------------------------------------
\* Before any object is made.
LEMMA WholeInit == Init => WholeInv
<1> SUFFICES ASSUME Init PROVE WholeInv
  OBVIOUS
<1>1. streams = <<>> /\ objects = <<>> /\ calls = <<>> /\ spoiled = {}
  BY DEF Init
<1>2. /\ DOMAIN streams = {} /\ DOMAIN objects = {} /\ DOMAIN calls = {}
      /\ Len(streams) = 0 /\ 1..0 = {}
  BY <1>1
<1>3. Tree(streams)
  BY <1>1, <1>2 DEF Tree
<1>4. CallsPart
  BY <1>1, <1>2 DEF CallsPart, CallsApart
<1>5. ObjectsPart
  BY <1>1, <1>2 DEF ObjectsPart, ObjectsApart
<1>6. QED BY <1>1, <1>3, <1>4, <1>5 DEF WholeInv

\* Every step preserves it.
LEMMA WholeStep == BodiesInv /\ WholeInv /\ [Next]_vars => WholeInv'
<1> SUFFICES ASSUME BodiesInv, WholeInv, [Next]_vars PROVE WholeInv'
  OBVIOUS
<1>1. CASE UNCHANGED vars
  BY <1>1, WholeEdit DEF vars
<1>2. ASSUME NEW k \in {"Request", "Response"}, NEW t \in Types, NewObject(k, t)
      PROVE  WholeInv'
  BY <1>2, WholeNewObject
<1>3. ASSUME NEW o \in DOMAIN objects, BodyGetter(o) PROVE WholeInv'
  <2>1. objects[o].body \in 0..Len(streams)
    BY WholeFields
  <2>2. /\ streams' = streams /\ calls' = calls /\ spoiled' = spoiled
        /\ objects' = [objects EXCEPT ![o].body_js = objects[o].body]
    BY <1>3 DEF BodyGetter
  <2> DEFINE b == objects[o].body
  <2>3. b \in 0..Len(streams) /\ objects' = [objects EXCEPT ![o].body_js = b]
    BY <2>1, <2>2
  <2> HIDE DEF b
  <2>4. QED BY <2>2, <2>3, WholeEdit
<1>4. ASSUME NEW o \in DOMAIN objects, GetReader(o) PROVE WholeInv'
  BY <1>4, WholeGetReader
<1>5. ASSUME NEW o \in DOMAIN objects, Clone(o) PROVE WholeInv'
  BY <1>5, WholeClone
<1>6. ASSUME NEW o \in DOMAIN objects, RequestFrom(o) PROVE WholeInv'
  <2> DEFINE h == objects[o].list
  <2>1. h \in Types \cup {None} /\ Extract(o, h)
    BY <1>6, WholeFields DEF RequestFrom
  <2> HIDE DEF h
  <2>2. QED BY <2>1, WholeExtract
<1>7. ASSUME NEW o \in DOMAIN objects, RequestWith(o) PROVE WholeInv'
  <2> DEFINE h == None
  <2>1. h \in Types \cup {None} /\ Extract(o, h)
    BY <1>7 DEF RequestWith
  <2> HIDE DEF h
  <2>2. QED BY <2>1, WholeExtract
<1>8. ASSUME NEW o \in DOMAIN objects, RequestFails(o) PROVE WholeInv'
  BY <1>8, WholeRequestFails
<1>9. ASSUME NEW o \in DOMAIN objects, RequestOverNull(o) PROVE WholeInv'
  BY <1>9, WholeRequestOverNull
<1>10. ASSUME NEW o \in DOMAIN objects, Fetch(o) PROVE WholeInv'
  BY <1>10, WholeFetch
<1>11. ASSUME NEW o \in DOMAIN objects, FetchNull(o) PROVE WholeInv'
  BY <1>11, WholeFetchNull
<1>12. ASSUME NEW o \in DOMAIN objects, NEW form \in BOOLEAN, Consume(o, form) PROVE WholeInv'
  BY <1>12, WholeConsume
<1>13. ASSUME NEW o \in DOMAIN objects, NEW t \in Types, SetHeader(o, t) PROVE WholeInv'
  BY <1>13, WholeEdit DEF SetHeader
<1>14. ASSUME NEW o \in DOMAIN objects, NEW t \in Types, RequestOver(o, t) PROVE WholeInv'
  BY <1>14, WholeRequestOver
<1>15. ASSUME NEW s \in DOMAIN streams, ReleaseLock(s) PROVE WholeInv'
  BY <1>15, WholeReleaseLock
<1>16. ASSUME NEW s \in DOMAIN streams, ReaderRead(s) PROVE WholeInv'
  BY <1>16, WholeReaderRead
<1>17. ASSUME NEW c \in DOMAIN calls, ConsumeStep(c) PROVE WholeInv'
  BY <1>17, WholeConsumeStep
<1>18. ASSUME NEW o \in DOMAIN objects, CancelBody(o) PROVE WholeInv'
  <2> DEFINE s == objects[o].body_js
             b == streams[s].locked
  <2>1. s # 0 /\ Cancel(s, b)
    BY <1>18 DEF CancelBody
  <2>2. s \in 1..Len(streams) /\ s \in DOMAIN streams
    BY <2>1, WholeFields
  <2>3. b \in BOOLEAN
    <3>1. streams[s] \in StreamOf(1..Blocks)
      BY <2>2 DEF WholeInv, Tree
    <3>2. QED BY <3>1 DEF StreamOf
  <2>4. b => streams[s].locked
    OBVIOUS
  <2> HIDE DEF s, b
  <2>5. QED BY <2>1, <2>2, <2>3, <2>4, WholeCancel
<1>19. ASSUME NEW s \in DOMAIN streams, CancelReader(s) PROVE WholeInv'
  <2> DEFINE b == FALSE
  <2>1. b \in BOOLEAN /\ (b => streams[s].locked) /\ Cancel(s, b)
    BY <1>19 DEF CancelReader
  <2> HIDE DEF b
  <2>2. QED BY <2>1, WholeCancel
<1>20. QED BY <1>1, <1>2, <1>3, <1>4, <1>5, <1>6, <1>7, <1>8, <1>9, <1>10, <1>11, <1>12,
              <1>13, <1>14, <1>15, <1>16, <1>17, <1>18, <1>19 DEF Next

\* What the invariant says of the fields that WholeBody's type part names.
LEMMA WholeTypes == BodiesInv /\ WholeInv => TypeOK
<1> SUFFICES ASSUME BodiesInv, WholeInv PROVE TypeOK
  OBVIOUS
<1>1. /\ DOMAIN streams = 1..Len(streams) /\ DOMAIN objects = 1..Len(objects)
      /\ DOMAIN calls = 1..Len(calls) /\ Len(streams) \in Nat
  BY WholeFields
<1>2. ASSUME NEW s \in DOMAIN streams
      PROVE  /\ streams[s].parent \in 0..(s - 1) /\ streams[s].given \in 0..Blocks
             /\ streams[s].buf \in Seq(1..Blocks)
             /\ {streams[s].disturbed, streams[s].locked, streams[s].reader, streams[s].cut} \subseteq BOOLEAN
  <2>1. /\ streams[s] \in StreamOf(1..Blocks) /\ streams[s].parent < s
        /\ streams[s].given <= Blocks /\ s \in Nat /\ Blocks \in Nat
    BY <1>1, WholeFields DEF WholeInv, Tree
  <2>2. /\ streams[s].parent \in Nat /\ streams[s].given \in Nat
        /\ streams[s].buf \in Seq(1..Blocks)
        /\ {streams[s].disturbed, streams[s].locked, streams[s].reader, streams[s].cut} \subseteq BOOLEAN
    BY <2>1 DEF StreamOf
  <2>3. streams[s].parent \in 0..(s - 1) /\ streams[s].given \in 0..Blocks
    BY <2>1, <2>2
  <2>4. QED BY <2>2, <2>3
<1>3. ASSUME NEW o \in DOMAIN objects
      PROVE  /\ {objects[o].body, objects[o].body_js} \subseteq 0..Len(streams)
             /\ {objects[o].list, objects[o].headers_js} \subseteq Types \cup {None}
  <2>1. objects[o].body \in 0..Len(streams) /\ objects[o].body_js \in 0..Len(streams)
    BY <1>1, WholeFields
  <2>2. objects[o] \in ObjectType
    BY DEF BodiesInv, ObjectsTyped
  <2>3. {objects[o].list, objects[o].headers_js} \subseteq Types \cup {None}
    BY <2>2 DEF ObjectType
  <2>4. QED BY <2>1, <2>3
<1>4. \A c \in DOMAIN calls : calls[c].stream \in 0..Len(streams) /\ calls[c].got \in Seq(1..Blocks)
  BY <1>1, WholeFields
<1>5. spoiled \subseteq DOMAIN streams
  BY DEF WholeInv
<1>6. QED BY <1>2, <1>3, <1>4, <1>5 DEF TypeOK

\* The trees of streams, with what the calls and the objects have of them, are as
\* WholeInv says after any number of steps.
THEOREM BodiesWhole == Spec => [](BodiesInv /\ WholeInv)
<1>1. Spec => []BodiesInv
  BY BodiesInvariant
<1>2. BodiesInv /\ WholeInv /\ [Next]_vars => WholeInv'
  BY WholeStep
<1>3. QED BY <1>1, <1>2, WholeInit, PTL DEF Spec

\* Every consumption that ends has the whole body, unless the script cancelled its
\* stream; and every body that is not yet used is whole and was not cancelled, however
\* often it was cloned or passed on and whichever branch is read or cancelled first,
\* but for trees in which the script went past the checks.
THEOREM BodiesStayWhole == Spec => []WholeBody
<1>1. BodiesInv /\ WholeInv => WholeBody
  <2> SUFFICES ASSUME BodiesInv, WholeInv PROVE WholeBody
    OBVIOUS
  <2>1. TypeOK
    BY WholeTypes
  <2>2. ASSUME NEW c \in DOMAIN calls, calls[c].stream # 0, Roots[calls[c].stream] \notin spoiled
        PROVE  /\ calls[c].got \o Remaining[calls[c].stream] = All
               /\ calls[c].done => calls[c].got = All \/ streams[calls[c].stream].cut
    BY <2>2 DEF WholeInv, CallsPart, CallWhole, Fresh
  <2>3. ASSUME NEW o \in DOMAIN objects, objects[o].body # 0, ~Used(o),
               Roots[objects[o].body] \notin spoiled
        PROVE  Remaining[objects[o].body] = All /\ ~streams[objects[o].body].cut
    <3>1. Remaining[objects[o].body] = All
      BY <2>3 DEF WholeInv, ObjectsPart, ObjectWhole, Fresh
    <3>2. ~streams[objects[o].body].disturbed
      BY <2>3 DEF Used
    <3>3. streams[objects[o].body] \in StreamOf(1..Blocks)
      <4>1. objects[o].body \in 1..Len(streams) /\ streams \in Seq(StreamOf(1..Blocks))
        BY <2>3, WholeFields DEF WholeInv, Tree
      <4>2. QED BY <4>1
    <3>4. QED BY <3>1, <3>2, <3>3 DEF StreamOf
  <2>4. QED BY <2>1, <2>2, <2>3 DEF WholeBody
<1>2. QED BY <1>1, BodiesWhole, PTL

==============================================================================

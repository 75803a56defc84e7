----------------------------- MODULE Combinators -----------------------------
(***************************************************************************)
(* The combinators of include/dart_cpp_bridge/stream.hpp, one at a time,   *)
(* over upstreams that yield the items of a sequence and then end: what    *)
(* next() keeps between two calls and across its suspensions. A next() may *)
(* be stopped while it waits for an upstream: its coroutine is destroyed   *)
(* and the combinator's own state stays as it is; a stopped upstream has   *)
(* not given its item, as recv() of a channel has not.                     *)
(***************************************************************************)
EXTENDS Integers, Sequences, SequencesExt

CONSTANTS Items,     \* of the upstreams: numbers
          Keep,      \* the items that the predicate f accepts
          MaxLen,    \* of an upstream
          Counts,    \* arguments of take and skip
          MaxStops   \* bounds the stopped calls

ASSUME CombinatorsAssumption ==
  Items \subseteq Int /\ Keep \subseteq Items /\ Counts \subseteq Nat /\ {MaxLen, MaxStops} \subseteq Nat

Kinds == {"map", "filter", "flat_map", "take", "skip", "take_while", "skip_while", "scan",
          "zip", "merge"}

Inputs == UNION {[1..n -> Items] : n \in 0..MaxLen}

VARIABLES
  kind, first, second, count,   \* the combinator, its upstreams, its argument
  pos,         \* how far each upstream has got
  current,     \* flat_map: the inner stream
  remaining,   \* take, skip
  flag,        \* skipped, done, ~skipping, ~pull_first: of the kind at hand
  acc,         \* scan
  pc,          \* "idle", or the upstream that next() awaits
  i, a,        \* locals of next(): items still to skip, the first half of a pair
  out, ended,  \* what next() returned so far
  stops

config == <<kind, first, second, count>>
vars   == <<config, pos, current, remaining, flag, acc, pc, i, a, out, ended, stops>>

Upstreams == {"first", "second", "current"}

Stream(u) == CASE u = "first" -> first [] u = "second" -> second [] OTHER -> current

\* The functions the scripts of this module pass: f doubles, or makes two items of one, or
\* adds.
Twice(x) == 2 * x
Two(x)   == <<x, 2 * x>>

Init ==
  /\ kind \in Kinds /\ first \in Inputs /\ count \in Counts
  /\ second \in (IF kind \in {"zip", "merge"} THEN Inputs ELSE {<<>>})
  /\ pos = [u \in Upstreams |-> 0] /\ current = <<>> /\ remaining = count
  /\ flag = FALSE /\ acc = 0 /\ pc = "idle" /\ i = 0 /\ a = 0
  /\ out = <<>> /\ ended = FALSE /\ stops = 0

-----------------------------------------------------------------------------
Await(u) == pc' = u /\ UNCHANGED <<out, ended>>
Yield(x) == pc' = "idle" /\ out' = Append(out, x) /\ UNCHANGED ended
End      == pc' = "idle" /\ ended' = TRUE /\ UNCHANGED out

Local == <<remaining, flag, i>>

\* Fault: merge begins with the same stream each time.
MutantNextMerge ==
  /\ kind = "merge" /\ Await("second") /\ UNCHANGED <<Local, current, pos, acc, a>>

\* merge: the streams take turns, the second one first.
NextMerge ==
  /\ kind = "merge" /\ flag' = ~flag
  /\ Await(IF flag' THEN "second" ELSE "first")
  /\ UNCHANGED <<remaining, i, current, pos, acc, a>>

NextTake ==
  /\ kind = "take"
  /\ IF remaining = 0 THEN End /\ UNCHANGED remaining
                      ELSE Await("first") /\ remaining' = remaining - 1
  /\ UNCHANGED <<flag, i, current, pos, acc, a>>

\* skip, skip_while: the flag is set before the first of the items to skip is awaited.
NextSkip ==
  /\ kind \in {"skip", "skip_while"} /\ flag' = TRUE
  /\ i' = IF flag THEN 0 ELSE IF kind = "skip" THEN remaining ELSE 1
  /\ Await("first") /\ UNCHANGED <<remaining, current, pos, acc, a>>

NextTakeWhile ==
  /\ kind = "take_while"
  /\ (IF flag THEN End ELSE Await("first")) /\ UNCHANGED <<Local, current, pos, acc, a>>

NextFlatMap ==
  /\ kind = "flat_map"
  /\ Await(IF flag THEN "current" ELSE "first") /\ UNCHANGED <<Local, current, pos, acc, a>>

NextPlain ==
  /\ kind \in {"map", "filter", "scan", "zip"}
  /\ Await("first") /\ UNCHANGED <<Local, current, pos, acc, a>>

\* A call of next(), by the consumer or by collect, for_each, first, count or fold; an ended
\* stream may be asked again.
CallNext ==
  /\ pc = "idle"
  /\ \/ NextMerge \/ NextTake \/ NextSkip \/ NextTakeWhile \/ NextFlatMap \/ NextPlain
  /\ UNCHANGED <<config, stops>>

-----------------------------------------------------------------------------
(* The awaited upstream has an item x.                                     *)

GotMap(x) ==
  kind = "map" /\ Yield(Twice(x)) /\ UNCHANGED <<Local, current, acc, a>>

GotFilter(x) ==
  /\ kind = "filter"
  /\ (IF x \in Keep THEN Yield(x) ELSE Await("first")) /\ UNCHANGED <<Local, current, acc, a>>

GotScan(x) ==
  kind = "scan" /\ acc' = acc + x /\ Yield(acc') /\ UNCHANGED <<Local, current, a>>

GotAsIs(x) ==
  kind \in {"take", "merge"} /\ Yield(x) /\ UNCHANGED <<Local, current, acc, a>>

GotSkip(x) ==
  /\ kind = "skip"
  /\ IF i > 0 THEN i' = i - 1 /\ Await("first") ELSE Yield(x) /\ UNCHANGED i
  /\ UNCHANGED <<remaining, flag, current, acc, a>>

GotSkipWhile(x) ==
  /\ kind = "skip_while"
  /\ (IF i > 0 /\ x \in Keep THEN Await("first") ELSE Yield(x))
  /\ UNCHANGED <<Local, current, acc, a>>

GotTakeWhile(x) ==
  /\ kind = "take_while"
  /\ IF x \in Keep THEN Yield(x) /\ UNCHANGED flag ELSE End /\ flag' = TRUE
  /\ UNCHANGED <<remaining, i, current, acc, a>>

GotZip(x) ==
  /\ kind = "zip"
  /\ IF pc = "first" THEN a' = x /\ Await("second") ELSE Yield(<<a, x>>) /\ UNCHANGED a
  /\ UNCHANGED <<Local, current, acc>>

\* The flag says that `current` is engaged.
GotFlatMap(x) ==
  /\ kind = "flat_map"
  /\ IF pc = "first" THEN current' = Two(x) /\ flag' = TRUE /\ Await("current")
                     ELSE Yield(x) /\ UNCHANGED <<current, flag>>
  /\ UNCHANGED <<remaining, i, acc, a>>

Value ==
  /\ pc # "idle" /\ pos[pc] < Len(Stream(pc))
  /\ LET x == Stream(pc)[pos[pc] + 1] IN
     \/ GotMap(x) \/ GotFilter(x) \/ GotScan(x) \/ GotAsIs(x) \/ GotSkip(x)
     \/ GotSkipWhile(x) \/ GotTakeWhile(x) \/ GotZip(x) \/ GotFlatMap(x)
  /\ pos' = IF kind = "flat_map" /\ pc = "first"
            THEN [pos EXCEPT !.first = @ + 1, !.current = 0] ELSE [pos EXCEPT ![pc] = @ + 1]
  /\ UNCHANGED <<config, stops>>

\* The awaited upstream has ended.
Over ==
  /\ pc # "idle" /\ pos[pc] = Len(Stream(pc))
  /\ \/ pc = "current" /\ flag' = FALSE /\ Await("first")
     \/ kind = "take_while" /\ flag' = TRUE /\ End
     \/ /\ kind = "merge" /\ UNCHANGED flag
        /\ IF pc = (IF flag THEN "second" ELSE "first")
           THEN Await(IF flag THEN "first" ELSE "second") ELSE End
     \/ /\ pc # "current" /\ kind \notin {"take_while", "merge"}
        /\ End /\ UNCHANGED flag
  /\ UNCHANGED <<config, pos, current, remaining, acc, i, a, stops>>

\* The awaiting next() is stopped.
Stop ==
  /\ pc # "idle" /\ stops < MaxStops /\ stops' = stops + 1
  /\ pc' = "idle"
  /\ UNCHANGED <<config, pos, current, remaining, flag, acc, i, a, out, ended>>

Next == CallNext \/ Value \/ Over \/ Stop

Spec == Init /\ [][Next]_vars

-----------------------------------------------------------------------------
(* What each combinator is for, on whole sequences.                        *)

Least(x, y) == IF x < y THEN x ELSE y

\* Length of the longest prefix of s all of which the predicate accepts.
Accepted(s) == CHOOSE n \in 0..Len(s) :
  (\A k \in 1..n : s[k] \in Keep) /\ (n < Len(s) => s[n + 1] \notin Keep)

\* Each item that the predicate accepts as a sequence of its own, the others as none.
Singles(s) == [k \in DOMAIN s |-> IF s[k] \in Keep THEN <<s[k]>> ELSE <<>>]

\* The sum of the first k items.
Sums(s) == LET sum[k \in 0..Len(s)] == IF k = 0 THEN 0 ELSE sum[k - 1] + s[k] IN sum

\* Items in turn, the second stream's first, until both are at their end.
Turns(s, t) ==
  LET n == Least(Len(s), Len(t)) IN
  FlattenSeq([k \in 1..n |-> <<t[k], s[k]>>])
    \o SubSeq(t, n + 1, Len(t)) \o SubSeq(s, n + 1, Len(s))

Reference ==
  CASE kind = "map"        -> [k \in DOMAIN first |-> Twice(first[k])]
    [] kind = "filter"     -> FlattenSeq(Singles(first))
    [] kind = "flat_map"   -> FlattenSeq([k \in DOMAIN first |-> Two(first[k])])
    [] kind = "take"       -> SubSeq(first, 1, Least(count, Len(first)))
    [] kind = "skip"       -> SubSeq(first, count + 1, Len(first))
    [] kind = "take_while" -> SubSeq(first, 1, Accepted(first))
    [] kind = "skip_while" -> SubSeq(first, Accepted(first) + 1, Len(first))
    [] kind = "scan"       -> [k \in DOMAIN first |-> Sums(first)[k]]
    [] kind = "zip"        -> [k \in 1..Least(Len(first), Len(second)) |-> <<first[k], second[k]>>]
    [] OTHER               -> Turns(first, second)

\* The calls of next(), however they are suspended, return what the combinator is for, and
\* an ended stream stays at its end.
PullsMatchReference ==
  stops = 0 => IsPrefix(out, Reference) /\ (ended => out = Reference)

\* A stopped next() loses nothing (map, filter, flat_map, take_while, scan), at most shortens
\* the stream (take), or leaves all the items to come (merge). skip, skip_while and zip do
\* not have this property: the items they skip, or the half of a pair, go with the coroutine.
StopIsHarmless ==
  /\ kind \in {"map", "filter", "flat_map", "take_while", "scan", "take"}
       => IsPrefix(out, Reference)
  /\ (ended /\ kind \in {"map", "filter", "flat_map", "take_while", "scan"}) => out = Reference
  /\ (ended /\ kind = "merge") => Len(out) = Len(first) + Len(second)

\* A combinator gives what its name says, pulled in any rhythm and stopped in between.
CombinatorsExact == PullsMatchReference /\ StopIsHarmless

=============================================================================

------------------------------ MODULE Headers -------------------------------
(***************************************************************************)
(* A Headers object and a script that iterates over it while it changes it *)
(* (include/qjsbind/web/headers.hpp). Names are normalised and valid: an   *)
(* operation that gets another throws before it does anything. A value is  *)
(* plain, or one that names a forbidden method.                            *)
(***************************************************************************)
EXTENDS Naturals, Sequences, FiniteSets, SequencesExt, Entries

CONSTANTS Keys,        \* header names, sorted
          Safelisted,  \* the names that guard request-no-cors lets through
          Override,    \* the names of method-override headers
          Cookie,      \* set-cookie
          ForbiddenResponse,  \* the names that guard response hides: it and set-cookie2
          Plain, Trace, \* values
          HeaderEdits

ASSUME HeadersAssumption ==
  /\ Keys \in Seq(ToSet(Keys)) /\ IsInjective(Keys)
  /\ Safelisted \cup Override \cup ForbiddenResponse \subseteq ToSet(Keys)
  /\ Cookie \in ForbiddenResponse
  /\ Plain # Trace /\ HeaderEdits \in Nat

VARIABLES headers, guard,
          at,        \* __i of the script's live iterator, 0 when there is none
          seen,      \* the names it has given
          constant,  \* the names that were there all the time since it was made
          removed,   \* a step of the script that took an entry out of the iteration
          headerEdits

headerVars == <<headers, guard, at, seen, constant, removed, headerEdits>>

Guards == {"none", "request", "request-no-cors", "response", "immutable"}

Header(n, v) == [name |-> n, value |-> v]

\* Mutant: set-cookie is joined like any other header.
MutantJoin(merged, e) ==
  IF merged # <<>> /\ Last(merged).name = e.name
  THEN [merged EXCEPT ![Len(merged)].value = Append(@, e.value)]
  ELSE Append(merged, Header(e.name, <<e.value>>))

\* An entry joins the one before it if that has its name; every set-cookie stays alone.
Join(merged, e) ==
  IF e.name # Cookie /\ merged # <<>> /\ Last(merged).name = e.name
  THEN [merged EXCEPT ![Len(merged)].value = Append(@, e.value)]
  ELSE Append(merged, Header(e.name, <<e.value>>))

\* Sorted by name, the values of one name joined.
sorted_entries(l) ==
  LET out == Sorted(l, Keys)
      merged[j \in 0..Len(out)] == IF j = 0 THEN <<>> ELSE Join(merged[j - 1], out[j])
  IN merged[Len(out)]

Hidden(n) == guard = "response" /\ n \in ForbiddenResponse

has(n) == ~Hidden(n) /\ Holds(headers, n)

\* The values that get() joins with commas, <<>> for null.
get(n) == IF Hidden(n) THEN <<>>
          ELSE LET found == Named(headers, n) IN [i \in DOMAIN found |-> found[i].value]

\* getSetCookie(): whatever the guard hides.
get_set_cookie == LET found == Named(headers, Cookie) IN [i \in DOMAIN found |-> found[i].value]

forbidden(n, v) ==
  \/ guard = "request" /\ n \in Override /\ v = Trace
  \/ guard = "request-no-cors" /\ n \notin Safelisted
  \/ Hidden(n)

HeadersInit ==
  /\ guard \in Guards
  /\ headers \in {<<>>} \cup {<<Header(n, Plain), Header(m, Plain)>> : n, m \in ToSet(Keys)}
  /\ at = 0 /\ seen = {} /\ constant = {} /\ removed = FALSE /\ headerEdits = 0

NamesOf(l) == {l[i].name : i \in DOMAIN l}

\* A change that the guard lets through; immutable objects throw.
HeadersTo(l, n, v) ==
  /\ headerEdits < HeaderEdits /\ headerEdits' = headerEdits + 1
  /\ guard # "immutable"
  /\ headers' = IF forbidden(n, v) THEN headers ELSE l
  /\ constant' = constant \cap NamesOf(headers')
  /\ removed' = (removed \/ Len(sorted_entries(headers')) < Len(sorted_entries(headers)))
  /\ UNCHANGED <<guard, at, seen>>

HeaderAppend(n, v) == HeadersTo(Append(headers, Header(n, v)), n, v)
HeaderSet(n, v)    == HeadersTo(Append(Without(headers, n), Header(n, v)), n, v)
HeaderErase(n)     == HeadersTo(Without(headers, n), n, Plain)

IterBegin ==
  /\ at = 0
  /\ at' = 1 /\ seen' = {} /\ constant' = NamesOf(headers) /\ removed' = FALSE
  /\ UNCHANGED <<headers, guard, headerEdits>>

\* next() asks for the entry at __i of the list as it is now (_entryAt), and moves on even
\* from a place past its end. Bound: one such call.
IterNext ==
  LET entries == sorted_entries(headers)
  IN /\ at \in 1..Len(entries) + 1
     /\ at' = at + 1
     /\ seen' = seen \cup {entries[i].name : i \in {at} \cap DOMAIN entries}
     /\ UNCHANGED <<headers, guard, constant, removed, headerEdits>>

HeadersNext ==
  \/ IterBegin \/ IterNext
  \/ \E n \in ToSet(Keys) :
       HeaderErase(n) \/ \E v \in {Plain, Trace} : HeaderAppend(n, v) \/ HeaderSet(n, v)

HeadersSpec == HeadersInit /\ [][HeadersNext]_headerVars

(***************************************************************************)
(* Properties.                                                             *)
(***************************************************************************)
\* The ways to read agree: iteration gives a name exactly when has() does, in order, once,
\* with the values that get() joins, and set-cookie as often as getSetCookie() and get()
\* have values of it. The names that guard response hides from has() and get(), and not
\* from iteration and getSetCookie(), set-cookie and set-cookie2, agree in those two only.
ReadersAgree ==
  LET entries == sorted_entries(headers)
  IN /\ \A n \in ToSet(Keys) \ {Cookie} : ~Hidden(n) =>
          /\ has(n) <=> Cardinality({i \in DOMAIN entries : entries[i].name = n}) = 1
          /\ has(n) => Header(n, get(n)) \in ToSet(entries)
     /\ Len(get_set_cookie) = Len(Named(entries, Cookie))
     /\ ~Hidden(Cookie) => Len(get(Cookie)) = Len(Named(entries, Cookie))

\* A live iteration that has come to its end has given every header that was there
\* all along, whatever was appended or overwritten between its steps; only removing
\* an entry can make it skip one.
IterationSkipsNothing ==
  at > Len(sorted_entries(headers)) /\ ~removed => constant \subseteq seen

\* However the list is appended to, set and erased, has(), get(), getSetCookie() and
\* iteration, also one under way, tell of the same headers, but for those that guard
\* response hides from the first two.
HeadersExact == ReadersAgree /\ IterationSkipsNothing

=============================================================================

------------------------------ MODULE Entries -------------------------------
(***************************************************************************)
(* The ordered lists of named entries behind URLSearchParams, FormData and *)
(* Headers: several entries may have one name, and their order counts.     *)
(***************************************************************************)
EXTENDS Naturals, Sequences, SequencesExt

\* The entries at the positions in S: SelectSeq as a recursive function, for the provers.
Chosen(l, S) ==
  LET upto[j \in 0..Len(l)] ==
        IF j = 0 THEN <<>> ELSE IF j \in S THEN Append(upto[j - 1], l[j]) ELSE upto[j - 1]
  IN upto[Len(l)]

Named(l, n)   == Chosen(l, {j \in DOMAIN l : l[j].name = n})
Without(l, n) == Chosen(l, {j \in DOMAIN l : l[j].name # n})
Holds(l, n)   == Named(l, n) # <<>>

\* The first entry of that name takes the new value, the others go.
Replaced(l, e) ==
  IF ~Holds(l, e.name) THEN Append(l, e)
  ELSE LET i == Min({j \in DOMAIN l : l[j].name = e.name})
       IN SubSeq(l, 1, i - 1) \o <<e>> \o Without(SubSeq(l, i + 1, Len(l)), e.name)

\* Stable: entries of one name keep their order. `order' lists the names.
Sorted(l, order) == FlattenSeq([i \in DOMAIN order |-> Named(l, order[i])])

\* The last text of l goes on with x.
Grown(l, x) == [l EXCEPT ![Len(l)] = Append(@, x)]

\* The pieces of s between the occurrences of sep.
Split(s, sep) ==
  LET cut[j \in 0..Len(s)] ==
        IF j = 0 THEN << <<>> >>
        ELSE IF s[j] = sep THEN Append(cut[j - 1], <<>>) ELSE Grown(cut[j - 1], s[j])
  IN cut[Len(s)]

\* Where pat first occurs in s at or after position i; 0 when it does not.
Find(s, pat, i) ==
  LET hits == {j \in i..(Len(s) + 1 - Len(pat)) : SubSeq(s, j, j + Len(pat) - 1) = pat}
  IN IF hits = {} THEN 0 ELSE Min(hits)

=============================================================================

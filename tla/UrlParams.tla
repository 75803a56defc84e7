----------------------------- MODULE UrlParams ------------------------------
(***************************************************************************)
(* A URL and the URLSearchParams object that its searchParams getter makes *)
(* (include/qjsbind/web/url.hpp, utf8.hpp). Each side writes its changes   *)
(* into the other: the URL keeps the percent-encoded query, the params the *)
(* decoded list. A text is a sequence of characters; the other parts of a  *)
(* URL are not touched by any of this and are left out.                    *)
(***************************************************************************)
EXTENDS Naturals, Sequences, SequencesExt, Entries

CONSTANTS Characters,  \* those of Hex, and others that percent_encode leaves as they are
          Names,    \* the names of parameters, in the order sort() gives them
          Values, Queries,
          UrlEdits  \* edits in one behaviour

VARIABLES query,         \* u.encoded_query(), <<>> when there is none
          params,        \* the list of the URLSearchParams object
          has_params,    \* ... once the getter has made it
          urlEdits

urlVars == <<query, params, has_params, urlEdits>>

\* The characters that are sent as %XX, and A, which a query may hold in that form.
Hex == [c \in {"space", "%", "&", "+", "=", "A"} |->
          CASE c = "space" -> <<"2", "0">> [] c = "%" -> <<"2", "5">> [] c = "&" -> <<"2", "6">>
            [] c = "+" -> <<"2", "B">> [] c = "=" -> <<"3", "D">> [] c = "A" -> <<"4", "1">>]

\* Mutant: a plus sign is not escaped.
Mutant_percent_encode(s) ==
  FlattenSeq([i \in DOMAIN s |->
    IF s[i] = "space" THEN <<"+">>
    ELSE IF s[i] \in DOMAIN Hex \ {"A", "+"} THEN <<"%">> \o Hex[s[i]] ELSE <<s[i]>>])

percent_encode(s) ==
  FlattenSeq([i \in DOMAIN s |->
    IF s[i] = "space" THEN <<"+">>
    ELSE IF s[i] \in DOMAIN Hex \ {"A"} THEN <<"%">> \o Hex[s[i]] ELSE <<s[i]>>])

\* A percent sign that no two digits follow stands for itself.
IsByte(s, i) == s[i] = "%" /\ i + 2 <= Len(s) /\ \E c \in DOMAIN Hex : Hex[c] = <<s[i + 1], s[i + 2]>>

\* What has been decoded when the loop comes to i, and how many characters it passes over.
DecodeAt(s, i, done) ==
  IF done.skip > 0 THEN [done EXCEPT !.skip = @ - 1]
  ELSE IF IsByte(s, i)
  THEN [out |-> Append(done.out, CHOOSE c \in DOMAIN Hex : Hex[c] = <<s[i + 1], s[i + 2]>>), skip |-> 2]
  ELSE [out |-> Append(done.out, IF s[i] = "+" THEN "space" ELSE s[i]), skip |-> 0]

percent_decode(s) ==
  LET done[i \in 0..Len(s)] ==
        IF i = 0 THEN [out |-> <<>>, skip |-> 0] ELSE DecodeAt(s, i, done[i - 1])
  IN done[Len(s)].out

Pair(n, v) == [name |-> n, value |-> v]

to_item(p) == percent_encode(p.name) \o <<"=">> \o percent_encode(p.value)

\* The items with ampersands between them.
form_encode(l) == FlattenSeq([k \in DOMAIN l |-> IF k > 1 THEN <<"&">> \o to_item(l[k]) ELSE to_item(l[k])])

\* A name, and what follows the first equals sign.
from_item(item) ==
  LET eq == Min({Len(item) + 1} \cup {k \in DOMAIN item : item[k] = "="})
  IN Pair(percent_decode(SubSeq(item, 1, eq - 1)), percent_decode(SubSeq(item, eq + 1, Len(item))))

\* Of the items between ampersands those that are not empty.
from_query(q) ==
  LET items == Split(q, "&")
      given == Chosen(items, {k \in DOMAIN items : items[k] # <<>>})
  IN [k \in DOMAIN given |-> from_item(given[k])]

ASSUME UrlAssumption ==
  /\ UrlEdits \in Nat
  /\ DOMAIN Hex \subseteq Characters
  /\ Names \in Seq(Seq(Characters)) /\ Values \cup Queries \subseteq Seq(Characters)
  /\ \A q \in Queries : \A i \in DOMAIN from_query(q) : from_query(q)[i].name \in ToSet(Names)

UrlInit == query \in Queries /\ params = <<>> /\ has_params = FALSE /\ urlEdits = 0

UrlEdit == urlEdits < UrlEdits /\ urlEdits' = urlEdits + 1

\* The getter makes the object once and hands it out again.
GetParams ==
  /\ ~has_params
  /\ has_params' = TRUE /\ params' = from_query(query)
  /\ UNCHANGED <<query, urlEdits>>

\* append, delete, set and sort; notify_change writes the URL's query.
ParamsTo(l) ==
  /\ UrlEdit /\ has_params
  /\ params' = l
  /\ query' = form_encode(l)
  /\ UNCHANGED has_params

ParamsAppend(n, v) == ParamsTo(Append(params, Pair(n, v)))
ParamsDelete(n)    == ParamsTo(Without(params, n))
ParamsSet(n, v)    == ParamsTo(Replaced(params, Pair(n, v)))
ParamsSort         == ParamsTo(Sorted(params, Names))

\* The setters of search and href; sync_search_params fills the object again. (A query with
\* a bare % is taken here too, where set_encoded_query throws and nothing changes.)
SetSearch(q) ==
  /\ UrlEdit
  /\ query' = q
  /\ params' = IF has_params THEN from_query(q) ELSE params
  /\ UNCHANGED has_params

UrlNext ==
  \/ GetParams \/ ParamsSort
  \/ \E n \in ToSet(Names) :
       \/ ParamsDelete(n)
       \/ \E v \in Values : ParamsAppend(n, v) \/ ParamsSet(n, v)
  \/ \E q \in Queries : SetSearch(q)

UrlSpec == UrlInit /\ [][UrlNext]_urlVars

(***************************************************************************)
(* Properties.                                                             *)
(***************************************************************************)
\* The object and the URL never disagree: decoding the URL's query gives the list,
\* whichever side was changed, in whatever order, and whatever the texts contain.
ParamsMatchUrl == has_params => from_query(query) = params

=============================================================================

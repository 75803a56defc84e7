----------------------------- MODULE Selection ------------------------------
(***************************************************************************)
(* HTML selection: CSS selectors on a document and the chains of calls a   *)
(* script makes on selections (include/qjsbind/cheerio/lexbor_match.hpp,   *)
(* lexbor_api.hpp). The document never changes; its nodes are numbered in  *)
(* document order, 1 is the document itself. Parsing HTML and selectors is *)
(* lexbor's; a selector is a list of chains of compounds, each a set of    *)
(* tests and the combinator to its left.                                   *)
(***************************************************************************)
EXTENDS Integers, Sequences, FiniteSets, FiniteSetsExt, SequencesExt

CONSTANTS Documents,  \* records: parent, a function on 2..n, and tag, on 1..n ("#text" for text)
          Selectors,  \* records: list, a sequence of chains; relative, scoped: how it is written
          MaxDepth,   \* of recursion, in match_chain and match_any_list
          MaxNodes    \* kMaxNodes: how many nodes one query visits

ASSUME SelectionAssumption ==
  /\ {MaxDepth, MaxNodes} \subseteq Nat
  /\ \A d \in Documents : \A n \in DOMAIN d.parent : d.parent[n] < n

VARIABLES doc,    \* the document that was loaded
          nodes   \* the selection at hand

selectionVars == <<doc, nodes>>

Nodes     == DOMAIN doc.tag
IsElement(n) == n # 1 /\ doc.tag[n] # "#text"
Elements  == {n \in Nodes : IsElement(n)}
Parent(n) == IF n = 1 THEN 0 ELSE doc.parent[n]

SortedSeq(S) == SetToSortSeq(S, LAMBDA m, n : m < n)

ChildNodes(n)  == SortedSeq({c \in Nodes : Parent(c) = n})
Before(n)      == {c \in Elements : Parent(c) = Parent(n) /\ c < n}   \* prev, prev, ...
After(n)       == {c \in Elements : Parent(c) = Parent(n) /\ c > n}   \* next, next, ...
OfType(S, n)   == {c \in S : doc.tag[c] = doc.tag[n]}

RECURSIVE Path(_)
\* A node, its parent, and so on up to the document.
Path(n) == IF n = 0 THEN <<>> ELSE <<n>> \o Path(Parent(n))

Ancestors(n) == ToSet(Path(n)) \ {n}

-----------------------------------------------------------------------------
(* Matching.                                                               *)

\* The quotient as C++ has it: rounded towards zero.
Quotient(x, y) == IF (x >= 0) = (y >= 0) THEN (IF x >= 0 THEN x ELSE -x) \div (IF y >= 0 THEN y ELSE -y)
                  ELSE -((IF x >= 0 THEN x ELSE -x) \div (IF y >= 0 THEN y ELSE -y))

c_anb_match(a, b, n) ==
  IF a = 0 THEN n = b ELSE LET m == Quotient(n - b, a) IN m >= 0 /\ a * m + b = n

Test(k)         == [kind |-> k, name |-> "", anb |-> <<0, 0>>, list |-> <<>>]
Tag(t)          == [Test("tag") EXCEPT !.name = t]
Nth(k, a, b)    == [Test(k) EXCEPT !.anb = <<a, b>>]
OfList(k, list) == [Test(k) EXCEPT !.list = list]

match_pseudo(t, el) ==
  CASE t.kind = "any"            -> TRUE
    [] t.kind = "tag"            -> doc.tag[el] = t.name
    [] t.kind = "first-child"    -> Before(el) = {}
    [] t.kind = "last-child"     -> After(el) = {}
    [] t.kind = "only-child"     -> Before(el) \cup After(el) = {}
    [] t.kind = "first-of-type"  -> OfType(Before(el), el) = {}
    [] t.kind = "last-of-type"   -> OfType(After(el), el) = {}
    [] t.kind = "only-of-type"   -> OfType(Before(el) \cup After(el), el) = {}
    [] t.kind = "empty"          -> ChildNodes(el) = <<>>
    [] t.kind = "root"           -> Parent(el) = 1
    [] t.kind = "nth-child"      -> c_anb_match(t.anb[1], t.anb[2], Cardinality(Before(el)) + 1)
    [] t.kind = "nth-last-child" -> c_anb_match(t.anb[1], t.anb[2], Cardinality(After(el)) + 1)
    [] t.kind = "nth-of-type"    -> c_anb_match(t.anb[1], t.anb[2], Cardinality(OfType(Before(el), el)) + 1)
    [] t.kind = "nth-last-of-type"
                                 -> c_anb_match(t.anb[1], t.anb[2], Cardinality(OfType(After(el), el)) + 1)

RECURSIVE match_chain(_, _, _, _, _), match_any_list(_, _, _, _), has_descendant_match(_, _, _, _)

match_simple(t, el, scope, depth) ==
  IF t.kind = "scope" THEN el = scope
  ELSE IF t.kind = "not" THEN ~match_any_list(t.list, el, scope, depth + 1)
  ELSE IF t.kind = "is" THEN match_any_list(t.list, el, scope, depth + 1)
  ELSE IF t.kind = "has" THEN has_descendant_match(t.list, el, scope, depth + 1)
  ELSE match_pseudo(t, el)

\* Fault: the first ancestor that matches decides (no way back).
Mutant_match_chain(c, k, el, scope, depth) ==
  /\ depth <= MaxDepth
  /\ \A t \in c[k].tests : match_simple(t, el, scope, depth)
  /\ k > 1 =>
       LET At(p) == match_chain(c, k - 1, p, scope, depth + 1)
           fits  == {p \in Ancestors(el) \ {1} : \A t \in c[k - 1].tests : match_simple(t, p, scope, depth)}
       IN CASE c[k].combinator = "descendant" -> fits # {} /\ At(SortedSeq(fits)[Cardinality(fits)])
            [] c[k].combinator = "child"      -> Parent(el) # 1 /\ At(Parent(el))
            [] c[k].combinator = "sibling"    -> Before(el) # {} /\ At(SortedSeq(Before(el))[Cardinality(Before(el))])
            [] c[k].combinator = "following"  -> \E p \in Before(el) : At(p)

\* Compound k of a chain, and what is to the left of it.
match_chain(c, k, el, scope, depth) ==
  /\ depth <= MaxDepth
  /\ \A t \in c[k].tests : match_simple(t, el, scope, depth)
  /\ k > 1 =>
       LET At(p) == match_chain(c, k - 1, p, scope, depth + 1)
       IN CASE c[k].combinator = "descendant" -> \E p \in Ancestors(el) \ {1} : At(p)
            [] c[k].combinator = "child"      -> Parent(el) # 1 /\ At(Parent(el))
            [] c[k].combinator = "sibling"    -> Before(el) # {} /\ At(SortedSeq(Before(el))[Cardinality(Before(el))])
            [] c[k].combinator = "following"  -> \E p \in Before(el) : At(p)

match_any_list(list, el, scope, depth) ==
  depth <= MaxDepth /\ \E j \in DOMAIN list : match_chain(list[j], Len(list[j]), el, scope, depth)

has_descendant_match(list, el, scope, depth) ==
  /\ depth <= MaxDepth
  /\ \E c \in Elements :
       /\ Parent(c) = el
       /\ match_any_list(list, c, scope, depth) \/ has_descendant_match(list, c, scope, depth + 1)

\* is(): a selector on one element, which is its own :scope.
c_matches(s, el) == match_any_list(s.list, el, el, 0)

RECURSIVE Walk(_, _)
\* Depth first from a stack, children pushed in reverse order; it stops without a word
\* when MaxNodes nodes have been visited.
Walk(stack, visited) ==
  IF stack = <<>> \/ visited = MaxNodes THEN <<>>
  ELSE LET n == Last(stack)
       IN <<n>> \o Walk(Front(stack) \o Reverse(ChildNodes(n)), visited + 1)

\* The root itself is not counted.
c_query_all(root, s, include_self, scope) ==
  SelectSeq((IF include_self THEN <<root>> ELSE <<>>) \o Walk(Reverse(ChildNodes(root)), 0),
            LAMBDA n : IsElement(n) /\ match_any_list(s.list, n, scope, 0))

-----------------------------------------------------------------------------
(* Selections.                                                             *)

\* -1, 0, 1: compares the children of the nearest common ancestor.
c_doc_order_cmp(m, n) ==
  LET pm == Reverse(Path(m))
      pn == Reverse(Path(n))
      common == {k \in DOMAIN pm \cap DOMAIN pn : \A j \in 1..k : pm[j] = pn[j]}
      k == Cardinality(common) + 1
  IN IF m = n THEN 0 ELSE IF k > Len(pm) THEN -1 ELSE IF k > Len(pn) THEN 1
     ELSE IF pn[k] \in {c \in Nodes : Parent(c) = Parent(pm[k]) /\ c < pm[k]} THEN 1 ELSE -1

c_remove_dups(s) == FoldLeft(LAMBDA out, n : IF Contains(out, n) THEN out ELSE Append(out, n), <<>>, s)

\* Fault: duplicates go, but nothing is sorted.
Mutant_c_unique_sort(s) == c_remove_dups(s)

c_unique_sort(s) == SetToSortSeq(ToSet(s), LAMBDA m, n : c_doc_order_cmp(m, n) < 0)

\* What each selected element contributes, in turn.
ForEach(Of(_)) == FlattenSeq([k \in DOMAIN nodes |-> Of(nodes[k])])

Kept(s, l) == SelectSeq(l, LAMBDA n : c_matches(s, n))

\* children, siblings, next and prev may be given a selector.
Filtered(l) == {l} \cup {Kept(s, l) : s \in Selectors}

Select(l) == nodes' = l /\ UNCHANGED doc

find(s, el) == c_query_all(IF s.relative THEN 1 ELSE el, s, s.scoped, el)

fn_api_call == \E s \in Selectors : Select(c_query_all(1, s, FALSE, 1))
fn_find     == \E s \in Selectors : Select(c_remove_dups(ForEach(LAMBDA el : find(s, el))))
fn_filter   == \E s \in Selectors : Select(Kept(s, nodes))
fn_has      == \E s \in Selectors : Select(SelectSeq(nodes, LAMBDA el : c_query_all(el, s, FALSE, el) # <<>>))

fn_closest ==
  \E s \in Selectors :
    Select(c_unique_sort(ForEach(LAMBDA el :
      LET up == SelectSeq(Path(el), LAMBDA p : p # 1 /\ c_matches(s, p))
      IN IF up = <<>> THEN <<>> ELSE <<Head(up)>>)))

fn_parent == Select(c_remove_dups(ForEach(LAMBDA el : IF Parent(el) = 1 THEN <<>> ELSE <<Parent(el)>>)))

fn_children ==
  \E l \in Filtered(ForEach(LAMBDA el : SelectSeq(ChildNodes(el), IsElement))) : Select(l)

fn_siblings ==
  \E l \in Filtered(ForEach(LAMBDA el : SortedSeq(Before(el) \cup After(el)))) : Select(c_unique_sort(l))

fn_next ==
  \E l \in Filtered(ForEach(LAMBDA el : IF After(el) = {} THEN <<>> ELSE <<SortedSeq(After(el))[1]>>)) : Select(l)

fn_prev ==
  \E l \in Filtered(ForEach(LAMBDA el :
      IF Before(el) = {} THEN <<>> ELSE <<SortedSeq(Before(el))[Cardinality(Before(el))]>>)) : Select(l)

\* slice(start, end), and first, last, eq and a callback's element, which are slices of one.
fn_slice ==
  \E start, end \in -Len(nodes)..Len(nodes) :
    LET From0(i) == IF i < 0 THEN Len(nodes) + i ELSE i
    IN Select(SubSeq(nodes, From0(start) + 1, From0(end)))

SelectionInit == doc \in Documents /\ nodes = <<>>

SelectionNext ==
  \/ fn_api_call \/ fn_find \/ fn_filter \/ fn_has \/ fn_closest \/ fn_parent
  \/ fn_children \/ fn_siblings \/ fn_next \/ fn_prev \/ fn_slice

-----------------------------------------------------------------------------
(* What a selector means.                                                  *)

Related(combinator, l, r) ==
  CASE combinator = "descendant" -> l \in Ancestors(r)
    [] combinator = "child"      -> l = Parent(r)
    [] combinator = "sibling"    -> l \in Before(r) /\ \A p \in Before(r) : p <= l
    [] combinator = "following"  -> l \in Before(r)

Below(el)    == {n \in Nodes : el \in Ancestors(n)}
Siblings(el) == {c \in Elements : Parent(c) = Parent(el)}
Typed(el)    == OfType(Siblings(el), el)
UpTo(S, el)  == {c \in S : c <= el}
From(S, el)  == {c \in S : c >= el}

\* an + b for some n of 0, 1, 2 ...
Numbered(anb, k) == \E n \in 0..(k + Max({anb[2], -anb[2]})) : anb[1] * n + anb[2] = k

RECURSIVE Means(_, _, _), Denotes(_, _, _)

\* An element of the list's chains that el is, without a word on how it is looked for.
Denoted(list, el, scope) == \E j \in DOMAIN list : Denotes(list[j], el, scope)

\* What a test says of an element.
Means(t, el, scope) ==
  CASE t.kind = "any"              -> TRUE
    [] t.kind = "scope"            -> el = scope
    [] t.kind = "tag"              -> doc.tag[el] = t.name
    [] t.kind = "not"              -> ~Denoted(t.list, el, scope)
    [] t.kind = "is"               -> Denoted(t.list, el, scope)
    [] t.kind = "has"              -> \E n \in Below(el) : IsElement(n) /\ Denoted(t.list, n, scope)
    [] t.kind = "empty"            -> Below(el) = {}
    [] t.kind = "root"             -> Ancestors(el) \cap Elements = {}
    [] t.kind = "first-child"      -> UpTo(Siblings(el), el) = {el}
    [] t.kind = "last-child"       -> From(Siblings(el), el) = {el}
    [] t.kind = "only-child"       -> Siblings(el) = {el}
    [] t.kind = "first-of-type"    -> UpTo(Typed(el), el) = {el}
    [] t.kind = "last-of-type"     -> From(Typed(el), el) = {el}
    [] t.kind = "only-of-type"     -> Typed(el) = {el}
    [] t.kind = "nth-child"        -> Numbered(t.anb, Cardinality(UpTo(Siblings(el), el)))
    [] t.kind = "nth-last-child"   -> Numbered(t.anb, Cardinality(From(Siblings(el), el)))
    [] t.kind = "nth-of-type"      -> Numbered(t.anb, Cardinality(UpTo(Typed(el), el)))
    [] t.kind = "nth-last-of-type" -> Numbered(t.anb, Cardinality(From(Typed(el), el)))

\* There is an element for each compound of the chain, and they stand as the combinators say.
Denotes(c, el, scope) ==
  \E f \in [DOMAIN c -> Elements] :
    /\ f[Len(c)] = el
    /\ \A k \in DOMAIN c : \A t \in c[k].tests : Means(t, f[k], scope)
    /\ \A k \in 2..Len(c) : Related(c[k].combinator, f[k - 1], f[k])

\* How many levels of elements are below el.
Height(el) == Max({0} \cup {Len(Path(n)) - Len(Path(el)) : n \in Below(el) \cap Elements})

RECURSIVE Depth(_)
\* How deep the recursion goes for a list of chains, anywhere in the document.
Depth(list) ==
  LET Of(t) == IF t.list = <<>> THEN 0
               ELSE Depth(t.list) + IF t.kind = "has" THEN Max({Height(el) : el \in Elements}) ELSE 1
  IN Max({0} \cup UNION {UNION {{Len(c) - k + Of(t) : t \in c[k].tests} : k \in DOMAIN c} : c \in ToSet(list)})

\* No test holds selectors of its own.
Flat(s) == \A c \in ToSet(s.list) : \A k \in DOMAIN c : \A t \in c[k].tests : t.list = <<>>

\* The first MaxNodes nodes below el, in document order.
Reached(el) == {n \in Below(el) : Cardinality(UpTo(Below(el), n)) <= MaxNodes}

(***************************************************************************)
(* Properties.                                                             *)
(***************************************************************************)
\* $(selector), and find(selector) from each element, give in document order and once each
\* exactly the elements that the selector denotes among the first MaxNodes nodes of where they
\* look, and has() finds one exactly if there is one: matching from the right, with its way
\* back, loses none and adds none. Those beyond are lost without a word, and only to these
\* three: :has() looks at every node. Selectors that take a recursion deeper than MaxDepth are
\* only ever refused (but for :not(), which then accepts).
\* (Depends on the document alone: checked before the first call.)
SelectorsMean ==
  nodes = <<>> => \A s \in Selectors :
    /\ \A el \in Elements \cup {1} :
         LET root  == IF s.relative THEN 1 ELSE el
             meant == {n \in Reached(root) \cup (IF s.scoped THEN {root} ELSE {}) :
                         IsElement(n) /\ Denoted(s.list, n, el)}
         IN /\ Depth(s.list) <= MaxDepth => find(s, el) = SortedSeq(meant)
            /\ Flat(s) => ToSet(find(s, el)) \subseteq meant
    /\ Flat(s) => \A el \in Elements :
         LET has       == OfList("has", s.list)
             by_call   == c_query_all(el, s, FALSE, el) # <<>>
             by_pseudo == match_simple(has, el, el, 0)
         IN /\ by_pseudo => Means(has, el, el)
            /\ Depth(s.list) + Height(el) <= MaxDepth => by_pseudo = Means(has, el, el)
            /\ Depth(s.list) <= MaxDepth =>
                 by_call = \E n \in Reached(el) : IsElement(n) /\ Denoted(s.list, n, el)

\* No chain of calls puts a node into a selection twice, and what closest() and siblings()
\* select is in document order whatever the order they start from.
SelectionsSound ==
  [][/\ IsInjective(nodes')
     /\ fn_closest \/ fn_siblings => nodes' = SortedSeq(ToSet(nodes'))]_selectionVars

=============================================================================

----------------------------- MODULE MCLibrary ------------------------------
(***************************************************************************)
(* The sender stream combinators, the web data types, abort signals and    *)
(* HTML selections, which share no state: a behaviour works on one of      *)
(* them, so that their state spaces add up and do not multiply.            *)
(***************************************************************************)
EXTENDS Combinators, UrlParams, Headers, Forms, Abort, Selection

CONSTANTS accept, xmethod, cookie, cookie2, c1, c2, d1, d2, l1

VARIABLE topic

libVars == <<vars, urlVars, headerVars, formVars, abortVars, selectionVars, topic>>

\* Combinators.
SomeItems  == 1..2
SomeKept   == {1}
SomeCounts == 0..2

\* UrlParams: names that need escaping, one that looks like an escape, and queries as an
\* address bar may hold them.
SomeCharacters == {"space", "%", "&", "+", "=", "A", "a", "1", "4"}
SomeNames   == << <<>>, <<"space">>, <<"%", "4", "1">>, <<"&">>, <<"A">>, <<"a">> >>
SomeValues  == {<<>>, <<"+">>, <<"=", "%">>}
SomeQueries == {<<>>, <<"a">>, <<"&", "a", "=", "%", "4", "1">>, <<"=">>, <<"+", "=", "a", "=", "%", "4">>}

\* Headers.
SomeKeys == <<accept, cookie, cookie2, xmethod>>

\* Forms: quotes, backslashes, line ends, dashes and a byte order mark.
SomeFields    == {<<"x">>, <<"quote", "\\">>, <<"file", "name=", "x">>, <<"name=">>}
SomeFileNames == {<<"quote", ";", "\\">>}
SomeTexts     == {<<>>, <<"BOM", "x">>, <<"crlf", "crlf", "--">>}

\* Selection: every tree of six nodes under one root element, with three ways to give the
\* nodes tags; a text has no children.
RECURSIVE Lineage(_, _)
Lineage(parent, n) == IF n = 1 THEN {} ELSE {n} \cup Lineage(parent, parent[n])

Trees == {p \in [2..6 -> 1..5] : p[2] = 1 /\ \A n \in 3..6 : p[n] \in Lineage(p, n - 1)}
TagRows == {<<"#document", "a", "a", "b", "a", "b">>, <<"#document", "a", "b", "#text", "a", "a">>,
            <<"#document", "b", "a", "a", "b", "#text">>}

SomeDocuments == {d \in [parent : Trees, tag : TagRows] : \A n \in 3..6 : d.tag[d.parent[n]] # "#text"}
Sole == [parent |-> <<>>, tag |-> <<"#document">>]

Whole(list)  == [list |-> list, relative |-> FALSE, scoped |-> FALSE]
Begins(t)    == [tests |-> {t}, combinator |-> "none"]
Then(c, t)   == [tests |-> {t}, combinator |-> c]
Any1         == Test("any")

SomeSelectors == {
  Whole(<< <<Begins(Tag("a"))>> >>),
  \* a:first-child > * b
  Whole(<< <<[tests |-> {Tag("a"), Test("first-child")}, combinator |-> "none"],
             Then("child", Any1), Then("descendant", Tag("b"))>> >>),
  \* b ~ * + a
  Whole(<< <<Begins(Tag("b")), Then("following", Any1), Then("sibling", Tag("a"))>> >>),
  \* a > :only-of-type :last-child, :root > :last-of-type
  Whole(<< <<Begins(Tag("a")), Then("child", Test("only-of-type")), Then("descendant", Test("last-child"))>>,
           <<Begins(Test("root")), Then("child", Test("last-of-type"))>> >>),
  \* :first-of-type :nth-child(-n+2), :nth-last-of-type(2n), :nth-of-type(2), :nth-last-child(3n+1)
  Whole(<< <<Begins(Test("first-of-type")), Then("descendant", Nth("nth-child", -1, 2))>>,
           <<Begins(Nth("nth-last-of-type", 2, 0))>>,
           <<Begins(Nth("nth-of-type", 0, 2)), Then("child", Nth("nth-last-child", 3, 1))>> >>),
  \* :not(a > *) > :has(:is(b))
  Whole(<< <<Begins(OfList("not", << <<Begins(Tag("a")), Then("child", Any1)>> >>)),
             Then("child", OfList("has", << <<Begins(OfList("is", << <<Begins(Tag("b"))>> >>))>> >>))>> >>),
  \* > a    ~ :empty    :scope :only-child
  [Whole(<< <<Begins(Test("scope")), Then("child", Tag("a"))>> >>) EXCEPT !.relative = TRUE],
  [Whole(<< <<Begins(Test("scope")), Then("following", Test("empty"))>> >>) EXCEPT !.relative = TRUE],
  [Whole(<< <<Begins(Test("scope")), Then("descendant", Test("only-child"))>> >>) EXCEPT !.scoped = TRUE],
  \* * * * * *
  Whole(<< <<Begins(Any1)>> \o [k \in 1..4 |-> Then("descendant", Any1)] >>) }

OnStreams == topic = "streams"
OnUrl     == topic = "url"
OnHeaders == topic = "headers"
OnForms   == topic = "forms"
OnAbort   == topic = "abort"
OnSelection == topic = "selection"

LibInit ==
  /\ topic \in {"streams", "url", "headers", "forms", "abort", "selection"}
  /\ OnStreams \/ (kind = "map" /\ first = <<>> /\ count = 0)
  /\ OnUrl     \/ query = <<>>
  /\ OnHeaders \/ (guard = "none" /\ headers = <<>>)
  /\ OnAbort   \/ aborted = {}
  /\ Init /\ UrlInit /\ HeadersInit /\ FormsInit /\ AbortInit
  /\ IF OnSelection THEN SelectionInit ELSE doc = Sole /\ nodes = <<>>

LibNext ==
  \/ OnStreams /\ Next /\ UNCHANGED <<urlVars, headerVars, formVars, abortVars, selectionVars, topic>>
  \/ OnUrl /\ UrlNext /\ UNCHANGED <<vars, headerVars, formVars, abortVars, selectionVars, topic>>
  \/ OnHeaders /\ HeadersNext /\ UNCHANGED <<vars, urlVars, formVars, abortVars, selectionVars, topic>>
  \/ OnForms /\ FormsNext /\ UNCHANGED <<vars, urlVars, headerVars, abortVars, selectionVars, topic>>
  \/ OnAbort /\ AbortNext /\ UNCHANGED <<vars, urlVars, headerVars, formVars, selectionVars, topic>>
  \/ OnSelection /\ SelectionNext /\ UNCHANGED <<vars, urlVars, headerVars, formVars, abortVars, topic>>

\* SelectorsMean, asked of the documents only.
SelectorsMeanIt == OnSelection => SelectorsMean

LibSpec == LibInit /\ [][LibNext]_libVars

=============================================================================

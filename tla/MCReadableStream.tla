-------------------------- MODULE MCReadableStream --------------------------
(* Small instances of ReadableStream.                                      *)
EXTENDS ReadableStream, TLC

CONSTANTS so, sa, sb, x1, x2, a1, a2, b1

TwoBranches == {sa, sb}

ReadsOf(S) == [r \in S |-> CASE r \in {x1, x2} -> so [] r \in {a1, a2} -> sa [] OTHER -> sb]

\* Two reads of the first stream and of branch sa, one of branch sb.
AllReads == {x1, x2, a1, a2, b1}
AllOf    == ReadsOf(AllReads)

\* One of each branch, as two text() calls make.
BothReads == {a1, b1}
BothOf    == ReadsOf(BothReads)

JustO  == {so}
Nobody == {}

=============================================================================

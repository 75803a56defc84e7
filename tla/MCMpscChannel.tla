--------------------------- MODULE MCMpscChannel ---------------------------
(* Small instances of MpscChannel.                                         *)
EXTENDS MpscChannel, TLC

CONSTANTS s1, s2, s3, r1, r2, p1

ThreeSends == {s1, s2, s3}
TwoSends   == {s1, s2}
TwoRecvs   == {r1, r2}
OneRecv    == {r1}
OnePoll    == {p1}
NoPoll     == {}
SendRecv   == {s1, r1}

\* The sends that can neither be stopped nor destroyed are interchangeable.
PlainSends == Permutations({s2, s3})

=============================================================================

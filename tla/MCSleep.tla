------------------------------ MODULE MCSleep ------------------------------
(* Small instances of Sleep.                                               *)
EXTENDS Sleep, TLC

CONSTANTS o1, o2, o3, t1, t2, io, own

TwoOps   == {o1, o2}
ThreeOps == {o1, o2, o3}
AllThreads == {t1, t2, io, own}

\* o1 sleeps on a thread of its own; o2 and o3 share an io_context run by two.
OwnAndShared == (o1 :> {t1}) @@ (o2 :> {t2, io}) @@ (o3 :> {t2, io})

TwoThreads == (o1 :> {t1}) @@ (o2 :> {t2})

\* A continuation may destroy its own sleep and those of lower rank.
Ranked == {<<o1, o1>>, <<o2, o1>>, <<o2, o2>>, <<o3, o1>>, <<o3, o2>>, <<o3, o3>>}

\* Two sleeps raced against each other: either continuation destroys the other.
EachOther == {<<o1, o2>>, <<o2, o1>>}

=============================================================================

----------------------------- MODULE MCOneshot -----------------------------
(* A small instance of Oneshot.                                            *)
EXTENDS Oneshot, TLC

CONSTANTS v1, v2

TwoValues == {v1, v2}

=============================================================================

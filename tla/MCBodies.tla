------------------------------ MODULE MCBodies ------------------------------
(* Values for model checking Bodies.                                       *)
EXTENDS Bodies

CONSTANT form
=============================================================================

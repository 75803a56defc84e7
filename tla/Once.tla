-------------------------------- MODULE Once --------------------------------
(***************************************************************************)
(* What a oneshot channel promises: one side decides an outcome, at most   *)
(* once, unless the other side gives up first; the other side sees that    *)
(* outcome, at most once, and no other.                                    *)
(***************************************************************************)
CONSTANTS Outcomes,                  \* what can be decided,
          Open, Abandoned, Nothing   \* and three values that are none of these

VARIABLES outcome, seen

Init == outcome = Open /\ seen = Nothing

Decide(o) == outcome = Open /\ outcome' = o /\ UNCHANGED seen

Abandon == outcome = Open /\ outcome' = Abandoned /\ UNCHANGED seen

See == /\ outcome \in Outcomes /\ seen = Nothing
       /\ seen' = outcome /\ UNCHANGED outcome

Next == (\E o \in Outcomes : Decide(o)) \/ Abandon \/ See

Spec == Init /\ [][Next]_<<outcome, seen>>

=============================================================================

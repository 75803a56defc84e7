---------------------------- MODULE MCEventLoop ----------------------------
(* Small instances of EventLoop.                                           *)
EXTENDS EventLoop

CONSTANTS r1, r2, t1, t2, k1, k2

One == {r1}

OneTimer  == {t1}
TwoTimers == {t1, t2}
OneTask   == {k1}
TwoTasks  == {k1, k2}
NoTask    == {}
NoTimer   == {}

AllR1(S)  == [x \in S |-> r1]
Timers1R1 == AllR1(OneTimer)
Timers2R1 == AllR1(TwoTimers)
Tasks1R1  == AllR1(OneTask)
Tasks2R1  == AllR1(TwoTasks)
Tasks0    == AllR1(NoTask)
Timers0   == AllR1(NoTimer)

\* t1 fires in the tick that schedules it, t2 in the next.
Delays1 == [t \in OneTimer |-> 1]
Delays2 == [t \in TwoTimers |-> IF t = t1 THEN 0 ELSE 1]
Delays0 == [t \in NoTimer |-> 0]

EvalOnly  == {"eval"}
Scheduled == {"eval", "job"}

=============================================================================

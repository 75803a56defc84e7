CONSTANTS
  r1 = r1 r2 = r2 t1 = t1 t2 = t2 k1 = k1 k2 = k2
  None = None
  Stop = Stop
  Runtimes <- One
  Timers <- TwoTimers
  Owner <- Timers2R1
  Delay <- Delays2
  Repeats <- OneTimer
  MaxTime = 1
  Tasks <- TwoTasks
  TaskOf <- Tasks2R1
  Rounds = 2
  MaxStops = 1
  MaxJobs = 1
  SpawnIn <- Scripts
  TimersIn <- Scripts
SPECIFICATION Spec
CHECK_DEADLOCK FALSE
INVARIANTS CountsExact InTurn RegisteredWillFire RoundLeavesNothing
PROPERTIES OneShotOnce

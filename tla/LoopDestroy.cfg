CONSTANTS
  r1 = r1 r2 = r2 t1 = t1 t2 = t2 k1 = k1 k2 = k2
  None = None
  Stop = Stop
  Runtimes <- One
  Timers <- NoTimer
  Owner <- Timers0
  Delay <- Delays0
  Repeats <- NoTimer
  MaxTime = 0
  Tasks <- OneTask
  TaskOf <- Tasks1R1
  Rounds = 2
  MaxStops = 0
  MaxJobs = 0
  SpawnIn <- EvalOnly
  TimersIn <- EvalOnly
SPECIFICATION FairSpec
CHECK_DEADLOCK FALSE
PROPERTIES ShutdownReturns

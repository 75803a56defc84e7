CONSTANTS
  o1 = o1 o2 = o2 o3 = o3 t1 = t1 t2 = t2 io = io own = own
  None = None
  Ops <- ThreeOps
  Threads <- AllThreads
  RunsOn <- OwnAndShared
  Destroys <- Ranked
SPECIFICATION FairSpec
INVARIANT CallbackSound
PROPERTIES NeverCompletesLate SleepSettles

CONSTANTS
  v1 = v1 v2 = v2
  Values <- TwoValues
  None = None
SPECIFICATION FairSpec
CHECK_DEADLOCK FALSE
INVARIANTS StateSound SendTellsTruth
PROPERTIES WaitEnds ImplementsOnce

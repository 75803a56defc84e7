CONSTANTS
  so = so sa = sa sb = sb
  x1 = x1 x2 = x2 a1 = a1 a2 = a2 b1 = b1
  Body = so
  Branches <- TwoBranches
  Reads <- AllReads
  StreamOf <- AllOf
  Locking <- JustO
  Blocks = 2
SPECIFICATION FairSpec
CHECK_DEADLOCK FALSE
INVARIANTS StreamSound EveryBlockOnce SourceFollowsBranches
PROPERTIES ReadsEnd

CONSTANTS
  s1 = s1 s2 = s2 s3 = s3 r1 = r1 r2 = r2 p1 = p1
  None = None
  Unbounded = Unbounded
  SendOps <- TwoSends
  RecvOps <- OneRecv
  Polls <- OnePoll
  Capacity = 0
  MaxSenders = 2
  Stoppable <- SendRecv
  Destroyable <- SendRecv
SPECIFICATION FairSpec
PROPERTIES ImplementsFifo StartedSettles

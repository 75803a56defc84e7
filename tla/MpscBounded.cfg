CONSTANTS
  s1 = s1 s2 = s2 s3 = s3 r1 = r1 r2 = r2 p1 = p1
  None = None
  Unbounded = Unbounded
  SendOps <- ThreeSends
  RecvOps <- TwoRecvs
  Polls <- NoPoll
  Capacity = 1
  MaxSenders = 1
  Stoppable <- SendRecv
  Destroyable <- SendRecv
SPECIFICATION Spec
INVARIANTS TypeOK NodesSound NoLostWakeup CompletedOnce TellsTruth
PROPERTY ImplementsFifo
SYMMETRY PlainSends

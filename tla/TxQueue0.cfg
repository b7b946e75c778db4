SPECIFICATION Spec
CONSTANTS
  Queue = 0
  NumTxPkts = 4
  DefragLimit = 2
  IfqMaxlen = 1
  LinkDrops = TRUE
  Nil = Nil
  p1 = p1
  p2 = p2
  p3 = p3
  Pkts <- MCPkts3
SYMMETRY MCSymmetry
VIEW MCView
INVARIANTS
  TypeOK
  IInv
  RingConsistent
  DmaMemoryKept
  StallIsNoticed
PROPERTIES
  KickIsSafe
  ImplementsPipe

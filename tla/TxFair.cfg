SPECIFICATION FairSpec
CONSTANTS
  Queue = 0
  NumTxPkts = 3
  DefragLimit = 1
  IfqMaxlen = 1
  LinkDrops = FALSE
  Nil = Nil
  p1 = p1
  p2 = p2
  p3 = p3
  Pkts <- MCPkts3
INVARIANT
  StartWillRun
PROPERTY
  ImplementsFairPipe

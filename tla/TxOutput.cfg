SPECIFICATION FairSpec
CONSTANTS
  Queue = 1
  NumTxPkts = 4
  DefragLimit = 2
  IfqMaxlen = 0
  LinkDrops = FALSE
  Nil = Nil
  p1 = p1
  p2 = p2
  p3 = p3
  Pkts <- MCPkts3
PROPERTY
  ImplementsFairPipe

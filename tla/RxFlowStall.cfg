SPECIFICATION Spec
CONSTANTS
  NumRxPkts = 3
  QueueMaxlen = 2
  FlowControl = TRUE
  MaxPulses = 1
  Nil = Nil
  f1 = f1
  f2 = f2
  f3 = f3
  f4 = f4
  f5 = f5
  f6 = f6
  Pkts <- MCFrames5
SYMMETRY MCSymmetry
INVARIANT
  FramesAreNoticed

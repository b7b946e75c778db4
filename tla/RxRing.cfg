SPECIFICATION Spec
CONSTANTS
  NumRxPkts = 4
  QueueMaxlen = 2
  FlowControl = TRUE
  MaxPulses = 2
  Nil = Nil
  f1 = f1
  f2 = f2
  f3 = f3
  f4 = f4
  f5 = f5
  f6 = f6
  Pkts <- MCFrames6
SYMMETRY MCSymmetry
CHECK_DEADLOCK FALSE
INVARIANTS
  TypeOK
  EngineBehindFrames
  StopIsNoticed
  QueueIsServed
  IInv
PROPERTIES
  KickIsSafe
  ImplementsPipe

SPECIFICATION Spec
CONSTANTS
  Thr = 2
  Lengths = {1, 2, 5, 7, 8, 10}
  CntMax = 7
  MaxPulses = 2
INVARIANTS
  TypeOK
  TransferIsWhole
  CallerOwnsBuffer
  RestartMeansHeld
  WaitIsAnswered

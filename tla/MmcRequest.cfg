SPECIFICATION FairSpec
CONSTANTS
  r1 = r1
  r2 = r2
  Req <- MCReq
  Uses <- MCUses
  None = None
  MaxDma = 2
  PwrRetry = 1
  StopRetries = 0
  MaxProbes = 1
INVARIANTS
  TypeOK
  GoodIsTrue
  NoRequestForgotten
PROPERTIES
  CardReadyForCommand
  EveryRequestIsAnswered
CHECK_DEADLOCK FALSE

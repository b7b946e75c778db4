SPECIFICATION Spec
CONSTANTS
  c1 = c1
  c2 = c2
  Clients <- MCClients
  Devices <- MCDevices
  NumCs = 1
  None = None
  Configs <- MCConfigs
  FirstCfg <- MCFirst
  MaxXlen = 2
  XferMax = 3
  MsgMax = 1
  Nil = Nil
SYMMETRY MCSymmetry
VIEW MCView
INVARIANTS
  TypeOK
  OneRecordPerDevice
  OwnersAreConnected
  BufferIsBacked
PROPERTIES
  LockedOutStaysOut
  ImplementsLocks
CHECK_DEADLOCK FALSE

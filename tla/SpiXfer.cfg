SPECIFICATION FairSpec
CONSTANTS
    Fifo = 2
    NumCs = 2
    Lengths = {0, 3, 4}
    MaxPulses = 1
INVARIANTS
    TypeOK
    ExchangeIsExact
    BufferFollowsWire
    NothingLeftOver
PROPERTIES
    EveryCallEnds
CHECK_DEADLOCK FALSE

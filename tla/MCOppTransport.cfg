CONSTANTS
    Interests <- OddData
    MaxPackets = 3
    MaxChannels = 3
SPECIFICATION FairSpec
INVARIANTS
    NoStall
    AttachedIffUp
    TransfersInOrder
    CalmTransfers
PROPERTIES
    RelaySpec
    EventuallySent
CHECK_DEADLOCK FALSE

CONSTANTS
    Interests <- OddData
    MaxPackets = 2
    MaxChannels = 2
SPECIFICATION Spec
INVARIANT AckNamesHead
CHECK_DEADLOCK FALSE

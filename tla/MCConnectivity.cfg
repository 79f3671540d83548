CONSTANTS
    Devices <- ThreeDevices
    Shows <- TheUpperTwo
    Blind <- TheHighest
    NoDevice = 0
    MaxJoins = 3
SPECIFICATION Spec
INVARIANTS
    SameViewSameOwner
    NoCrossing
    
    BlockedOnlyByLoss
CHECK_DEADLOCK FALSE

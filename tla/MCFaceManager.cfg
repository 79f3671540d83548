CONSTANTS
    Services = {s1, s2}
    Hosts = {h1, h2}
    OwnHost = own
    NoHost = none
    NoChannel = nochannel
    MaxQueue = 1
    MaxSessions = 2
SPECIFICATION FaceSpec
SYMMETRY Symmetry
INVARIANTS
    BooksAgree
    ChannelIffUp
    HeardWhenUp
PROPERTIES
    LossBringsDown
    ResolutionBringsUp
CHECK_DEADLOCK FALSE

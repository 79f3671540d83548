CONSTANTS
    Services = {s1, s2, s3}
    Hosts = {h1, own}
    OwnHost = own
    NoHost = none
    MaxQueue = 2
    MaxSessions = 2
SPECIFICATION NsdSpec
INVARIANTS
    NeverStuck
    OneResolution
PROPERTY EventuallyResolved
CHECK_DEADLOCK FALSE

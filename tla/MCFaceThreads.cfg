CONSTANTS
    Forwarders = {f1}
    Main = main
    Discovery = discovery
    Executor = executor
    MaxPackets = 3
    MaxChannels = 3
SPECIFICATION Spec
INVARIANTS
    SentIfUp
    AlwaysFound
CHECK_DEADLOCK FALSE

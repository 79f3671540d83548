CONSTANTS
    Forwarders = {f1, f2}
    Main = main
    Discovery = discovery
    Executor = executor
    MaxPackets = 2
    MaxChannels = 2
SPECIFICATION Spec
INVARIANT SentIfUp
CHECK_DEADLOCK FALSE

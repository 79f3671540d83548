CONSTANTS
    Callers = {c1}
    MaxStarts = 3
SPECIFICATION FairSpec
INVARIANTS
    
    RunsWhenStarted
    
    
    CallsSafe
PROPERTY StopEnds
CHECK_DEADLOCK FALSE

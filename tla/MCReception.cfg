CONSTANTS
    Addresses = {a1, a2}
    NoAddress = noaddress
    MaxHandlers = 3
    MaxInbox = 3
SPECIFICATION Spec
SYMMETRY Symmetry
INVARIANTS
    ListensInGroup
    NoStraySocket
    NoStaleAnnouncement
CHECK_DEADLOCK FALSE

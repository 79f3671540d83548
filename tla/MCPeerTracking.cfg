CONSTANTS
    Macs = {m1, m2, m3}
    Uuids = {u1, u2}
    NoUuid = nouuid
    NoMac = nomac
    MaxInbox = 4
SPECIFICATION Spec
SYMMETRY Symmetry
INVARIANTS
    EitherOrder
    
    SearchesWhenFree
    
PROPERTY NoGhosts

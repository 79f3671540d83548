CONSTANTS
    Components <- Letters
    TopPrefixes <- TwoTops
    Offers <- SomeOffers
    LastPart = 1
    Capacity = 3
    MaxPosts = 1
    MaxMade = 2
    MaxPending = 1
SPECIFICATION Spec
INVARIANTS
    
    AtMostOneHandler
    FiltersFollow
    NumberedInOrder
    
    OneFreshVersion
CHECK_DEADLOCK FALSE

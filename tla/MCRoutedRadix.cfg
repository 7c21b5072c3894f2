CONSTANTS
    radix = 2
    radix2 = 3
    InitDmns = {8}
    MaxDmns = 9
    MaxBatch = 2
    MaxEvents = 3
SPECIFICATION Spec
INVARIANTS
    DepartureBooksAgree
    LineageIsPathIndependent
    ListedChildrenAreMine
    RoutesReachTheirTarget
    ReleaseTreeSpansTheLiving

    
CHECK_DEADLOCK FALSE

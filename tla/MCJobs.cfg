CONSTANTS
    Parts = {"jl", "el", "ln", "sl", "se"}
    JlDaemons = {"D1"}
    JlHnp = "H"
    JlProcs = {"p0", "p1"}
    JlPlans <- MCJlPlans
    ElNodes = {"n1", "n2", "n3"}
    ElFirst = {"n1"}
    ElIds = {"r1", "r2", "j1", "j2"}
    ElPlans <- MCElPlans
    LnPlans <- MCLnPlans
    SlPlans <- MCSlPlans
    SlMaxTries = 1
    SePlans <- MCSePlans
    SeLongMax = 1000000000
SPECIFICATION JobsSpec
INVARIANTS
    JlSound
    DaemonsSound
    SlSound
    SeSound

    
    
CHECK_DEADLOCK FALSE

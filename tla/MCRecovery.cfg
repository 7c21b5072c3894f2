SPECIFICATION Spec
CONSTANTS
    n_dmns = 6
    radix = 2
    Mortal = {1, 3, 4}
    MaxCrashes = 2
INVARIANTS OnlyTheDeadAreBuried EveryDepartureReported 
 
CHECK_DEADLOCK FALSE

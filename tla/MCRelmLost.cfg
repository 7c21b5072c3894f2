SPECIFICATION Spec
CONSTANTS
    n_dmns = 4
    radix = 2
    MaxCacheCount = 1
    Mortal = {1}
    MaxCrashes = 1
    Flows <- DownFlow
    MaxMsgs = 2
    MaxExpiries = 0
    Workers = FALSE
INVARIANTS QuietMeansSettled
CHECK_DEADLOCK FALSE

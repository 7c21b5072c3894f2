SPECIFICATION Spec
CONSTANTS
    n_dmns = 4
    radix = 2
    MaxCacheCount = 1
    Mortal = {1}
    MaxCrashes = 1
    Flows <- UpFlow
    MaxMsgs = 2
    MaxExpiries = 0
    Workers = TRUE
PROPERTIES OnceAndInOrder
CHECK_DEADLOCK FALSE

SPECIFICATION Spec
CONSTANTS
    n_dmns = 5
    radix = 2
    MaxCacheCount = 1
    Mortal = {1, 2}
    MaxCrashes = 1
    Flows <- AcrossFlow
    MaxMsgs = 1
    MaxExpiries = 1
    Workers = FALSE
PROPERTIES AllSettle
CHECK_DEADLOCK FALSE

SPECIFICATION Spec
CONSTANTS
    n_dmns = 5
    radix = 2
    Mortal = {1, 2, 3}
    MaxCrashes = 1
    MaxXcasts = 1
    LostSends = TRUE
INVARIANTS CompletedMeansReceivedOrDropped
CHECK_DEADLOCK FALSE

SPECIFICATION Spec
CONSTANTS
    n_dmns = 6
    radix = 2
    Mortal = {1, 3}
    MaxCrashes = 1
    MaxXcasts = 1
    LostSends = TRUE
INVARIANTS OnceAndInOrder CompletedMeansReceived
PROPERTIES AllComplete
CHECK_DEADLOCK FALSE

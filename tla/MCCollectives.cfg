\* Four daemons in a binary tree: 1 is a relay between 0 and 3 and may crash;
\* its clients take part in some groups.
SPECIFICATION CollSpec
CONSTANTS
    n_dmns = 4
    radix = 2
    Mortal = {1}
    MaxCrashes = 1
    Members = {0, 3}
    Late = {}
    Asks <- MCAsks
    Timed <- MCTimed
    MaxRounds = 2
    Plans <- MCPlans
INVARIANTS
    
    AnsweredOnce
    
PROPERTY EveryCollectiveEnds
CHECK_DEADLOCK FALSE

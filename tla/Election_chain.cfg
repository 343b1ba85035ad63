SPECIFICATION EarlyFairSpec
CONSTANTS
    Site = {1, 2, 3, 4}
    Neighbours <- Chain
    Clicks <- LastTwice
INVARIANTS
    TypeOK
PROPERTIES
    ElectionConcludes
CHECK_DEADLOCK FALSE

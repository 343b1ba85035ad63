SPECIFICATION EarlySpec
CONSTANTS
    Site = {1, 2, 3, 4}
    Neighbours <- Kite
    Clicks <- TwoCandidates
INVARIANTS
    OneHolder
CHECK_DEADLOCK FALSE

SPECIFICATION EarlySpec
CONSTANTS
    Site = {1, 2, 3}
    Neighbours <- Triangle
    Clicks <- OneEach
INVARIANTS
    OneHolder
PROPERTIES
    ElectedByAll
CHECK_DEADLOCK FALSE

SPECIFICATION FairSpec
CONSTANTS
    Site = {1, 2, 3}
    Neighbours <- Chain
    Quota <- LastSends
    Clicks <- OthersClick
INVARIANTS
    TypeOK
    ExportsAreCuts
    OneExportPerClick
PROPERTIES
    UndisturbedEnds
CHECK_DEADLOCK FALSE

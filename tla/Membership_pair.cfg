SPECIFICATION MemberFairSpec
CONSTANTS
    Site = {1, 2, 3, 4}
    Newcomer = {3, 4}
    Neighbours <- Pair
    Layout <- PairLayout
    Plan <- OneEach
    Clicks <- NoClicks
INVARIANTS
    MemberTypeOK
    LeaversStored
    DirectoriesAgree
    CountsMatchLinks
    StayConnected
    NobodyForgotten
PROPERTIES
    SomebodyServed
CHECK_DEADLOCK FALSE

SPECIFICATION FairSpec
CONSTANTS
    Site = {1, 2, 3, 4}
    Neighbours <- Kite
    Quota <- OneAndOne
INVARIANTS
    TypeOK
    CausalDelivery
    NoTwinsOnLink
PROPERTIES
    EveryoneHears
    FloodsDieOut
CHECK_DEADLOCK FALSE

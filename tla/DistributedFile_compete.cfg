SPECIFICATION FairSpec
CONSTANTS
    N = 3
    Task = {a, b}
    a = a
    b = b
    c = c
    SiteOf <- TwoOfThree
    UiRequests <- NoClick
INVARIANTS
    TypeOK
    Mutex
    EntrySeesPublished
    NoFactLost
PROPERTIES
    RefinesSharedRegister
    SomebodyEnters
    GrantedUnlessStopped
CHECK_DEADLOCK FALSE

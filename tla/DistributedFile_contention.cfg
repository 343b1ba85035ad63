SPECIFICATION FairSpec
CONSTANTS
    N = 2
    Task = {a, b}
    a = a
    b = b
    c = c
    SiteOf <- OneEach2
    UiRequests <- NoClick
PROPERTIES
    RegistersSynchronized
CHECK_DEADLOCK FALSE

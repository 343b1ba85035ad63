SPECIFICATION Spec
CONSTANTS
    N = 2
    Task = {a, b, c}
    a = a
    b = b
    c = c
    SiteOf <- TwoAndOne
    UiRequests <- NoClick
INVARIANTS
    SitesExclude
CHECK_DEADLOCK FALSE

SPECIFICATION Spec
CONSTANTS
    N = 2
    Task = {a, b}
    a = a
    b = b
    c = c
    SiteOf <- SameSite
    UiRequests <- ClickEach
INVARIANTS
    GrantExclusion
    RequestsAnnounced
PROPERTIES
    DatesNeverGoBack
CHECK_DEADLOCK FALSE

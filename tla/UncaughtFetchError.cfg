CONSTANTS
    l1 = l1  l2 = l2  l3 = l3
    k1 = k1  k2 = k2
    Startup = Startup
    NoTask = NoTask
    Lookups <- OneLookup
    Kids <- TwoKids
    CacheTTL = 3
    MinRefreshInterval = 2
    Prefetch = TRUE
    ReplyKinds = {"ok", "failed", "raises"}
    MaxClock = 5
SPECIFICATION Spec
PROPERTIES
    FailedFetchesAreHarmless

CONSTANTS
    l1 = l1  l2 = l2  l3 = l3
    k1 = k1  k2 = k2
    Startup = Startup
    NoTask = NoTask
    Lookups <- TwoLookups
    Kids <- TwoKids
    CacheTTL = 1
    MinRefreshInterval = 1
    Prefetch = TRUE
    ReplyKinds = {"ok", "failed", "raises"}
    MaxClock = 1
SPECIFICATION FairSpec
PROPERTIES
    LookupsAnswered
    KeepsPolicy

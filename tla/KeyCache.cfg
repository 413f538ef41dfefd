CONSTANTS
    l1 = l1  l2 = l2  l3 = l3
    k1 = k1  k2 = k2
    Startup = Startup
    NoTask = NoTask
    Lookups <- TwoLookups
    Kids <- TwoKids
    CacheTTL = 3
    MinRefreshInterval = 2
    Prefetch = FALSE
    ReplyKinds = {"ok", "failed", "raises"}
    MaxClock = 4
SPECIFICATION HistorySpec
SYMMETRY Symmetry
INVARIANTS
    TypeOK
    OneFetchAtATime
PROPERTIES
    FetchesSpaced
    CachedKeysWork
    UnknownKeysAreNew
    StaleKeysOnlyUnderRefresh
    RetriesAskAgain

SPECIFICATION FairSpec
CONSTANTS
    Nobody = Nobody
    Client = {c1, c2, c3}
    Stoppers = {c1, c2, c3}
    StartFirst = FALSE
    MaxBrowsers = 2
    MaxContexts = 1
    MaxFailures = 2
PROPERTIES
    PoolIsBounded
    AcquireReturns
CHECK_DEADLOCK FALSE

SPECIFICATION FairSpec
CONSTANTS
    Nobody = Nobody
    Client = {c1, c2}
    Stoppers = {c2}
    StartFirst = FALSE
    MaxBrowsers = 1
    MaxContexts = 1
    MaxFailures = 0
PROPERTIES
    ShutdownReturns
CHECK_DEADLOCK FALSE

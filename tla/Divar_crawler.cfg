SPECIFICATION DivarSpec
CONSTANTS
    p1 = p1
    x1 = x1
    x2 = x2
    y1 = y1
    y2 = y2
    Process = {p1}
    Caller = {x1, x2}
    Home <- MCHome
    Redis = redis
    Requests = {2}
    Capacity = 2
    Rate = 1
    Ttl = 3
    MaxSkew = 1
    MaxDelay = 0
    MaxTime = 4
    MaxRewound = 1
    MaxRestarts = 1
    Manager = {x1, x2}
    Profile = {y1, y2}
    Best = 4
    Gain = 1
    Loss = 2
    Limit = 1
    Cooldown = 1
    MaxNow = 2
    MaxReports = 3
    Pipeline = {x1, x2}
    Ad = {y1, y2}
    MaxRuns = 2
    Run = {r1, r2}
    Url = {y1, y2}
    Worker = {x1, x2}
    NoRun = norun
    MaxFailures = 2
    Fetcher = {x1, x2}
    Proxy = {y1, y2}
    NoProxy = NoProxy
    CooldownLength = 1
    MaxClock = 3
    MaxSignals = 3
    Id = {e1, e2, e3}
    Payload = {y1, y2}
    Corrupt = Corrupt
    Undecodable = Undecodable
    NoState = NoState
    MaxLines = 3
    MaxCrashes = 2
SYMMETRY Symmetry
INVARIANTS
    HandedOutIsFit
    ExportTellsRun
    DiscoveredIsResumable
    LossCostsCrash
PROPERTIES
    LimiterIsFair
    TrafficIsGuarded
    RecoveryIsFaithful
CHECK_DEADLOCK FALSE

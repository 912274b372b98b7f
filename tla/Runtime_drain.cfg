SPECIFICATION RuntimeSpec
CONSTANTS
    Nobody = Nobody
    Job = {j1, j2}
    Worker = {w1}
    Subscribed = {"jobs", "retry"}
    Drainers = {w1}
    MaxAttempts = 2
    MaxFaults = 1
    MaxLimited = 1
    Resolution = {a1, a2}
    MaxRetry = 2
    Timeout = 1
    CacheTtl = 2
    Degraded = TRUE
    MaxVersion = 2
    MaxSeconds = 12
    Runtime = {r1, r2}
    Thread = {h1, h2}
    Metric = {m1, m2}
    MaxCounts = 3
    Task = {t1, t2, t3, t4}
    Idle = Idle
    Tries = 2
    Flawed = {t3}
    Garbled = {t4}
    MaxErrors = 2
INVARIANTS
    CommittedIsAccounted
    CredentialsAreFresh
    ProbesAreHonest
    WorkIsAccounted
PROPERTIES
    DeliverySpec
CHECK_DEADLOCK FALSE

SPECIFICATION CoordinationSpec
CONSTANTS
    j1 = j1
    j2 = j2
    NoJob = NoJob
    Job = {j1, j2}
    Worker = {w1, w2}
    Priority <- UrgentJ1
    MaxFaults = 2
    NoLease = NoLease
    Candidate = {p1, p2}
    Lease = {l1, l2, l3}
    LeaseTtl = 3
    MaxDeaths = 1
    Query = {q1, q2}
    Business = {b1, b2}
    MaxRetries = 2
    BatchLimit = 1
    MaxCrashes = 2
INVARIANTS
    WorkerSafety
    LeaseSafety
    ResumeIsBounded
    BacklogIsSafe
PROPERTIES
    OutcomesAreSound
    JobsFinish
    LeadershipMoves
    SettledIsFinal
    HarvestEnds
CHECK_DEADLOCK FALSE

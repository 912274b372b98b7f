SPECIFICATION PlatformSpec
CONSTANTS
    Node = {n1, n2}
    Partition = {s1, s2, s3}
    Unowned = Unowned
    MinReplicas = 1
    MaxReplicas = 3
    QueueTarget = 2
    NodeCapacity = 1
    Depths <- MCDepths
    FirstReplicas <- MCFirstReplicas
    MaxChanges = 2
    Harvester = {h1, h2}
    Syncer = {p1}
    MaxLeads = 2
    RetryLimit = 1
    CrawlLimit = 1
    SyncLimit = 2
    WithSite = {1}
    Refused = {1}
    MaxFaults = 1
INVARIANTS
    PlansAreSafe
PROPERTIES
    FleetSettles
    SyncIsHonest
    LeadsArrive
CHECK_DEADLOCK FALSE

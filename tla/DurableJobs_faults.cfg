SPECIFICATION FairSpec
CONSTANTS
    Nobody = Nobody
    Job = {j1}
    Worker = {w1, w2}
    Subscribed = {"jobs", "retry"}
    Drainers = {w1}
    MaxAttempts = 2
    MaxFaults = 2
    MaxLimited = 1
INVARIANTS
    JobsAreKept
    RerunsCostFaults
    DeadLettersAreJustified
PROPERTIES
    JobsAreTaken
CHECK_DEADLOCK FALSE

SPECIFICATION FairSpec
CONSTANTS
    Nobody = Nobody
    Job = {j1, j2}
    Worker = {w1}
    Subscribed = {"jobs"}
    Drainers = {}
    MaxAttempts = 2
    MaxFaults = 0
    MaxLimited = 0
PROPERTIES
    JobsAreSettled
CHECK_DEADLOCK FALSE

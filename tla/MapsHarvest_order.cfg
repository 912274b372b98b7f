SPECIFICATION HarvestSpec
CONSTANTS
    Query = {q1, q2, q3}
    Business = {b1}
    MaxRetries = 3
    BatchLimit = 1
    MaxCrashes = 1
INVARIANTS
    HarvestIsComplete

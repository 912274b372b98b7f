SPECIFICATION LeaseSpec
CONSTANTS
    NoLease = NoLease
    Candidate = {p1, p2}
    Lease = {l1, l2, l3}
    LeaseTtl = 3
    MaxDeaths = 0
INVARIANTS
    LeaseIsKeptAlive
CHECK_DEADLOCK FALSE

SPECIFICATION FairSpec
CONSTANTS
    a1 = a1
    a2 = a2
    Requests = {r1, r2}
    Approvals <- OneApproval
    ApprovalOf <- AllClickOne
    HasQty <- OneApproval
    Actions = {"reject"}
    TTL = 3
    Latency = 1
    MaxTime = 5
    MaxEpoch = 0
    Faults = {}
INVARIANT AtMostOnePosition
INVARIANT EveryOutcomeAudited
PROPERTY PositionsBooked
CHECK_DEADLOCK FALSE

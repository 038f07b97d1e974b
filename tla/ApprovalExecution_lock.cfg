SPECIFICATION Spec
CONSTANTS
    a1 = a1
    a2 = a2
    Requests = {r1}
    Approvals <- OneApproval
    ApprovalOf <- AllClickOne
    HasQty <- OneApproval
    Actions = {"reject"}
    TTL = 2
    Latency = 1
    MaxTime = 2
    MaxEpoch = 0
    Faults = {}
PROPERTY LockStopsEntries
CHECK_DEADLOCK FALSE

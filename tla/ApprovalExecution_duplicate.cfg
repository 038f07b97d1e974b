SPECIFICATION Spec
CONSTANTS
    a1 = a1
    a2 = a2
    Requests = {r1, r2}
    Approvals <- OneApproval
    ApprovalOf <- AllClickOne
    HasQty <- OneApproval
    Actions = {"reject"}
    TTL = 2
    Latency = 1
    MaxTime = 3
    MaxEpoch = 0
    Faults = {"reply"}
INVARIANT AcceptedNotResent
CHECK_DEADLOCK FALSE

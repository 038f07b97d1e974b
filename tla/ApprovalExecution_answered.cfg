SPECIFICATION FairSpec
CONSTANTS
    a1 = a1
    a2 = a2
    Requests = {r1, r2}
    Approvals <- TwoApprovals
    ApprovalOf <- OneEach
    HasQty <- OneApproval
    Actions = {}
    TTL = 2
    Latency = 1
    MaxTime = 2
    MaxEpoch = 0
    Faults = {"reply", "store"}
PROPERTY ClicksAnswered
CHECK_DEADLOCK FALSE

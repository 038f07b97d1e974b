SPECIFICATION Spec
CONSTANTS
    a1 = a1
    a2 = a2
    Requests = {r1, r2}
    Approvals <- OneApproval
    ApprovalOf <- AllClickOne
    HasQty <- OneApproval
    Actions = {"reject"}
    TTL = 2
    Latency = 1
    MaxTime = 2
    MaxEpoch = 1
    Faults = {"crash", "store", "factory", "reply", "slow"}
SYMMETRY Clicks
INVARIANT SendsSpaced
INVARIANT BooksBacked
INVARIANT ExecutedIsBooked
INVARIANT SendsSawOpenGate
INVARIANT IInv
PROPERTY DecisionFinal
PROPERTY ImplementsLedger
CHECK_DEADLOCK FALSE

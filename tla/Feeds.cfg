SPECIFICATION MCSpec
CONSTANTS
    btc = btc
    eth = eth
    c1 = c1
    c2 = c2
    c3 = c3
    c4 = c4
    c5 = c5
    Symbols <- MCSymbols
    Plans <- MCPlans
    MaxStrategies = 2
    MaxRounds = 2
    MaxCrashes = 1
    Callers <- MCSymbols
    Batches <- MCBatches
    Stream = Stream
    Book = Book
    Cap = 2
    MaxBatch = 2
    MaxConnections <- MCConnections
    None = None
    Texts <- MCTexts
    MaxDeliveries = 2
    MaxIngestRuns = 2
    Nothing = Nothing
    Approvals = {"a1", "a2"}
    Positions = {"p1"}
    MaxClicks = 3
INVARIANTS
    FeedsTypeOK
    StoredAsReported
    SubscriptionsCounted
    ClosedIsQuiet
    HandedOnce
PROPERTIES
    EndsWhenTold
    ImplementsQueue
    DecidedAsClicked
CHECK_DEADLOCK FALSE

SPECIFICATION MCSpec
CONSTANTS
    Requests = {1, 2, 3}
    Accounts = {"ana"}
    Externals = {"ext"}
    StrategyKeys <- MCKeys
    FeeRows = 2
    People = {"ana", "bo"}
    NotUuid = "not_uuid"
    SessionTtl = 2
    LaunchTtl = 1
    MaxTime = 4
    MaxTokens = 2
    NoCookie = NoCookie
    Visits = {1, 2}
INVARIANTS
    DeskTypeOK
    TablesWhole
    SessionBounded
    EveryClientClosed
PROPERTIES
    AtomicAccounts
CHECK_DEADLOCK FALSE

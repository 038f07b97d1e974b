SPECIFICATION Spec
CONSTANTS
    Signals <- SomeSignals
    Entries = {e1, e2, e3, e4}
    Modes = {"paper", "semi_auto"}
    Profile <- SmallProfile
    Costs <- SomeCosts
    MMR = 50
    TTL = 2
    Equity = 100
    Results <- SomeResults
    Pending = 2
    MaxEquity = 105
    MaxTime = 2
    None = None
SYMMETRY Positions
INVARIANTS
    TypeOK
    EntriesBounded
    LossesBounded
    ExposureBounded
    KeyHeldByApproval

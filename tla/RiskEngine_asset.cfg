SPECIFICATION Spec
CONSTANTS
    Signals <- SomeSignals
    Entries = {e1, e2}
    Modes = {"paper", "semi_auto"}
    Profile <- RoomyProfile
    Costs <- SomeCosts
    MMR = 50
    TTL = 2
    Equity = 100
    Results <- SomeResults
    Pending = 1
    MaxEquity = 105
    MaxTime = 2
    None = None
INVARIANT
    AssetCapHolds

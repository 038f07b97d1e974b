SPECIFICATION Spec
CONSTANTS
    None = None
    Trend <- MCTrend
    MeanRev <- MCMeanRev
    Gap <- MCGap
    FillModel <- MCFillModel
    Shapes <- MCShapes
    Giveback = 30
    FirstClose = 5000
    Equity = 100000
    RiskBps = 100
    PaperQty = 1000
    MaxBars = 6
    FirstRun = 5
INVARIANTS
    TypeOK
    IndicatorsCausal
    SignalsHaveSides
    TradesDisjoint
    ExitsAtFirstTouch
    StopsLose
    FundingIsDue
    BacktestIsPaper
    DrawdownIsDeepest
    FloorBelowPeak
PROPERTIES
    FloorNeverFalls
CHECK_DEADLOCK FALSE

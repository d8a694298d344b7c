\* Crashes, restarts at the last processed height + 1.
CONSTANTS
    Nil = Nil
    Txs = {"s1", "s2", "u1", "s4"}
    MaxHeight = 6
    V2Height = 9
    Depth = 3
    BatchSize = 2
    Values <- MCValues
    Heights <- MCHeights
    OutIdxs <- MCOutIdxs
    Tags <- MCTags
    TxData <- MCTxData
    ParamsAt <- MCParamsAt
    BaseHeight <- MCBaseHeight
    Chains <- MCChains
    StartHeightFlags = {}
    ExtraEventEnabled = FALSE
    MaxCrashes = 1
SPECIFICATION InfoSpec
INVARIANTS
    TvlNeverNegative
    TvlBounded
PROPERTIES
    ForecastComesTrue
CHECK_DEADLOCK FALSE

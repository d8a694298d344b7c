\* Crashes between any two steps, restarts at any height an operator may give.
CONSTANTS
    Nil = Nil
    Txs = {"s1", "s2", "u1", "r1"}
    MaxHeight = 5
    V2Height = 4
    Values <- MCValues
    Heights <- MCHeights
    OutIdxs <- MCOutIdxs
    Tags <- MCTags
    TxData <- MCTxData
    ParamsAt <- MCParamsAt
    BaseHeight <- MCBaseHeight
    Chains <- MCChains
    StartHeightFlags = {1, 2, 3, 4, 5}
    ExtraEventEnabled = TRUE
    MaxCrashes = 2
SPECIFICATION FairSpec
INVARIANTS
    TypeOK
    NothingMissed
    StoredIsPublished
    OverflowIsFinal
    NoFatalError
    TvlIsActiveStake
PROPERTIES
    ImplementsLedger
    ChainProcessed
CHECK_DEADLOCK FALSE

\* Every order of the transactions, no crash.
CONSTANTS
    Nil = Nil
    Txs = {"s1", "s2", "s3", "u1", "w2", "w3", "u2", "l2", "c1"}
    MaxHeight = 4
    V2Height = 3
    Values <- MCValues
    Heights <- MCHeights
    OutIdxs <- MCOutIdxs
    Tags <- MCTags
    TxData <- MCTxData
    ParamsAt <- MCParamsAt
    BaseHeight <- MCBaseHeight
    Chains <- MCChains
    StartHeightFlags = {}
    ExtraEventEnabled = TRUE
    MaxCrashes = 0
SPECIFICATION Spec
INVARIANTS
    NothingMissed
    TvlIsActiveStake

    
CHECK_DEADLOCK FALSE

\* One crash.
CONSTANTS
    Nil = Nil
    Txs = {"s1", "u1"}
    MaxHeight = 5
    V2Height = 4
    Values <- MCValues
    Heights <- MCHeights
    OutIdxs <- MCOutIdxs
    Tags <- MCTags
    TxData <- MCTxData
    ParamsAt <- MCParamsAt
    BaseHeight <- MCBaseHeight
    Chains <- MCChains
    StartHeightFlags = {}
    ExtraEventEnabled = TRUE
    MaxCrashes = 1
SPECIFICATION Spec
INVARIANTS
    ConfirmedInfoPushed
CHECK_DEADLOCK FALSE

\* Two reorgs of any depth, a crash, replays from a lower start height.
CONSTANTS
    MaxHeight = 6
    MaxBranch = 1
    Blocks <- MCBlocks
    NoBlock = NoBlock
    Prev <- MCPrev
    HeightOf <- MCHeightOf
    Chains <- MCChains
    MaxEntries = 4
    ConfirmationDepth = 3
    BatchSize = 2
    ActivationHeight = 2
    StartHeights = {2, 3, 4, 5, 6, 7}
    MaxReorgs = 2
    MaxReorgDepth = 5
    MaxRpcFailures = 0
    NotifierMayClose = FALSE
    MaxCrashes = 1
    StartHeightFlags = {2, 3}
    MaxChainHeight = 6
SPECIFICATION FairSystemSpec
INVARIANTS
    StoredFinal
    StoredGapless
    NoGapAtStart
    NoFalseAlarm
PROPERTIES
    ConfirmedIsStored
    CatchesUp
CHECK_DEADLOCK FALSE

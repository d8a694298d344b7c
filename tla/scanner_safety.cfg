\* Reorgs of any depth and RPC failures.
CONSTANTS
    MaxHeight = 6
    MaxBranch = 1
    Blocks <- MCBlocks
    NoBlock = NoBlock
    Prev <- MCPrev
    HeightOf <- MCHeightOf
    Chains <- MCChains
    MaxEntries = 4
    ConfirmationDepth = 3
    BatchSize = 2
    ActivationHeight = 2
    StartHeights = {2, 3}
    MaxReorgs = 1
    MaxReorgDepth = 5
    MaxRpcFailures = 1
    NotifierMayClose = TRUE
SPECIFICATION FairSpec
INVARIANTS
    TypeOK
    ConfirmedDeepEnough
    DeliveredConnected
    DeliveredFinal
PROPERTIES
    StopTerminates
CHECK_DEADLOCK FALSE

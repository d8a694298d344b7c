\* A reorg of any depth while the process is down.
CONSTANTS
    MaxHeight = 6
    MaxBranch = 1
    Blocks <- MCBlocks
    NoBlock = NoBlock
    Prev <- MCPrev
    HeightOf <- MCHeightOf
    Chains <- MCChains
    MaxEntries = 4
    ConfirmationDepth = 3
    BatchSize = 2
    ActivationHeight = 2
    StartHeights = {2, 3, 4, 5, 6, 7}
    MaxReorgs = 1
    MaxReorgDepth = 5
    MaxRpcFailures = 0
    NotifierMayClose = FALSE
    MaxCrashes = 1
    StartHeightFlags = {2, 3}
    MaxChainHeight = 6
SPECIFICATION SystemSpec
INVARIANTS
    StoredConnected
CHECK_DEADLOCK FALSE

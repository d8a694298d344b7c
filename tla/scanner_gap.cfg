\* No reorg, two RPC failures.
CONSTANTS
    MaxHeight = 6
    MaxBranch = 1
    Blocks <- MCBlocks
    NoBlock = NoBlock
    Prev <- MCPrev
    HeightOf <- MCHeightOf
    Chains <- MCChains
    MaxEntries = 4
    ConfirmationDepth = 3
    BatchSize = 2
    ActivationHeight = 2
    StartHeights = {2, 3}
    MaxReorgs = 0
    MaxReorgDepth = 5
    MaxRpcFailures = 2
    NotifierMayClose = TRUE
SPECIFICATION Spec
INVARIANTS
    NoGapAtStart
CHECK_DEADLOCK FALSE

\* Every range of heights, growth of the chain, failing attempts, two reorgs.
CONSTANTS
    MaxHeight = 5
    MaxBranch = 1
    Chains <- MCChains
    Prev <- MCPrev
    NoBlock = NoBlock
    Ranges <- MCRanges
    MaxRetryTimes = 3
    MaxReorgs = 2
SPECIFICATION HeadersSpec
INVARIANTS
    FileIsBestChain
PROPERTIES
    CommandEnds
CHECK_DEADLOCK FALSE

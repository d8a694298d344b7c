\* At most three updates of at most two confirmed blocks.
CONSTANTS
    MaxUpdates = 3
    MaxBlocks = 2
SPECIFICATION Spec
INVARIANTS
    TypeOK
    NothingUsedAfterStop
PROPERTIES
    ShutdownCompletes

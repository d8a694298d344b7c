\* At most one update of at most one confirmed block.
CONSTANTS
    MaxUpdates = 1
    MaxBlocks = 1
SPECIFICATION Spec
PROPERTIES
    SignalEndsProcess

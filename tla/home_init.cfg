\* Interrupted and repeated runs of sid init, and an edited option.
CONSTANTS
    MaxEdits = 1
    MaxCrashes = 3
    MaxRuns = 5
SPECIFICATION HomeSpec
INVARIANTS
    StartsOnDefaults
CHECK_DEADLOCK FALSE

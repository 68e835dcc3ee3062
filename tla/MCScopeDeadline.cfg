SPECIFICATION ScopeSpec
CONSTANTS
    MaxChildren = 1
    MaxRuns = 1
    MaxLost = 1
INVARIANTS NoOrphans
CHECK_DEADLOCK FALSE

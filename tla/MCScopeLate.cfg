SPECIFICATION ScopeSpec
CONSTANTS
    MaxChildren = 2
    MaxRuns = 1
    MaxLost = 1
INVARIANTS SiblingsCancelled
CHECK_DEADLOCK FALSE

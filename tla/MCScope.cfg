SPECIFICATION ScopeSpec
CONSTANTS
    MaxChildren = 2
    MaxRuns = 2
    MaxLost = 2
INVARIANTS ScopeTypeOK ChildrenAnswered FailuresReported SiblingsTold
PROPERTIES TeardownEnds
CHECK_DEADLOCK FALSE

SPECIFICATION Spec
CONSTANTS
    Jobs = {j1, j2}
    Workers = {w1, w2}
    Concurrency = 1
    NoJob = NoJob
    Poison = {}
    Unregistered = {}
    SelfCancelling = {}
    Mortal = {w1}
    Stallable = {}
    MaxFaults = 1
    MaxStalls = 0
    Derived = {}
    MaxSpawns = 1
SYMMETRY JobSymmetry
INVARIANTS TypeOK SingleLease Recoverable ExclusiveRun TakeReturnsTerminal LeaseInv
PROPERTIES TerminalIsFinal CancelIsDurable AttemptsGrow ImplementsJobLife
CHECK_DEADLOCK FALSE

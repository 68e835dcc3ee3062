SPECIFICATION Spec
CONSTANTS
    Jobs = {j1, j2}
    Workers = {w1, w2}
    Concurrency = 2
    NoJob = NoJob
    Poison = {j2}
    Unregistered = {}
    SelfCancelling = {j1}
    Mortal = {w1}
    Stallable = {}
    MaxFaults = 0
    MaxStalls = 0
    Derived = {}
    MaxSpawns = 1
INVARIANTS LeaseInv Recoverable
PROPERTIES TerminalIsFinal
CHECK_DEADLOCK FALSE

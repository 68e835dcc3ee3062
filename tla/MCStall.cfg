SPECIFICATION FairSpec
CONSTANTS
    Jobs = {j1}
    Workers = {w1, w2}
    Concurrency = 1
    NoJob = NoJob
    Poison = {}
    Unregistered = {}
    SelfCancelling = {}
    Mortal = {}
    Stallable = {w1, w2}
    MaxFaults = 0
    MaxStalls = 1
    Derived = {j1}
    MaxSpawns = 2
PROPERTIES EventuallyFinished CancelIsDurable

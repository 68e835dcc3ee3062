SPECIFICATION FairSpec
CONSTANTS
    Jobs = {j1, j2}
    Workers = {w1, w2}
    Concurrency = 1
    NoJob = NoJob
    Poison = {}
    Unregistered = {j2}
    SelfCancelling = {}
    Mortal = {w1}
    Stallable = {}
    MaxFaults = 0
    MaxStalls = 0
    Derived = {}
    MaxSpawns = 1
INVARIANTS LeasesAttended
PROPERTIES EventuallyFinished CancelTakesEffect

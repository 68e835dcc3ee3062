SPECIFICATION Spec
CONSTANTS
    Jobs = {j1}
    Workers = {w1, w2}
    Concurrency = 1
    NoJob = NoJob
    Poison = {}
    Unregistered = {}
    SelfCancelling = {}
    Mortal = {w1}
    Stallable = {w1}
    MaxFaults = 0
    MaxStalls = 1
    Derived = {}
    MaxSpawns = 1
PROPERTIES DoubleReleaseHarmless

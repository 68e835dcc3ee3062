SPECIFICATION ClockSpec
CONSTANTS
    TicksPerSecond = 3
    MaxTtl = 6
    Latency = 1
    MaxNow = 40
INVARIANTS HealthyNotReaped DetectionWindow
CHECK_DEADLOCK FALSE

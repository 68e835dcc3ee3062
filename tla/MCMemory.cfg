SPECIFICATION MemorySpec
CONSTANTS
    h1 = h1
    h2 = h2
    h3 = h3
    j1 = j1
    j2 = j2
    Handles <- MCHandles
    Jobs <- MCJobs
    Target <- MCTarget
    Loops = {l1, l2}
    NoJob = NoJob
    Resubmitted = {}
    MaxReleases = 2
INVARIANTS EventsMatchRecords
PROPERTIES TakersReturn MemoryImplementsJobLife
CHECK_DEADLOCK FALSE

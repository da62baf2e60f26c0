SPECIFICATION FairSpec
CONSTANTS
    NumTypes = 2
    Disks = {1, 2}
    CycleTimes = 2
    LastCheck = 2
    MaxRuns = 2
    MaxErrors = 2
    MaxAborts = 1
CHECK_DEADLOCK FALSE
INVARIANTS
    SamplesSound
    VerdictSound
PROPERTY TestsEnd

SPECIFICATION FairSpec
CONSTANTS
    NumTypes = 1
    Disks = {1}
    CycleTimes = 2
    LastCheck = 2
    MaxRuns = 1
    MaxErrors = 0
    MaxAborts = 1
CHECK_DEADLOCK FALSE
PROPERTY AllReachesTests

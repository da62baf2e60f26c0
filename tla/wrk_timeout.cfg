SPECIFICATION Spec
CONSTANTS
    Conns = {c1}
    Pipeline = 1
    MaxBatches = 1
    MaxFaults = 0
INVARIANT TimeoutsRecorded
CHECK_DEADLOCK FALSE

SPECIFICATION Spec
CONSTANTS
    NumUnits = 2
    Optional = {2}
    MaxLaunches = 7
    MaxFaults = 2
CHECK_DEADLOCK FALSE
INVARIANT TypeOK
INVARIANT GateHonest
INVARIANT OriginalKept
INVARIANT OutcomeHonest

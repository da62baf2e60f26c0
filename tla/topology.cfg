SPECIFICATION TopologySpec
CONSTANTS
    MaxCpus = 12
    Starts = {0, 2, 3}
    Nums = {0, 2, 3, 4}
    Configs <- SmallConfigs
    MaxSockets = 4
    MaxNodes = 8
CHECK_DEADLOCK FALSE
INVARIANTS
    CpusPartitioned
    PinsApart
    NodesSplit

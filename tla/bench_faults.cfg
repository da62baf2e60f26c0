SPECIFICATION Spec
CONSTANTS
    NumModes = 2
    GzipModes = {2}
    NodeNum = 2
    NodeCpus <- WideNodes
    SocketCpus <- WideSockets
    ServerArgs = {"all", "socketl", "socketr", "node", "server", "stats"}
    ClientArgs = {"all", "socketl", "socketr", "node", "server", "stats"}
    Budget <- KillsAndLosses
CHECK_DEADLOCK FALSE
INVARIANT FinishedTestsVouched
INVARIANT Lockstep
INVARIANT SectionsPure
PROPERTY NoRestartUnderLoad
PROPERTY ReportSpec

SPECIFICATION FairSpec
CONSTANTS
    NumModes = 2
    GzipModes = {2}
    NodeNum = 2
    NodeCpus <- SmallNodes
    SocketCpus <- SmallSockets
    ServerArgs = {"all"}
    ClientArgs = {"all"}
    Budget <- NginxTrouble
CHECK_DEADLOCK FALSE
INVARIANT TypeOK
INVARIANT NoErrorExit
PROPERTY ReportSpec
PROPERTY Completes

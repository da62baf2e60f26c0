SPECIFICATION Spec
CONSTANTS
    NumModes = 2
    GzipModes = {2}
    NodeNum = 2
    NodeCpus <- SmallNodes
    SocketCpus <- SmallSockets
    ServerArgs = {"all"}
    ClientArgs = {"all"}
    Budget <- OnceEach
INVARIANT CoresWithinUnit

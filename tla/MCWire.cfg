CONSTANTS
    Parts = {"tcp", "ds", "fm", "io"}
    NMsgs <- MCTcpM11
    MaxBreaks = 1
    MaxRecon = 1
    DsProcs <- MCDsProcs
    DsUser <- MCDsUser
    DsNspace <- MCDsNspace
    DsApp <- MCDsApp
    DsDaemon <- MCDsDmn
    DsPlans <- MCDsPlans
    DsMaxSize = 7
    DsTimeout = 1
    DsMaxClock = 1
    FmRanks = {0, 1, 2}
    FmWindow = 1
    FmKind <- MCFmK
    FmSize <- MCFmS
    FmPlans <- MCFmPlans
    IoDaemons = {"D1", "D2"}
    IoHnp = "H"
    IoMaxBuffers = 1
    IoPipe = 1
    IoPlans <- MCIoPlans
SPECIFICATION WireSpec
INVARIANTS
    TcpSound
    DsSound
    
    IoSound
PROPERTIES
    WireSettles
CHECK_DEADLOCK FALSE

SPECIFICATION Spec
CONSTANTS
    one = one  two = two  three = three  empty = empty
    NoClient = NoClient
    Clients = {one, empty}
    Script <- MCScript
    Port <- MCPort
    ListenPort = 8888
    Backlog = 2
    Window = 8
    NVcpu = 2
    PCpus <- MCPCpus
    MaxFds = 4
    ShortRecv = FALSE
    SndBuf = 0
    PortTaken = FALSE
    MayUnplug = FALSE
    IoIndexes <- None
    MayRing = FALSE
    MayDie = FALSE
    IrqVals <- None
    Masks <- None
    StoreSlots <- None
    SharedLine = FALSE
    Paces = {"quiet"}
INVARIANT DriverFollowsDaemon
CHECK_DEADLOCK FALSE

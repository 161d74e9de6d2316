SPECIFICATION DevSpec
CONSTANTS
    inject = inject  pin = pin  reset = reset  other = other
    NoClient = NoClient
    Clients = {inject, other, reset}
    Script <- MCScript
    Port <- DevicePort
    ListenPort = 8888
    Backlog = 2
    Window = 6
    NVcpu = 2
    PCpus <- FewPCpus
    MaxFds = 2
    ShortRecv = TRUE
    SndBuf = 1
    PortTaken = TRUE
    MayUnplug = TRUE
    IoIndexes <- MCIo
    MayRing = TRUE
    MayDie = TRUE
    IrqVals <- MCIrqVals
    Masks <- MCMasks
    StoreSlots <- MCStore
INVARIANTS DevTypeInv IrqLineMatchesStatus SocketInv DeafOnlyWithoutFds
PROPERTIES QueuedAccepted
CHECK_DEADLOCK FALSE

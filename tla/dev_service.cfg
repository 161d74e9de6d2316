SPECIFICATION DevSpec
CONSTANTS
    inject = inject  pin = pin  reset = reset  other = other
    NoClient = NoClient
    Clients = {inject, pin, reset}
    Script <- MCScript
    Port <- DevicePort
    ListenPort = 8888
    Backlog = 2
    Window = 6
    NVcpu = 2
    PCpus <- FewPCpus
    MaxFds = 4
    ShortRecv = FALSE
    SndBuf = 3
    PortTaken = FALSE
    MayUnplug = FALSE
    IoIndexes <- NoBits
    MayRing = TRUE
    MayDie = FALSE
    IrqVals <- NoBits
    Masks <- NoBits
    StoreSlots <- NoStore
INVARIANTS ServedInOrder PinUndone
PROPERTIES SignalsWholeMessage AllHandled DoorbellSendsWhole DoorbellReturns
CHECK_DEADLOCK FALSE

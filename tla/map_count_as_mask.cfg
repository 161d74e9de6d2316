SPECIFICATION PathSpec
CONSTANTS
    Cpus <- OneCpu
    MaxEntries = 4
    Requests <- OneRequest
    IntValues = 8
    MaxCalls = 1
    NVcpu = 2
    PCpus <- HostCpus
INVARIANT HostPinsAsAsked
CHECK_DEADLOCK FALSE

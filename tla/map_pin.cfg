SPECIFICATION PathSpec
CONSTANTS
    Cpus <- GuestCpus
    MaxEntries = 3
    Requests <- MCRequests
    IntValues = 4
    MaxCalls = 3
    NVcpu = 2
    PCpus <- HostCpus
INVARIANTS PathTypeOK EntriesAreRequests ForwardedAtMostOnce LowestEntryWins OldestRequestWins LostOnlyByRaces
PROPERTY CountCleared
CHECK_DEADLOCK FALSE

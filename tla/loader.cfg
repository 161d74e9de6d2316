SPECIFICATION Spec
CONSTANTS
    p1 = p1  p2 = p2  p3 = p3
    Pids = {p1, p2, p3}
    NoPid = NoPid
    MaxProgs = 4
    SaveFails = TRUE
    ForkFails = TRUE
    LoadFails = TRUE
INVARIANTS TypeOK OneChild RunsLatest CurrentRunsFile
PROPERTY LatestRuns
CHECK_DEADLOCK FALSE

SPECIFICATION Spec
CONSTANTS
    u = u  v = v
    Drivers = {"huc", "testdemo"}
    Users = {u, v}
    NMajors = 2
    MaxProbes = 3
    MaxFaults = 2
INVARIANTS TypeOK AccessMapped UnloadsClean HucMajorsBalanced
CHECK_DEADLOCK FALSE

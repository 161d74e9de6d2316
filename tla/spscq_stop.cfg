SPECIFICATION Spec
CONSTANTS
    LineSlots = 2  Lines = 1  Shuffle = TRUE
    Smap <- Reversed
    MaxPkts = 3
PROPERTY Terminates
CHECK_DEADLOCK FALSE

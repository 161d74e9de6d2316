SPECIFICATION Spec
CONSTANTS
    LineSlots = 4  Lines = 2  Shuffle = TRUE
    Smap <- Reversed
    MaxPkts = 20
INVARIANTS TypeOK PacketsIntact PoolSlotFree RingInv
PROPERTIES ImplementsFifo ConsumerStops
CHECK_DEADLOCK FALSE

\* A run whose data frames were all lost.
SPECIFICATION Spec
CONSTANTS
    Payloads = {p}
    BURST_SIZE = 2
    Window = 2
    DataCache = 2
    ParityCache = 1
    MaxFrames = 2
    MaxParity = 4
INVARIANT DoneIsDelivered
CHECK_DEADLOCK FALSE

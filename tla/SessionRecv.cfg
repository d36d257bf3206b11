\* Three frames in runs of at most two, a window and caches they outgrow.
SPECIFICATION Spec
CONSTANTS
    Payloads = {p, q}
    BURST_SIZE = 2
    Window = 1
    DataCache = 2
    ParityCache = 1
    MaxFrames = 3
    MaxParity = 4
INVARIANTS BurstBound RunContiguous FilterExact DeliveredIsSent
PROPERTY ImplementsDatagrams
SYMMETRY PayloadSymmetry
CHECK_DEADLOCK FALSE

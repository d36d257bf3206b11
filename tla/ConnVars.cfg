\* Three segments of each direction, time past two RTOs and the final timeout.
SPECIFICATION Spec
CONSTANTS
    AckBatch = 2
    AckDelay = 1
    IdleLimit = 2
    MaxSpan = 1
    RecvWindow = 1
    Rtos = {1, 2}
    RttVars = {0, 1}
    MinRtts = {0, 1}
    Cwnds = {1, 2}
    MaxSeqno = 3
    MaxPeerSeqno = 2
    MaxTime = 3
INVARIANTS TypeOK LostAgrees RtosExact AckBatchBound AckScheduled AcksAreHeld ReorderTight
CHECK_DEADLOCK FALSE

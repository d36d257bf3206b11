\* Two chunks over a lossy network; fair timers, and a network not always lossy.
SPECIFICATION FairSpec
CONSTANTS
    c1 = c1
    c2 = c2
    c3 = c3
    Chunks = {c1, c2, c3}
    Stream <- TwoChunks
    AckBatch = 2
    MaxSpan = 1
    RecvWindow = 1
    Cwnd = 1
    Capacity = 2
INVARIANTS AckedIsHeld
PROPERTIES ImplementsReliableStream EventuallyDelivered CloseEnds BothEnd
CHECK_DEADLOCK FALSE

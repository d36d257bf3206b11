\* A stream id is used again while the peer still has the old stream.
SPECIFICATION Spec
CONSTANTS
    Ids = {i1}
    Openers = {"a"}
    MaxFinding = 1
    Prompt = TRUE
    MaxTries = 1
    Capacity = 2
    MaxConns = 3
    MaxSeqno = 2
INVARIANT StreamsNotMixed
CHECK_DEADLOCK FALSE

\* Both ends open, up to two tasks at a time; one SYN is repeated; fair timers.
SPECIFICATION FairSpec
CONSTANTS
    Ids = {i1}
    Openers = {"a", "b"}
    MaxFinding = 2
    Prompt = FALSE
    MaxTries = 1
    Capacity = 1
    MaxConns = 3
    MaxSeqno = 1
INVARIANTS RunningIsListed CancelledByRace
PROPERTIES NoneLingers StrandedIsTold
CHECK_DEADLOCK FALSE

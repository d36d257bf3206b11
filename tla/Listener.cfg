\* Two sessions with two shards that may use each other's addresses; keys expire.
SPECIFICATION Spec
CONSTANTS
    Tokens = {t1, t2}
    Shards = {0, 1}
    Addrs = {a1, a2}
    None = None
    KeyWindow = 0
    FilterMemory = 1
    MaxEpoch = 2
    MaxPackets = 4
    MaxSessions = 3
    MaxFrames = 1
INVARIANTS NoDangling LiveIsListed Reachable HandledOnce
SYMMETRY TableSymmetry
CHECK_DEADLOCK FALSE

\* A session is dropped, and its client resumes.
SPECIFICATION Spec
CONSTANTS
    Tokens = {t1}
    Shards = {0}
    Addrs = {a1}
    None = None
    KeyWindow = 0
    FilterMemory = 1
    MaxEpoch = 0
    MaxPackets = 3
    MaxSessions = 2
    MaxFrames = 2
INVARIANT FrameNoNeverRepeats
CHECK_DEADLOCK FALSE

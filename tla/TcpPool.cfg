\* Two senders, two connections at a time, one fault; the client keeps sending.
SPECIFICATION FairSpec
CONSTANTS
    Conns = {c1, c2}
    Senders = {s1, s2}
    None = None
    Gone = Gone
    Lifetime = 2
    GcAge = 5
    Room = 2
    Jumps <- MCJumps
    MaxGcs = 1
    MaxFaults = 1
INVARIANTS TypeOK FramesWhole
PROPERTY HearsAgain

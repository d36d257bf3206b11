\* Two frames and one report.
SPECIFICATION Spec
CONSTANTS
    None = None
    GapAge = 1
    Window = 1
    Enough = 1
    MaxFrames = 2
    MaxReports = 1
    MaxTime = 1
INVARIANTS HighIsDelivered
CHECK_DEADLOCK FALSE

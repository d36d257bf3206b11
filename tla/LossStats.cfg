\* Five frames of which any may be late or lost, and two reports.
SPECIFICATION Spec
CONSTANTS
    None = None
    GapAge = 1
    Window = 1
    Enough = 1
    MaxFrames = 5
    MaxReports = 2
    MaxTime = 5
INVARIANTS Accounted AckedGrows
PROPERTIES NothingOverdue PingIsRoundTrip
CHECK_DEADLOCK FALSE

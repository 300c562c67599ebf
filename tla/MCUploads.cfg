SPECIFICATION Spec
CONSTANTS
    Windows = {w1, w2}
    NoWindow = NoWindow
    MaxFiles = 3
    MaxRuns = 3
    Sessions <- MCSessions
INVARIANTS
    UpTypeOK
    BatchAddsUp
    BusyHasARun
PROPERTIES
    FatesAreKept
    QueueDrains
CHECK_DEADLOCK FALSE

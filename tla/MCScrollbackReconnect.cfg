SPECIFICATION Spec
CONSTANTS
    Page = 5
    Tail = 2
    Ring = 8
    MaxLog = 5
    MaxReqs = 2
    Sessions <- MCReconnect
INVARIANTS
    NoSilentHole
CHECK_DEADLOCK FALSE

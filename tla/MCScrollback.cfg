SPECIFICATION Spec
CONSTANTS
    Page = 2
    Tail = 2
    Ring = 3
    MaxLog = 5
    MaxReqs = 2
    Sessions <- MCSessions
INVARIANTS
    SbTypeOK
    MoreOutIsTrue
PROPERTIES
    OlderPageAbuts
    StaleAnswersChangeNothing
    UnreadIsKept
    RefreshIsAnswered
CHECK_DEADLOCK FALSE

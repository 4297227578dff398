SPECIFICATION FairSpec
CONSTANTS
    WithPython = TRUE
    HasPythonBackend = TRUE
    MaxStreams = 2
    MaxLines = 3
    EventCap = 1
INVARIANTS TypeOK NothingLostWhileRead FailureHasReason PhasesDoNotOverlap
PROPERTIES EverythingEnds
CHECK_DEADLOCK FALSE

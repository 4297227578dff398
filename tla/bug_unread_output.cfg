SPECIFICATION Spec
CONSTANTS
    WithPython = FALSE
    HasPythonBackend = FALSE
    MaxStreams = 1
    MaxLines = 3
    EventCap = 1
INVARIANTS AllOutputRead
CHECK_DEADLOCK FALSE

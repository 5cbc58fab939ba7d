SPECIFICATION Spec
CONSTANTS
    Process = {p1, p2}
    NoProcess = NoProcess
    Client = {c1}
    MaxInFlight = 1
INVARIANTS
    OneDaemon
CHECK_DEADLOCK FALSE

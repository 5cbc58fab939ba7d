SPECIFICATION Spec
CONSTANTS
    p = p
    c1 = c1
    c2 = c2
    c3 = c3
    Peer = {p}
    Path = {f}
    Caller = {c1, c2, c3}
    Info = {i}
    Absent = Absent
    NoCaller = NoCaller
    NoFile = NoFile
    PerSecond = 2
    MaxTime = 4
    MinHex = 2
    Permits = 2
    Limit = 1
    Lines <- MCLines
    Scenarios <- TwoGrants
    MaxRestart = 0
INVARIANTS
    AlreadyIn
CHECK_DEADLOCK FALSE

SPECIFICATION FairSpec
CONSTANTS
    Process = {p1, p2, p3}
    NoProcess = NoProcess
    Client = {c1, c2}
    MaxInFlight = 1
INVARIANTS
    TypeOK
    ServingReachable
    BindUnblocked
    NothingLeft
    OverlapOnlyAtEnd
PROPERTIES
    ConnectionsEnd
CHECK_DEADLOCK FALSE

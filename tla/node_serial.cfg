SPECIFICATION SerialSpec
CONSTANTS
    Path = {p1}
    Content = {a, b, big}
    UserContent = {a, b, big}
    PeerContent = {a, b}
    Oversize = {big}
    Peer = {alice}
    Allowed = {alice}
    Absent = Absent
    UserOps = {"write", "remove"}
    Budget <- SerialBudget
    AwaitTTL = TRUE
INVARIANTS
    QuietAgreement
    QuietMarksFresh
PROPERTIES
    ComesToRest
    SettlesOnMesh
CHECK_DEADLOCK FALSE

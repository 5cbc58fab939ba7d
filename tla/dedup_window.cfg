SPECIFICATION SerialSpec
CONSTANTS
    Path = {p1}
    Content = {a, b}
    UserContent = {a, b}
    PeerContent = {a, b}
    Oversize = {}
    Peer = {alice}
    Allowed = {alice}
    Absent = Absent
    UserOps = {"write", "remove"}
    Budget <- SerialBudget
    AwaitTTL = FALSE
INVARIANTS
    QuietAgreement
CHECK_DEADLOCK FALSE

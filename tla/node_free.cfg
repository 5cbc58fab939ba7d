SPECIFICATION Spec
CONSTANTS
    Path = {p1, p2}
    Content = {a, b, big}
    UserContent = {a}
    PeerContent = {b, big}
    Oversize = {big}
    Peer = {alice, mallory}
    Allowed = {alice}
    Absent = Absent
    UserOps = {"write", "remove", "rename"}
    Budget <- FreeBudget
    AwaitTTL = FALSE
INVARIANTS
    TypeOK
    PendingMarkScoped
    NoPathLeftBehind
    NothingSentBeforeJoin
    
CHECK_DEADLOCK FALSE

SPECIFICATION Spec
CONSTANTS
    a = a
    b = b
    x = x
    y = y
    Node = {a, b}
    Name = {x, y}
    Unsafe = {}
    Hidden = {}
    Content = {v1, v2}
    Oversize = {}
    Absent = Absent
    Dir = Dir
    Link = Link
    Place <- MCPlace
    UserPath <- MCPlain
    Trusting <- MCTrusting
    UserOps = {"write", "remove", "link"}
    Budget <- MCBudget
INVARIANTS
    TypeOK
    
    OnlyTrustCarries
    BackupsStayHome
    StaysInside
PROPERTIES
    Settles
CHECK_DEADLOCK FALSE

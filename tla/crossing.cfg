SPECIFICATION Spec
CONSTANTS
    a = a
    b = b
    x = x
    y = y
    Node = {a, b}
    Name = {x, y}
    Unsafe = {}
    Hidden = {}
    Content = {v1, v2}
    Oversize = {}
    Absent = Absent
    Dir = Dir
    Link = Link
    Place <- MCPlace
    UserPath <- MCPlain
    Trusting <- Everybody
    UserOps = {"write"}
    Budget <- TwoChanges
INVARIANTS
    LastWriterWins
CHECK_DEADLOCK FALSE

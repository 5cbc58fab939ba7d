SPECIFICATION Spec
CONSTANTS
    Peer = {alice, bob}
    Info = {i1, i2}
    Absent = Absent
    Caller = {c1, c2}
    NoCaller = NoCaller
    NoFile = NoFile
INVARIANTS
    TypeOK
    Durable
PROPERTIES
    
    LockReturns

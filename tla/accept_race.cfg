SPECIFICATION Spec
CONSTANTS
    Daemon = {alice, bob}
    Secret = {s1, s2}
    NoSecret = NoSecret
    Task = {t1, t2}
    MaxFault = 0
    MaxReset = 0
INVARIANTS
    AcceptedIsComplete

SPECIFICATION Spec
CONSTANTS
    Daemon = {alice, bob}
    Secret = {s1, s2}
    NoSecret = NoSecret
    Task = {t1}
    MaxFault = 1
    MaxReset = 1
INVARIANTS
    TypeOK
    RestartAsked
    TicketsStayValid
    AcceptedIsComplete
    GroupMeets
PROPERTIES
    TicketUsable

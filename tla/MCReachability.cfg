CONSTANTS
    Devices = {d1}
    Conns = {c1, c2}
    Callers = {a1}
    NoDevice = NoDevice
    NoConn = NoConn
    MaxToken = 1
    MaxOut = 1
    OverlappingSessions = TRUE
    DbFaults = TRUE
    Restarts = TRUE
    Cancellations = TRUE
SPECIFICATION ReachFairSpec
INVARIANTS
    AloneReachable
PROPERTIES
    ClosedIsForgotten

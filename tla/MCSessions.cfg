CONSTANTS
    Devices = {d1}
    Conns = {c1, c2}
    Callers = {a1}
    NoDevice = NoDevice
    NoConn = NoConn
    MaxToken = 2
    MaxOut = 2
    OverlappingSessions = TRUE
    DbFaults = TRUE
    Restarts = TRUE
    Cancellations = TRUE
SPECIFICATION Spec
SYMMETRY Symmetry
INVARIANTS
    SessionsInv
    TypeOK
    OnlineBacked
    RegistryLive
    RevokedUnregistered
    HelloAckFirst
    AbortHarmless
PROPERTIES
    LifecycleSpec

CONSTANTS
    Devices = {d1, d2}
    Peers = {p1, p2}
    Callers = {a1}
    NoDevice = NoDevice
    NoPeer = NoPeer
    MaxToken = 2
SPECIFICATION FairSpec
INVARIANTS
    UdpTypeOK
    UdpOnlineBacked
    EntryAddressed
    RevokedSilent
PROPERTIES
    LifecycleSpec
    LoopReturns

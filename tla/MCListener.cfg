CONSTANTS
    Bytes = {TlsHandshake, Brace, Letter}
    HandshakeByte = TlsHandshake
    BraceByte = Brace
    MaxBytes = 4
SPECIFICATION FairSpec
INVARIANTS
    ListenerTypeOK
    NothingLost
PROPERTIES
    PromiseSpec
    ReadOut
CHECK_DEADLOCK FALSE

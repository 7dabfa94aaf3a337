CONSTANTS
    AdminGroups = {g1, g2}
    ClientGroups = {}
    NoGroup = NoGroup
    Editors = {a1}
    Pushers = {a1}
    U32 = 16
    MaxVersion = 2
    MaxChanges = 1
    MaxBreaks = 1
    MaxWire = 1
SPECIFICATION FairSpec
PROPERTIES
    PushedArrives

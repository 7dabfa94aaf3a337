CONSTANTS
    AdminGroups = {g1}
    ClientGroups = {g2}
    NoGroup = NoGroup
    Editors = {a1}
    Pushers = {a1}
    U32 = 16
    MaxVersion = 2
    MaxChanges = 2
    MaxBreaks = 1
    MaxWire = 1
SPECIFICATION FairSpec
INVARIANTS
    TypeOK
    VersionNamesContent
PROPERTIES
    OwnGroupCurrent

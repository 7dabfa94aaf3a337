CONSTANTS
    Hubs = {h1}
    Owners = {u1}
    Rooms = {r1, r2}
    Groups = {g1}
    Devices = {d1}
    Logs = {l1}
    Nobody = Nobody
    MaxWrites = 5
SPECIFICATION BackupSpec
SYMMETRY Symmetry
INVARIANTS
    BackupTypeOK
    DeletionsGoThrough
    OverwriteRestores
    MergeUndoesDeletions

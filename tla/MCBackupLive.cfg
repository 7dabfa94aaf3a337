CONSTANTS
    Hubs = {h1}
    Owners = {u1}
    Rooms = {r1, r2}
    Groups = {}
    Devices = {}
    Logs = {}
    Nobody = Nobody
    MaxWrites = 3
SPECIFICATION BackupSpec
SYMMETRY Symmetry
INVARIANTS
    ExportMigrates

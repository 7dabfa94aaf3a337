CONSTANTS
    Columns = {c1, c2}
    Users = {"bob"}
    MaxStarts = 3
    Keys = {k1}
    Requests = {r1, r2}
    LockTime = 1
    MaxTime = 2
SPECIFICATION FairSpec
INVARIANTS
    TypeOK
    ServesPair
    AdminThere
    GuessesBounded
PROPERTIES
    LockEarned
    ServesAgain
CHECK_DEADLOCK FALSE

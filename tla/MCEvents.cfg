CONSTANTS
    Devices = {d1}
    Sessions = {s1, s2}
    Viewers = {v1}
    Kinds = {"traffic_stats", "vnts_event", "event"}
    Cap = 1
    Limit = 1
    MaxReports = 3
    MaxTime = 1
SPECIFICATION FairSpec
INVARIANTS
    TypeOK
    NoSilentGap
    CaughtUp
    AnnouncedStored
    SessionOrder
    LastReportShown
PROPERTIES
    Delivered
CHECK_DEADLOCK FALSE

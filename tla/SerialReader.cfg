SPECIFICATION FairSpec
CONSTANTS
    MaxReports = 1
    Wire = 3
    Chunk = 2
    MostFailures = 2
    Disturbances = {"refused", "unanswered", "late", "garbled", "ended", "unopened", "cycled"}
    MaxDisturbances = 4
INVARIANTS
    AnnouncedIsStreaming
    ReportsReachTheChannel
PROPERTIES
    KeepsTheLink
    ComesBack
CHECK_DEADLOCK FALSE

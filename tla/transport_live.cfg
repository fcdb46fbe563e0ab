SPECIFICATION FairSpec
CONSTANTS
    s1 = s1
    s2 = s2
    Stops = {s1}
    MaxMessages = 2
    MaxFailures = 1
    BackoffBase = 2
    BackoffMax = 5
    ServerKinds = {"text", "invalid"}
    SleepMayFail = FALSE
INVARIANTS
    FetchedTextIsForwarded
    ReplyDiscipline
PROPERTIES
    ImplementsRelay
    StopCompletes
    TextReachesHost
CHECK_DEADLOCK FALSE

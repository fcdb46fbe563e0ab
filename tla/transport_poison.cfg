SPECIFICATION Spec
CONSTANTS
    s1 = s1
    s2 = s2
    Stops = {s1}
    MaxMessages = 2
    MaxFailures = 1
    BackoffBase = 2
    BackoffMax = 5
    ServerKinds = {"text", "invalid", "poison"}
    SleepMayFail = FALSE
INVARIANTS
    FetchedTextIsForwarded
CHECK_DEADLOCK FALSE

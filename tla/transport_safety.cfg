SPECIFICATION Spec
CONSTANTS
    s1 = s1
    s2 = s2
    Stops = {s1, s2}
    MaxMessages = 1
    MaxFailures = 3
    BackoffBase = 2
    BackoffMax = 5
    ServerKinds = {"text", "invalid", "poison"}
    SleepMayFail = TRUE
SYMMETRY StopSymmetry
INVARIANTS
    StoppedIsQuiet
    TypeOK
    FinishedTaskReleases
CHECK_DEADLOCK FALSE

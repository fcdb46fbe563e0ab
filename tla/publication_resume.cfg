SPECIFICATION LiveSpec
CONSTANTS
    StandardJobs = {"s1", "s2", "s3"}
    FullJobs = {}
    Names <- AllNames
    Plan <- OneBuild
    Base <- SealedA
    Followers = {}
    Authorised = {"s1", "s2", "s3"}
    Modes = {"execute"}
    TagRefs = {"absent", "exact"}
    Immutability = {FALSE}
    Serialized = TRUE
    Faults = {"deadline", "reject", "lost", "read", "crash"}
    FaultyJobs = {"s1", "s2"}
    None = None
PROPERTIES
    ResumeConverges
CHECK_DEADLOCK FALSE

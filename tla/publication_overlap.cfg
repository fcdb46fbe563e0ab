SPECIFICATION MCSpec
CONSTANTS
    StandardJobs = {"s1", "s2", "s3"}
    FullJobs = {"f1", "f2"}
    Names <- AllNames
    Plan <- TwoBuilds
    Base <- SealedA
    Followers <- Follower
    Authorised = {"s1", "s2"}
    Modes = {"execute", "rehearsal", "reconcile_only"}
    TagRefs = {"absent", "exact", "conflict"}
    Immutability = {TRUE, FALSE}
    Serialized = FALSE
    Faults = {"lost", "late", "read", "edit"}
    FaultyJobs = {"s1", "s2", "s3", "f1", "f2"}
    None = None
INVARIANTS
    TypeOK
    PublishedIsExact
    PublishIsChecked
    CompleteIsTrue
    MutationIsAdmitted
    SentOnce
PROPERTIES
    PublishedIsSealed
    ImplementsLifecycle
CHECK_DEADLOCK FALSE

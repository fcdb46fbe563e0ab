SPECIFICATION CleanupSpec
CONSTANTS
    Promotions = {"d1", "d2"}
    RecordOf <- MCRecordOf
    VersionOf <- MCVersionOf
    Previews = {}
    FaultyPromotions = {}
    NoImage = "none"
    RetainStable = 1
    RollbackTags = {}
INVARIANTS
    PublicationUnitIsKept
CHECK_DEADLOCK FALSE

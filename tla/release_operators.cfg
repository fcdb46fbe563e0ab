CONSTANTS
    Seed <- MCSeed
    NoAsset = NoAsset
    AppendJobs = {"w1", "w2", "w3", "l1"}
    RepairJobs = {"r1", "r2"}
    Platform <- MCPlatform
    Build <- MCBuild
    FilesOf <- MCFilesOf
    Frozen = {"dmg", "zip"}
    Repaired <- MCRepaired
    FaultyJobs = {"w1", "w3", "l1", "r1", "r2"}
    Items = {"dmg", "zip"}
    Version <- MCVersion
    Commands <- MCCommands
    Operators = {"op"}
    FaultyTools = {"run", "op"}
    Dispatches = {"s1", "s2", "h1", "f1"}
    Standards = {"s1", "s2", "h1"}
    ByHand = {"h1"}
    FaultyDesks = {"s1"}
    CarrierOf <- MCCarrierOf
    Installers = {"i1", "i2"}
    First = "first"
    Nothing = "nothing"
    Damaged = "damaged"
    Provenance <- MCProvenance
    Launches = {TRUE, FALSE}
    Activations = {"a1", "a2"}
    TagOf <- MCTagOf
    FirstLatest = "v0"
    HoldsGroup = TRUE
    FaultyRuns = {"a2"}
    Publishers = {"p1", "p2"}
    NightlyFiles = {"dmg"}
    FaultyNights = {"p1"}
    MaxAstray = 2
    Promotions = {"d1", "d2", "q1", "n1"}
    RecordOf <- MCRecordOf
    VersionOf <- MCVersionOf
    Previews = {"n1"}
    FaultyPromotions = {"d1"}
    NoImage = "none"
    TapFollowers = {"c1", "c2", "u1", "n8", "n9"}
    CaskOf <- MCCaskOf
    SourceOf <- MCSourceOf
    ReleaseOf <- MCReleaseOf
    ReceiptBytes <- MCReceiptBytes
    MaxBytes = 2
    LooseFollowers = {"c1"}
    RootCommit = "root"
    MaxSigning = 2
SPECIFICATION MCSpec
INVARIANTS
    ReplacedFileIsBacked
    ManifestIsTrue
    FirstAppSurvives
    OneStableAtATime
    OperationConsumedOnce
    PublicKeepsItsTag
    AdviceIsSafe
PROPERTIES
    PlatformsStay
    ReceiptIsTrue
    FailureReceiptIsTrue
    AppendConverges
    LatestMovesAsAdmitted
    PlainFailureIsClean
    TagsMoveAsAdmitted
    PromotionConverges
    CasksMoveForward
CHECK_DEADLOCK FALSE

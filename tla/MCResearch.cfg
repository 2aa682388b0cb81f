CONSTANTS
    Publishers = {p1, p2, p3}
    ExactVersions = {a}
    BacktestVersions = {b}
    MaxLosses = 1
    Stages <- MCStages
    Processes = {r1, r2}
    Contents = {1, 2, 3}
    SessionCount <- MCSessionCount
    Instruments = 2
    MaxStarts = 2
    MaxRefreshes = 1
    MaxMishaps = 1
    Jobs <- MCJobs
    Answers <- MCAnswers
    Datasets = {"quality", "prices", "instruments", "calendar", "universe", "universe_metadata"}
    Writers = {w1, w2}
    MaxFetches = 5
    MaxIngestions = 3
    MaxOverlapping = 2
    MaxDeaths = 1
    KillPoints = {"write", "switch"}
    InstrumentIds = {"a", "b"}
    Days = 11
    Calendars <- MCCalendars
    Listing <- MCListing
    Delisting <- MCDelisting
    BarKinds = {"missing", "late", "zero_volume", "limit_locked", "unpriced", "thin"}
    MaxFlaws = 1
    MinimumListing = 1
    TrailingWindow = 1
    Lookbacks = {1, 2}
    LabelSpecs <- MCLabelSpecs
    FirstDays = {1, 3}
    SplitConfigs <- MCSplitConfigs
    Candidates <- MCCandidates
    Requests <- MCRequests
    Promoters = {q1, q2}
    Reads <- MCReads
    EvidenceIds = {"review", "a"}
    LicenseQuestions = {"storage"}
    OperatorQuestions = {"rpo_rto"}
    BrokerBlockers = {"session_token_expiry"}
    UNKNOWN = UNKNOWN
    NoDraft = NoDraft
    Questionnaires <- MCQuestionnaires
    Dates = {1, 3}
    MaxDrafts = 3
    RequiredLicenseDecisions = {"storage"}
    RequiredBrokerBlockers = {"identity"}
    Capabilities = {"corrections"}
    ReconciliationChecks = {"separate", "no_fallback"}
    SecurityControls = {"owner_only"}
    CompletePack <- MCPack
    Forms <- MCForms
    MaxRevisions = 3
SYMMETRY MCSymmetry
SPECIFICATION ResearchSpec
CHECK_DEADLOCK FALSE
INVARIANTS CompletedRunsAgree EnoughSessionsSuffice LineageConsistent CurrentIsReadable PublishedWhenComplete NoLookahead ExecutedTargetsWereApproved NothingLostInSteps AdmittedMeansSupported
PROPERTIES ImplementsCatalog FirstObservationStays

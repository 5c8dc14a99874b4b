SPECIFICATION PartsSpec
CONSTANTS
    None = None
    t1 = t1
    t2 = t2
    t3 = t3
    a = a
    b = b
    c = c
    Threads = {t1, t2, t3}
    Clients = {t1, t2}
    FewFaults = 1
    FewRetries = 1
    Managers = {"image", "reranker"}
    Stores = {"api", "worker"}
    StoreOf <- TwoProcesses
    Fields = {"brand_key", "category_key"}
    Keys = {a, b, c}
    Calls = {"create", "revoke", "audit"}
    MaxEvents = 1
    MaxActions = 2
    Tenants = {"acme", "zeta"}
    OneClient = {t1}
    OneTenant = {"acme"}
    LastMinute = 2
    DayLength = 2
    DailyQuota = 2
    RateLimit = 1
    MaxHits = 3
    Recommended = {a, b}
    ProductOf <- TwoAttempts
    Readers = {c}
    TTL = 1
    WarmTime = 1
    LastTick = 3
    Uploads = {a, b}
    Queries = {b}
    MaxChunks = 1
    ModelTypes = {"image_embedding", "reranker"}
    Versions = {"v1", "v2", "v3"}
    First = "v1"
    WindowDays = 2
    PeriodDays = 1
    Periods = 2
    LastDay = 1
    MaxRecords = 2
    MaxSeconds = 2
    Catalog <- TwoProducts
    Requests <- SomeStages
    MaxJobs = 3
    MaxRuns = 2
    Children <- ThreeChildren
    Stubborn = {"worker"}
    MaxTries = 2
    MaxLate = 1
    PersonalKeys = {a, b}
    Products = {a, b, c}
    Alike <- LikeTwins
    MaxRetries = 2
    MaxFaults = 2
    Lanes = 2
    Modes = {"OFF", "WARN", "BLOCK"}
    Submissions = {a, b}
    Parts = {"models", "collection", "race", "tenants", "quota", "serving", "files", "registry", "analytics", "seeding", "service", "page", "browser", "ingest"}
INVARIANTS
    Types
    OneModelForAll
    OperatesOnExisting
    RevokedCannotAct
    NoEscalation
    AuditKept
    QuotaKept
    BoundedStaleness
    FilesAccounted
    DashboardCoherent
    SeedingTells
    NoLateDuplicate
    StoredWhole
    BrowserTells
PROPERTIES
    ServedWhole
    RejectedStaysOut
CHECK_DEADLOCK FALSE

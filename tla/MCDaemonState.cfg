CONSTANTS
    Runs = {r1, r2}
    Streams = {f1}
    Nothing = Nothing
    MaxRetained = 2
    MaxResident = 1
    MaxEvents = 2
    Restarts = 1
    Codes = {c1, c2}
    None = None
    MaxAttempts = 3
    Ttl = 2
    MaxIssues = 3
    Retention = 2
    StoreIds = {1, 2, 3}
    MaxCalls = 5
    RowIds = {1, 2, 3}
    MaxTime = 2
    PageLimit = 1
    MaxWrites = 5
    Openers = {1, 2}
    LedgerCap = 1
    ConsoleCap = 3
    ConsoleRead = 2
    MaxTreeVersion = 1
    MaxReversals = 2
    MaxAnswers = 2
    MaxConsole = 4
    Listings <- MCListings
    RawModels <- MCRaws
    Endpoints <- MCEndpoints
    PageLength = 2
    MaxPages = 3
    FetchAttempts = 2
    ThresholdWeeks = 1
    MaxRelisted = 1
    MaxSyncs = 2
    MaxEdits = 1
    MaxWeeks = 2
    Tabs = {1, 2}
    MaxFlows = 2
    MaxKeys = 2
    CodeTtl = 1
    MaxInstant = 3
SPECIFICATION StateSpec
CHECK_DEADLOCK FALSE
INVARIANTS
    NothingMissedUntold
    CodeIsLimited
    StoresAgree
    StorageIsWhole
    ReversalsAreHonest
    CredentialsAreSafe
PROPERTIES
    FollowersAreReleased
    OnlyTheLiveCodePairs
    CatalogueKeepsItsWord

CONSTANTS
    Callers = {c1, c2, c3}
    Addresses = {a1, a2, a3}
    UserOf <- MCUserOf
    AddressOf <- MCAddressOf
    AsnOf <- MCAsnOf
    NoAsn = NoAsn
    DailyBudget = 2
    PerUserPerDay = 1
    PerIpPerDay = 1
    PerAsnPerDay = 2
    WindowLimit = 1
    WindowTicks = 2
    TicksPerDay = 2
    MaxTrackedKeys = 20
    MaxClock = 2
    NotCooling = NotCooling
    FailureThreshold = 2
    Cooldown = 2
    SuccessesToClose = 2
    ModelRuns = {r1, r2}
    Models = {m1, m2, m3}
    Providers = {p1, p2}
    ProviderOf <- MCProviderOf
    Orders <- MCOrders
    Budgets = {1, 2}
    Reports <- MCReports
    m1 = m1
    m2 = m2
    m3 = m3
    p1 = p1
    p2 = p2
    CloudCalls = {a, b}
    RetryAttempts = 2
    Subjects = {s1}
    MaxCreated = 3
    MaxTasks = 2
    PageSize = 1
    MaxGrants = 1
    MaxFrames = 3
    Alphabets <- MCAlphabets
    TypeArgumentScanLimit = 64
    MaxTokens = 30
    Dialects <- MCDialects
    Inquiries <- MCInquiries
    BodyLimit = 3
    MaxChunks = 3
    WebProjects = {p1, p2}
    DiffShapes <- MCDiffShapes
    MaxWebRuns = 2
    MaxTried = 1
    MaxSeen = 2
    MaxWrites = 2
    McpCalls = {"call1", "call2"}
    Tools = {"list_projects", "read_tree", "start_run", "propose_changeset", "diff_changeset", "apply_changeset", "run_tests", "rollback"}
    Entries = {"entry"}
    CommandLines <- MCCommandLines
    MaxYes = 2
    MaxWatches = 1
    c1 = c1
    c2 = c2
    c3 = c3
    c4 = c4
    u1 = u1
    u2 = u2
    u3 = u3
    a1 = a1
    a2 = a2
    a3 = a3
    n1 = n1
    n2 = n2
SPECIFICATION ComponentsSpec
CHECK_DEADLOCK FALSE
INVARIANTS
    AllowancesHold
    WritesHappenOnce
    FollowsTheStream
    AnalysisIsExact
    FrontDoorHolds
    PageIsHonest
    ConnectorsAreHonest
PROPERTIES
    FailoverIsExact
    TasksAreSound

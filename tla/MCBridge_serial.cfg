CONSTANTS
    ChangeSetIds = {s1, s2}
    Contents <- MCContents
    JournalIds = {j1, j2}
    LinkIds = {l1}
    Projects = {p1}
    None = None
    DeliveriesPerLink = 8
    Durable = TRUE
    MaxVersion = 3
    MaxDeliveries = 4
    MaxReports = 8
    MaxHeld = 0
    MaxRuns = 0
    UIThreads = {}
    AutoDecisions = {TRUE}
    QueueCap = 2
    Scenarios <- MCQuiet
SPECIFICATION FairBridgeSpec

CHECK_DEADLOCK FALSE
INVARIANTS
    VersionsAgreeAtRest
PROPERTIES
    EverythingIsAnswered

CONSTANTS
    ChangeSetIds = {s1, s2, s3}
    Contents <- MCSmallContents
    JournalIds = {j1, j2, j3}
    LinkIds = {l1}
    Projects = {p1}
    None = None
    DeliveriesPerLink = 8
    Durable = TRUE
    MaxVersion = 3
    MaxDeliveries = 4
    MaxReports = 8
    MaxHeld = 0
    MaxRuns = 0
    UIThreads = {}
    AutoDecisions = {TRUE}
    QueueCap = 2
    Scenarios <- MCQuiet
SPECIFICATION BridgeSpec
SYMMETRY IdSymmetry
CHECK_DEADLOCK FALSE
PROPERTIES
    AppliedOnReviewedTree

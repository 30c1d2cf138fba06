CONSTANTS
    ChangeSetIds = {s1, s2}
    Contents <- MCBothContents
    JournalIds = {j1, j2}
    LinkIds = {l1, l2}
    Projects = {p1}
    None = None
    DeliveriesPerLink = 8
    Durable = TRUE
    MaxVersion = 3
    MaxDeliveries = 3
    MaxReports = 8
    MaxHeld = 0
    MaxRuns = 0
    UIThreads = {"u1"}
    AutoDecisions = {TRUE, FALSE}
    QueueCap = 1
    Scenarios <- MCFaults
SPECIFICATION BridgeSpec
SYMMETRY IdSymmetry
CHECK_DEADLOCK FALSE
INVARIANTS
    JournalIsTrue
PROPERTIES
    AppliedOnReviewedTree

CONSTANTS
    ChangeSetIds = {s1, s2}
    Contents <- MCSmallContents
    JournalIds = {j1, j2}
    LinkIds = {l1}
    Projects = {p1}
    None = None
    DeliveriesPerLink = 8
    Durable = TRUE
    MaxVersion = 3
    MaxDeliveries = 4
    MaxReports = 8
    MaxHeld = 0
    MaxRuns = 0
    UIThreads = {"u1"}
    AutoDecisions = {FALSE}
    QueueCap = 2
    Scenarios <- MCQuiet
SPECIFICATION BridgeSpec
CHECK_DEADLOCK FALSE
INVARIANTS
    ReviewIsOpen

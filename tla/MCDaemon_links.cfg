CONSTANTS
    ChangeSetIds = {s1}
    Contents <- MCContents
    JournalIds = {j1}
    LinkIds = {l1, l2}
    Projects = {p1, p2}
    None = None
    DeliveriesPerLink = 2
    Durable = FALSE
    MaxVersion = 1
    MaxDeliveries = 2
    MaxReports = 2
    MaxHeld = 1
    MaxRuns = 1
SPECIFICATION Spec
SYMMETRY LinkSymmetry
CHECK_DEADLOCK FALSE
INVARIANTS
    QueuesAreServed
PROPERTIES
    VersionMovesByRight

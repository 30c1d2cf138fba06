CONSTANTS
    ChangeSetIds = {s1, s2}
    Contents <- MCContents
    JournalIds = {j1, j2}
    LinkIds = {l1}
    Projects = {p1}
    None = None
    DeliveriesPerLink = 2
    Durable = TRUE
    MaxVersion = 1
    MaxDeliveries = 3
    MaxReports = 4
    MaxHeld = 1
    MaxRuns = 0
    Reviewable <- MCReviewable
    Policies <- MCPolicies
    TextLines <- MCTextLines
    Standings <- MCStandings
    MaxReviewed = 2
    MaxFindings = 3
    PreviewLines = 2
    MaxSource = 3
    Urls <- MCUrls
    Responses <- MCResponses
    MaxLinks = 2
    MaxDelivered = 1
    MaxTransports = 2
    MaxPairings = 2
    MaxStudios = 2
    Names = {a, b}
    MaxOps = 3
    MaxRefusals = 2
SPECIFICATION StudioSpec
SYMMETRY IdSymmetry
CHECK_DEADLOCK FALSE
INVARIANTS
    OnlyReviewedContentLeaves
    ApprovedIsQueued
    JournalsAreSound
    ReviewIsHonest
    LinkIsSound
    ReversalRestores
PROPERTIES
    RollbackHandleIsKept

CONSTANTS
    ServiceRoots = {"S"}
    SafeNames = {"S", "A", "B", "X", "Y"}
    MaxPathDepth = 3
    MaxOperations = 2
    BulkDeleteThreshold = 1
    None = None
    Runs = {r1}
    Calls = {c1, c2}
    Drafts <- MCDrafts
    Policies <- MCPolicies
    HasSandbox = TRUE
    MaxVersion = 1
    MaxLines = 6
    Offers <- MCOffers
    MaxModels = 3
    NewRuns = {r1, r2}
    Runtimes = {ollama}
    Keyed = {remote}
    MaxChanges = 2
    Spans = {x, y, z}
    MaxBatchSize = 2
    MaxQueueSize = 3
    MaxCount = 2
SPECIFICATION CoreSpec
SYMMETRY PipelineSymmetry
CHECK_DEADLOCK FALSE
INVARIANTS
    OnlyVettedIsDelivered
    RecordsAreTrue
    OutcomesAreDeserved
    OrderKeepsItsPromise
    CandidatesWereConfirmed
    SpansAreAccounted
PROPERTIES
    DeliveredAtMostOnce

CONSTANTS
    SessionIds = {s1, s2}
    LinkIds = {l1, l2}
    ChangeSetIds = {c1, c2}
    JournalIds = {j1}
    Requests = {r1}
    None = None
    ChangeSetsPerSession = 1
    JournalsPerSession = 1
    DeliveriesPerLink = 1
    MaxVersion = 1
    MaxNonce = 3
    MaxDeliveries = 2
    MaxHeld = 1
    MaxCursor = 0
SPECIFICATION Spec
SYMMETRY Symmetric
CHECK_DEADLOCK FALSE
INVARIANTS
    SessionsAreApart
PROPERTIES
    DroppedSessionsAreInert

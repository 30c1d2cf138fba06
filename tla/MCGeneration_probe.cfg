CONSTANTS
    NotCooling = NotCooling
    FailureThreshold = 1
    Cooldown = 2
    SuccessesToClose = 1
    ModelRuns = {r1, r2, r3}
    Models = {m1, m2, m3}
    Providers = {p1, p2}
    ProviderOf <- MCProviderOf
    Orders <- MCOrders
    Budgets = {1, 2}
    Reports <- MCReports
    m1 = m1
    m2 = m2
    m3 = m3
    p1 = p1
    p2 = p2
SPECIFICATION GenerationSpec
SYMMETRY RunSymmetry
CHECK_DEADLOCK FALSE
INVARIANTS
    OneProbe

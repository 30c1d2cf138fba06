CONSTANTS
    Names = {a, b}
    MaxOps = 2
    MaxRefusals = 2
SPECIFICATION PlaceSpec
CHECK_DEADLOCK FALSE
INVARIANTS
    FullyReversedIsRestored

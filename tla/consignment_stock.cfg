SPECIFICATION Spec
CONSTANTS
    None = None
    Lots = {1, 2}
    OwnLots = {2}
    Received = 3
    Allocs = {a1, a2}
    Quantities = {1, 2}
    Issues = {i1}
    MaxAttempts = 2
CHECK_DEADLOCK FALSE
SYMMETRY Same
INVARIANTS
    HeldIsCounted
    PromiseIsKept
    CompensatedIsUndone

SPECIFICATION Spec
CONSTANTS
    NoOne = NoOne
    Checkouts = {c1, c2}
    Lines = 1
    Keys = {k1}
    Want = 1
    LayerCount = 2
    OnHand <- TwoAndOne
    Lanes = {l1, l2}
    StrayLanes = {}
    Fiscal = {c1}
    StopAt = {"none", "STOCK_PREPARED"}
    Workers = {w1, w2}
    SnapshotIsolation = FALSE
CHECK_DEADLOCK FALSE
SYMMETRY Interchangeable
INVARIANTS
    StockIsSafe
PROPERTIES
    EndedStaysEnded

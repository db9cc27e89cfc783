SPECIFICATION TimedSpec
CONSTANTS
    NoOne = NoOne
    Checkouts = {c1, c2}
    Lines = 2
    Keys = {}
    Want = 2
    LayerCount = 2
    OnHand <- OneAndFour
    Lanes = {l1, l2}
    StrayLanes = {l1}
    Fiscal = {c1}
    StopAt = {"none", "STOCK_PREPARED"}
    Workers = {w1}
    SnapshotIsolation = FALSE
CHECK_DEADLOCK FALSE
INVARIANTS
    StockIsConserved
    EndedIsWhole
PROPERTY HoldsEnd

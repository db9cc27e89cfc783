SPECIFICATION Spec
CONSTANTS
    None = None
    Overlapping = FALSE
    MaxEntries = 5
    Orders = {o1, o2}
    Holds = {1, 2}
    Returns = {t1, t2, t3}
    Opening = 2
    Debit = 1
    Price = 4
    Units = 4
    Portions = {1, 3}
    Wanted = {4}
    EarnPercent = 20
    Programs <- BothPrograms
CHECK_DEADLOCK FALSE
SYMMETRY Same
INVARIANTS
    BalancesAgree
    PaidKeepsItsPoints
    UndoneLeavesNothing

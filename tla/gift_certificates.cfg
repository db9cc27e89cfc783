SPECIFICATION Spec
CONSTANTS
    None = None
    Originals = {c1}
    Spares = {c2, c3}
    Orders = {o1, o2}
    Requests = {q1}
    Holds = {1, 2}
    Returns = {t1, t2}
    Paid = 2
    Promo = 1
    Price = 2
    Sold = 3
    Breakage = FALSE
    SweepSize = 1
CHECK_DEADLOCK FALSE
SYMMETRY Same
INVARIANTS
    ValueIsConserved
    HoldsAgree
    RestoredExactly

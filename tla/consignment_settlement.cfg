SPECIFICATION Spec
CONSTANTS
    None = None
    Sales = {s1, s2}
    Returns = {t1, t2, t3}
    Reports = {r1, r2}
    Payments = {p1, p2}
    Units = 3
    Partner = 10
    Parts = {5}
CHECK_DEADLOCK FALSE
SYMMETRY Same
INVARIANTS
    AuditFindsNothing
    OwedOnce

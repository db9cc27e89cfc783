SPECIFICATION FairSpec
CONSTANTS
    out1 = out1
    out2 = out2
    o1 = o1
    MaxRequests = 2
    Orders = {o1}
    Moves = {out1}
    AmountOf <- Expenses
    PrintKeys = {"again"}
    Workers = {"short"}
    MaxShifts = 2
    MaxAttempts = 2
    Float = 1
CHECK_DEADLOCK FALSE
INVARIANTS
    OneOpenShift
    PrintedOnce
PROPERTY PrintSettles

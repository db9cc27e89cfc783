SPECIFICATION FairSpec
CONSTANTS
    s1 = s1
    ret = ret
    cash = cash
    NoKey = NoKey
    Keys <- SaleAndReturn
    KindOf <- MCKindOf
    OriginalOf <- MCOriginalOf
    Entry = {"open_shift", "fiscal_open_shift"}
    FreshSync = FALSE
    LateDelivery = TRUE
    ServerStart = 2
    MaxReceipts = 5
    MaxShifts = 1
    MaxFaults = 2
CHECK_DEADLOCK FALSE
INVARIANTS
    ReturnAfterSale
    NumbersAreConsumed
PROPERTY SaleSettles

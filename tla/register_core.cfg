SPECIFICATION Spec
CONSTANTS
    s1 = s1
    ret = ret
    cash = cash
    NoKey = NoKey
    Keys <- SaleAndCash
    KindOf <- MCKindOf
    OriginalOf <- MCOriginalOf
    Entry = {"open_shift", "sync_register_state", "reconcile_receipt"}
    FreshSync = FALSE
    LateDelivery = FALSE
    ServerStart = 3
    MaxReceipts = 5
    MaxShifts = 2
    MaxFaults = 1
CHECK_DEADLOCK FALSE
INVARIANTS
    
    LedgerMatchesServer
    OneZBeforeClose
    ShiftAgreesWithServer
PROPERTIES
    LedgerIsImmutable
    ImplementsFiscalOnce

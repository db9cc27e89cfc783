SPECIFICATION FairSpec
CONSTANTS
    NoKey = NoKey
    mixed = mixed
    card = card
    again = again
    cash = cash
    Keys = {mixed, card, again, cash}
    PlanOf <- Plans
    Requests = {r1, r2}
    Crashes = TRUE
CHECK_DEADLOCK FALSE
INVARIANTS
    PaidInFull
    ChargedOnce
    DrawerFollowsInvoice
    CompletedIsFiscal
PROPERTY ReceiptReachesOrder

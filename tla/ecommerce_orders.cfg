SPECIFICATION Spec
CONSTANTS
    None = None
    o1 = o1
    o2 = o2
    o3 = o3
    Orders = {o1, o2, o3}
    Contents <- Shop
    Channels <- TwoChannels
    Scheduled = scheduled
    Desk = desk
    DeskRuns = 1
    MaxFaults = 1
    MaxCancels = 1
CHECK_DEADLOCK FALSE
INVARIANTS
    RemovedIsAccepted
    PaidOnce
PROPERTIES
    ImportSettles

SPECIFICATION SerialSpec
CONSTANTS
    Scans = {s1, s2}
    Workers = {w1, w2}
    Clients = {c1}
    MaxAttempts = 1
    MaxSkew = 0
    MaxAge = 1
    MaxTime = 3
    MaxCrashes = 1
    NoScan = NoScan
SYMMETRY Symmetry
INVARIANTS
    InventoryNeverRegresses
    CancelledIngestsNothing
PROPERTIES
    UndatedNeverDisplacesDated
    ImplementsContract
CHECK_DEADLOCK FALSE

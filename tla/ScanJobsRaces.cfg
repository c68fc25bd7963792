SPECIFICATION Spec
CONSTANTS
    Scans = {s1, s2}
    Workers = {w1, w2}
    Clients = {c1}
    MaxAttempts = 2
    MaxSkew = 0
    MaxAge = 1
    MaxTime = 1
    MaxCrashes = 1
    NoScan = NoScan
SYMMETRY Symmetry
INVARIANTS
    OneIngestion
    
CHECK_DEADLOCK FALSE

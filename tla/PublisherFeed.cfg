CONSTANTS
    r1 = r1
    r2 = r2
    Items <- FeedItems
    Operators = {o1, o2}
    Entitlements <- LowAndHigh
    RED = 2
    PageSize = 1
    MaxTime = 2
    MaxRevisions = 2
    MaxSeq = 3
    MaxEpoch = 1
    MaxFailures = 0
    Overlap = 1
    Ttl = 3
    MaxClock = 5
    MaxKeys = 4
    Callers = {c1, c2, c3}
    Manifests = {m1, m2}
    Lease = 1
    MaxLeases = 4
    MaxAttempts = 4
SPECIFICATION PartsSpec
SYMMETRY OperatorSymmetry
INVARIANTS PublishedIsProjected RestrictionWithdraws Converged ReleasedByDecision OldKeysExpire
 
CHECK_DEADLOCK FALSE

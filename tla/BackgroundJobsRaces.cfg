SPECIFICATION FairSpec
CONSTANTS
    Jobs = {j1}
    Workers = {w1, w2}
    Clients = {c1, c2}
    MaxAttempts = 2
    MaxRequests = 2
    MaxCrashes = 1
    NoJob = NoJob
INVARIANTS
    OneOutputPerRound
    RunningIsRecoverable
PROPERTY EventuallySettled
CHECK_DEADLOCK FALSE

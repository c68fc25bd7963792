SPECIFICATION FairSpec
CONSTANTS
    Pullers = {p1, p2}
    Runs = {i1, i2, i3}
    Records = {a}
    MaxPages = 2
    PublisherForgets = FALSE
    MaxFaults = 1
    MaxEdits = 1
    NoRun = NoRun
    Nobody = Nobody
PROPERTY KeepsDelivering
CHECK_DEADLOCK FALSE

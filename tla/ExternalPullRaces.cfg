SPECIFICATION Spec
CONSTANTS
    Pullers = {p1, p2}
    Runs = {i1, i2, i3, i4}
    Records = {a, b}
    MaxPages = 2
    PublisherForgets = TRUE
    MaxFaults = 1
    MaxEdits = 1
    NoRun = NoRun
    Nobody = Nobody
SYMMETRY Symmetry
INVARIANTS
    CheckpointIsAccepted
PROPERTIES
    OnlyOwnersWrite
    ClaimStands
    ImplementsContract
CHECK_DEADLOCK FALSE

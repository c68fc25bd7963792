SPECIFICATION Spec
CONSTANTS
    Records = {r1}
    Correlators = {c1, c2}
    MaxContents = 3
    MaxScans = 2
    MaxTime = 1
CONSTRAINT Focus
SYMMETRY Symmetry
CHECK_DEADLOCK FALSE
INVARIANT OnlyApprovedContent

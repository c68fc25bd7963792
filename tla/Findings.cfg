SPECIFICATION Spec
CONSTANTS
    Series = {s1, s2}
    SnapshotSeries = {s1}
    Analysts = {a1}
    MaxImports = 3
    MaxTime = 1
CONSTRAINT Focus
 
PROPERTIES LastWordCloses AnalystDecisionStands OneSourceNeverClosesAnother
CHECK_DEADLOCK FALSE

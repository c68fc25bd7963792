CONSTANTS
    Ips = {i1, i2}
    Macs = {m1, m2}
    Names = {h}
    None = None
    Listening = {FALSE}
    MaxAssets = 3
    MaxScans = 3
    MaxTime = 1
    Editors = {i1, i2}
    Assets = {h}
    Endpoints = {m1, m2}
    Signals = {"external", "internal"}
    MaxVersions = 4
    Requests = {i1, i2}
    Sources = {h}
    Initial = 2
    MaxRecords = 3
    MaxSourcePages = 3
    MaxIds = 3
    Syncs = {i1, i2}
    Cves = {c1, c2}
    Cpes = {x, y}
    MaxNvdPages = 2
    Generic = "generic"
    Universe <- AttackUnits
    Behaviours <- ReportSteps
    InitialSets <- KnownFacts
    Goals <- WantedGoals
    MaxUnits = 3
    MaxSteps = 3
SPECIFICATION PartsSpec
SYMMETRY Symmetry
INVARIANTS
    MacsStayApart  MissesOnlyWhenBalanced
     
    ForwardIsExact PathsStandAlone CleanChainHappens ReportReachable
PROPERTY OlderMovesNothing
CHECK_DEADLOCK FALSE

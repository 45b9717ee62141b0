SPECIFICATION FairSchedulerSpec
CONSTANTS
    c1 = c1
    c2 = c2
    c3 = c3
    j1 = j1
    Callers = {c1, c2}
    Jobs = {j1}
    MaxRuns = 2
    MaxFirings = 1
    Nobody = Nobody
INVARIANTS
    NoOrphanedRun
PROPERTIES
    EndedRunStops
    CallsReturn
CHECK_DEADLOCK FALSE

SPECIFICATION Spec
CONSTANTS
    boot = boot
    o1 = o1
    o2 = o2
    k1 = k1
    m1 = m1
    j1 = j1
    j2 = j2
    Boot = boot
    Operators = {o1}
    Closers = {}
    Callers = {boot, o1}
    Builtin = {m1}
    Jobs = {}
    DefaultOn = {m1}
    MaxRuns = 2
    MaxFirings = 0
    Nobody = Nobody
INVARIANTS
    SchedulerSurvivesReload
CHECK_DEADLOCK FALSE

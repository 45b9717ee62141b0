SPECIFICATION Spec
CONSTANTS
    boot = boot
    o1 = o1
    o2 = o2
    k1 = k1
    m1 = m1
    j1 = j1
    j2 = j2
    Boot = boot
    Operators = {o1, o2}
    Closers = {k1}
    Callers = {boot, o1, o2, k1}
    Builtin = {m1}
    Jobs = {j1}
    DefaultOn = {m1}
    MaxRuns = 3
    MaxFirings = 1
    Nobody = Nobody
SYMMETRY OperatorSymmetry
CONSTRAINTS
    ThreeOverlap
    OneRowChanges
INVARIANTS
    ServedSetIsOpen
    OpenSetsAreHeld
    StopLeavesNoJob
    ReloadTakesEffect
CHECK_DEADLOCK FALSE

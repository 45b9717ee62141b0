SPECIFICATION Spec
CONSTANTS
    p1 = p1
    p2 = p2
    r1 = r1
    a = a
    b = b
    c = c
    None = None
    Processes = {p1, p2}
    Requests = {r1}
    Checksums = {a, b, c}
    Casts <- LifecycleCasts
INVARIANTS
    StoreIsMigrated
    ServersSeeLiveParts
PROPERTIES
    MigrationsAppend
    CancelledEnds
CHECK_DEADLOCK FALSE

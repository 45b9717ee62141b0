SPECIFICATION Spec
CONSTANTS
    o1 = o1
    o2 = o2
    cli = cli
    s1 = s1
    None = None
    Operators = {o1, o2, cli}
    CommandLine = {cli}
    Sources = {s1}
    MaxCommits = 2
    Signed <- LaterSigned
    Backends = {"local", "cached"}
    Casts <- MarketCasts
INVARIANTS
    RowHasBundle
    ServedIsVerified
    EnabledWasReviewed
PROPERTIES
    SyncRecordMovesForward
CHECK_DEADLOCK FALSE

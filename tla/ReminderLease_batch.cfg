SPECIFICATION FairSpec
CONSTANTS
    Reminders = {r1, r2}
    Workers = {w1, w2}
    Unparsable = {r2}
    None = None
    Limit = 2
    Lease = 1
    Period = 2
    Year = 10
    MaxFailures = 2
    MaxClock = 3
CHECK_DEADLOCK FALSE
INVARIANTS
    LeaseExclusive
    AttemptsLeaseApart
    NeverDisabledEarly
PROPERTIES
    NoOccurrenceSkipped
    DueIsReclaimed

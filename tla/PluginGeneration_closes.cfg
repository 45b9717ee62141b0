SPECIFICATION FairSpec
CONSTANTS
    g1 = g1
    g2 = g2
    g3 = g3
    Generations = {g1, g2, g3}
    Callers = {c1}
    Closers = {k1}
    IdOf <- MCIdOf
    None = None
INVARIANTS
    NoCallbackOnReleased
    CloseWaitsForRetirements
    NoSilentLeak
PROPERTIES
    RetirementEnds

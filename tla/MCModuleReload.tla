---------------------------- MODULE MCModuleReload ----------------------------
EXTENDS ModuleReload, TLC

CONSTANTS boot, o1, o2, k1, m1, j1, j2

OperatorSymmetry == Permutations({o1, o2})

\* Bound: three goroutines overlap.  The start and the close meet one operator, two
\* operators meet each other in a bot that is up.
ThreeOverlap ==
    at[boot] # "up" \/ Closing => at[o1] = "idle" \/ at[o2] = "idle"

\* Bound: calls change the plugin's row; the builtin module's says "off" or is missing.
OneRowChanges ==
    stored[m1] # "on" /\ \A p \in Callers : change[p].module # m1
=============================================================================

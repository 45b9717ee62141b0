-------------------------- MODULE MCSchedulerRuntime --------------------------
EXTENDS SchedulerRuntime, TLC

CONSTANTS c1, c2, c3, j1

CallerSymmetry == Permutations({c1, c2, c3})
=============================================================================

CONSTANTS
    Servers = {s1, s2}
    redundancy = 1
    MaxLosses = 0
    MaxCrashes = 0
    MaxBalances = 2
SPECIFICATION Spec
CHECK_DEADLOCK FALSE
INVARIANTS DataKept

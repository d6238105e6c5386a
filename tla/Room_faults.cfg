SPECIFICATION Spec
CONSTANTS
    Sweeps = {s1, s2}
    Lifetime = TRUE
    InOrder = TRUE
    AutoCreate = TRUE
    StartsAtJoin = TRUE
    Faults = TRUE
    MaxJoins = 2
    MaxCrashes = 1
INVARIANT HostPresence
PROPERTIES EndedIsFinal
CHECK_DEADLOCK FALSE

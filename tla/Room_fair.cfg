SPECIFICATION PartsSpec
CONSTANTS
    Sweeps = {s1}
    Overlapping = {s1, s2}
    Lifetime = TRUE
    InOrder = TRUE
    AutoCreate = TRUE
    StartsAtJoin = FALSE
    Faults = FALSE
    MaxJoins = 2
    MaxCrashes = 1
PROPERTIES RoomsEnd EndLeavesNothing
CHECK_DEADLOCK FALSE

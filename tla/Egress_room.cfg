CONSTANTS
    Starts = {k1, k2}
    Runs = {r1, r2}
    NoRun = NoRun
    InOrder = TRUE
    Serial = TRUE
    Prompt = TRUE
    MaxJoins = 2
    MaxFaults = 1
SPECIFICATION FairSpec
CHECK_DEADLOCK FALSE
INVARIANTS
    OneEgress
    EgressKnown
PROPERTIES
    EgressReachesViewer
    NothingOutlivesRoom

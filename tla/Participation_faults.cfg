SPECIFICATION Spec
CONSTANTS
    g1 = g1
    Host = h
    Users = {g1, h}
    Clients = {g1}
    Requests = {k1}
    MaxGuests = 1
    MaxSpeakers = 1
    MaxLoops = 1
    Ops <- MCOps
    Faults = TRUE
INVARIANTS GrantsRecorded SlotBound
PROPERTIES KickStands DemotionNeedsModeration

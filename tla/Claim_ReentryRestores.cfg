SPECIFICATION Spec
CONSTANTS
    g1 = g1
    Host = h
    Users = {g1}
    Clients = {g1}
    Requests = {k1}
    MaxGuests = 1
    MaxSpeakers = 1
    MaxLoops = 1
    Ops <- MCReentryOps
    Faults = FALSE
PROPERTIES ReentryRestores

SPECIFICATION QSpec
CONSTANTS
    g1 = g1
    Host = h
    Users = {g1, g2}
    Clients = {}
    Requests = {k1, k2}
    MaxGuests = 1
    MaxSpeakers = 1
    MaxLoops = 1
    Ops <- MCOps
    Faults = FALSE
    Refreshes = {q1}
    Nobody = Nobody
    Buttons = {"guest"}
    Asks = {k1}
PROPERTIES HostCanDecide GhostsLeave
CHECK_DEADLOCK FALSE

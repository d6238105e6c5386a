SPECIFICATION ServicesSpec
CONSTANTS
    MaxRooms = 2
    Users = {u1, u2}
    Pages = {p1, p2}
    Cap = 1
    Sweeps = {s1}
    None = None
    MaxVisits = 0
    MaxFaults = 1
    OnePage = {p1}
    ManySweeps = {s1, s2}
    Visits = 1
    Requests = {q1, q2, q3}
    ApiSweeps = {s1, s2}
INVARIANTS CapBound CleanExit
PROPERTY NothingPilesUp
CHECK_DEADLOCK FALSE

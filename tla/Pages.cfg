SPECIFICATION PagesSpec
CONSTANTS
    Nobody = Nobody
    Devices = {d1, d2}
    MaxAttempts = 1
    MaxOpens = 2
    MaxDrops = 1
    MaxMoves = 2
    MaxRuns = 5
    Loads = {l1}
    Polls = {p1, p2}
    MaxMounts = 2
    WatchMoves = 3
    MaxErrors = 1
    Setups = {k1, k2}
    MaxRooms = 3
    MaxFaults = 1
    Asks = {x, y, z}
    MaxToasts = 2
    Tabs = {t1, t2}
    MaxUsers = 4
    PerMinute = 1
    MaxLost = 2
    Guests = {g1, g2, g3}
    Ttl = 2
    MaxTries = 2
INVARIANTS DevicesReleased OnePlayer RoomInHand FocusReturns SameUser
PROPERTIES
    NoPingPong
    NotStranded
    DevicesFollowRole
    KickedStaysOut
    PlayerCatchesUp
    GetsIn
    UsesForgotten
CHECK_DEADLOCK FALSE

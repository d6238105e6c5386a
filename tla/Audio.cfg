SPECIFICATION AudioSpec
CONSTANTS
    tx = tx
    Users = {rx, tx}
    Rx = rx
    Tracks = {t1}
    Owner <- MCOwner
    Reports = {p1}
    MaxAttempts = 2
    MaxJoins = 1
    MaxDrops = 1
    MaxFaults = 1
    Viewers = {a}
    Polls = {q1, q2}
    Old = 2
    MaxMoves = 5
    Syncs = {s1, s2}
    Mutes = {r1, r2}
    MaxPubs = 3
    MaxActs = 5
    NoOne = NoOne
    People = {h, g, v}
    Host = h
    PageSize = 1
    MaxChanges = 4
INVARIANTS BaselineTrue BannerTrue BadgeTrue
PROPERTIES AlertsFollow MarksFollow KickAsAsked
CHECK_DEADLOCK FALSE

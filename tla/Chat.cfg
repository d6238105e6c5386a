SPECIFICATION ChatSpec
CONSTANTS
    Users = {u1}
    Writers = {w1}
    Readers = {r1, r2}
    Parts = {"messages"}
    Queries = {q1}
    None = None
    MaxChanges = 2
    MaxFaults = 1
    Ids = {1, 2}
    Gets = {g1, g2}
    History = 1
    Limit = 1
    Keep = 1
    Kinds = {"host", "viewer", "poller"}
    ClientChanges = 3
    ClientFaults = 1
    Drafts = {a, b}
    Members = {TRUE, FALSE}
    MaxOther = 1
    ViewFaults = 1
INVARIANTS AnsweredIsSeen ChatKept
PROPERTIES ReadsAreFresh FaultsHeal ListsConverge
CHECK_DEADLOCK FALSE

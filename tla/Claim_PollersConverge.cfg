SPECIFICATION FairSpec
CONSTANTS
    Ids = {1, 2}
    Gets = {g1}
    None = None
    History = 2
    Page = 2
    Keep = 2
    Kinds = {"poller"}
    MaxChanges = 2
    MaxFaults = 0
PROPERTIES PollersConverge
CHECK_DEADLOCK FALSE

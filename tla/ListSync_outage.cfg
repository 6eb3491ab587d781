SPECIFICATION Spec
CONSTANTS
    a = a  sched = sched  x = x  y = y
    Lists = {a}
    Titles = {x, y}
    OwnLists = {a}
    HasTmdb = {x, y}
    Removable = {x, y}
    Scheduled = {sched}
    Manual = {}
    Sweepers = {}
    Deleters = {}
    Nobody = Nobody
    NoItem = NoItem
    NoList = NoList
    MaxRequests = 1
    MaxFaults = 1
    MaxCrashes = 0
    Disturb <- Settling
INVARIANTS OutageMutesCycle

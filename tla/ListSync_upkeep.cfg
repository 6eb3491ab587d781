SPECIFICATION Spec
CONSTANTS
    a = a  sched = sched  sweep = sweep  x = x
    Lists = {a}
    Titles = {x}
    OwnLists = {a}
    HasTmdb = {x}
    Removable = {x}
    Scheduled = {sched}
    Manual = {}
    Sweepers = {sweep}
    Deleters = {}
    Nobody = Nobody
    NoItem = NoItem
    NoList = NoList
    MaxRequests = 1
    MaxFaults = 1
    MaxCrashes = 0
    Disturb <- Upkeep
INVARIANTS OnlyListedRequested RemovedIsOffTrakt

SPECIFICATION FairSpec
CONSTANTS
    a = a  b = b  del = del  sched = sched  x = x
    Lists = {a, b}
    Titles = {x}
    OwnLists = {a}
    HasTmdb = {x}
    Removable = {x}
    Scheduled = {sched}
    Manual = {}
    Sweepers = {}
    Deleters = {del}
    Nobody = Nobody
    NoItem = NoItem
    NoList = NoList
    MaxRequests = 2
    MaxFaults = 0
    MaxCrashes = 0
    Disturb <- Settling
PROPERTIES RequestedEventually RemovedEventually

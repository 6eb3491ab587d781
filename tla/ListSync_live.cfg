SPECIFICATION FairSpec
CONSTANTS
    a = a  del = del  sched = sched  x = x
    Lists = {a}
    Titles = {x}
    OwnLists = {a}
    HasTmdb = {x}
    Removable = {x}
    Scheduled = {sched}
    Manual = {}
    Sweepers = {}
    Deleters = {del}
    Nobody = Nobody
    NoItem = NoItem
    NoList = NoList
    MaxRequests = 2
    MaxFaults = 1
    MaxCrashes = 1
    Disturb <- Settling
PROPERTIES RequestedEventually RemovedEventually

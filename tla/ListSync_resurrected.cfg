SPECIFICATION Spec
CONSTANTS
    a = a  del = del  sched = sched  x = x
    Lists = {a}
    Titles = {x}
    OwnLists = {a}
    HasTmdb = {x}
    Removable = {x}
    Scheduled = {sched}
    Manual = {}
    Sweepers = {}
    Deleters = {del}
    Nobody = Nobody
    NoItem = NoItem
    NoList = NoList
    MaxRequests = 1
    MaxFaults = 0
    MaxCrashes = 0
    Disturb <- Settling
PROPERTIES RemovedIsFinal

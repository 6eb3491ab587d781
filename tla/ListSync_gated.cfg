SPECIFICATION Spec
CONSTANTS
    a = a  now = now  sched = sched  x = x  y = y
    Lists = {a}
    Titles = {x, y}
    OwnLists = {a}
    HasTmdb = {x}
    Removable = {x, y}
    Scheduled = {sched}
    Manual = {now}
    Sweepers = {}
    Deleters = {}
    Nobody = Nobody
    NoItem = NoItem
    NoList = NoList
    MaxRequests = 2
    MaxFaults = 1
    MaxCrashes = 1
    Disturb <- Downloads
INVARIANTS TypeOK OneCycle NoDuplicateRequest OnlyAvailableRemoved
PROPERTIES RemovedIsFinal GateRefined

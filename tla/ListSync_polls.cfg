SPECIFICATION Spec
CONSTANTS
    a = a  b = b  now = now  sched = sched  x = x
    Lists = {a, b}
    Titles = {x}
    OwnLists = {a}
    HasTmdb = {x}
    Removable = {x}
    Scheduled = {sched}
    Manual = {now}
    Sweepers = {}
    Deleters = {}
    Nobody = Nobody
    NoItem = NoItem
    NoList = NoList
    MaxRequests = 2
    MaxFaults = 1
    MaxCrashes = 1
    Disturb <- Downloads
INVARIANTS OneCycle NoDuplicateRequest TrippedCycleIsQuiet RemovedLeavesNoRequest
PROPERTIES DeclineRespected

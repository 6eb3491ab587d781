SPECIFICATION FairSpec
CONSTANTS
    job = job  run = run  scan = scan  del = del
    Files = {1, 2}
    Scheduled = {job}
    Runners = {run}
    Scanners = {}
    Deleters = {}
    Nobody = Nobody
    NoFile = NoFile
    SearchesPerRun = 1
    MaxFaults = 1
    MaxCrashes = 0
    Disturb = {"gone"}
INVARIANTS TypeOK BatchIsOurs
PROPERTIES PendingWorkedOff EveryRunEnds

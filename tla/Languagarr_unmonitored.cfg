SPECIFICATION Spec
CONSTANTS
    job = job  run = run  scan = scan  del = del
    Files = {1}
    Scheduled = {}
    Runners = {}
    Scanners = {scan}
    Deleters = {del}
    Nobody = Nobody
    NoFile = NoFile
    SearchesPerRun = 1
    MaxFaults = 0
    MaxCrashes = 0
    Disturb = {"monitor"}
INVARIANTS DeletedWasMonitored

SPECIFICATION Spec
CONSTANTS
    job = job  run = run  scan = scan  del = del
    Files = {1}
    Scheduled = {job}
    Runners = {}
    Scanners = {scan}
    Deleters = {del}
    Nobody = Nobody
    NoFile = NoFile
    SearchesPerRun = 1
    MaxFaults = 1
    MaxCrashes = 1
    Disturb = {"clear", "monitor", "settings", "profile", "gone"}
INVARIANTS OneAtATime SearchedWasAsked SearchedWasMonitored

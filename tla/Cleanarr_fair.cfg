SPECIFICATION FairSpec
CONSTANTS
    AppOrder <- BothApps
    DownloadOrder <- Two
    AppOf <- OneEach
    Records = {1, 2, 3}
    DownloadOf <- OfAll
    Usenet = {1, 2, 3}
    Matching = {}
    PatternMode = "exclude"
    TitleIgnored = {}
    CategoryChoices = {{}}
    StartJobs = {"none"}
    StartStates = {"blocked"}
    IgnoreLimit = 1
    MaxStrikes = 2
    Cap = 1
    StartDry = {TRUE, FALSE}
    RecordStates = {"out", "blocked"}
    Defects = {"no id", "folder only", "lost"}
    StrikeTop = 3
    MaxEntries = 2
    MaxMoves = 3
    Allowed <- JustWorld
CHECK_DEADLOCK FALSE
INVARIANTS TypeOK StrikesEarned CapKept ReportedOnce
PROPERTIES FailingHandled

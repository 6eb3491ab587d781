SPECIFICATION Spec
CONSTANTS
    AppOrder <- BothApps
    DownloadOrder <- Two
    AppOf <- OneEach
    Records = {1, 2, 3}
    DownloadOf <- OfAll
    Usenet = {1, 2, 3}
    Matching = {}
    PatternMode = "exclude"
    TitleIgnored = {2}
    CategoryChoices <- NoneOrMovie
    StartJobs = {"none", "Failed"}
    StartStates = {"out", "blocked"}
    IgnoreLimit = 1
    MaxStrikes = 2
    Cap = 1
    StartDry = {TRUE, FALSE}
    RecordStates = {"out", "ok", "blocked"}
    Defects = {"no id", "folder only", "lost"}
    StrikeTop = 3
    MaxEntries = 2
    MaxMoves = 2
    Allowed <- Moves
CHECK_DEADLOCK FALSE
INVARIANTS AlreadyGoneTrue
PROPERTIES OnlyFailingStruck OutageFreezes RemovalEarned

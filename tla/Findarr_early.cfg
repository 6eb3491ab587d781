SPECIFICATION Spec
CONSTANTS
    AppOrder <- SonarrOnly
    ModeOrder <- OneMode
    ItemOrder <- Episode
    AppOf <- AppOfItem
    SeriesOf <- SeriesOfItem
    SeasonOf <- SeasonOfItem
    Unmonitored = {}
    OwnerUnmonitored = {}
    Future = {}
    Upgradable = {1, 2, 3}
    Granularity <- ByEpisode
    ModeLimit <- Limit2
    Cap = 2
    Base = 1
    Longest = 4
    LookupLimit = 2
    Hour = 1
    Grace = 1
    Retention = 2
    MaxTime = 2
    MaxCommands = 3
    MaxMoves = 1
    Endings = {"completed", "failed"}
    Allowed <- Few
    FileStates = {"poor", "both"}
CHECK_DEADLOCK FALSE
INVARIANTS RetryDelayKept

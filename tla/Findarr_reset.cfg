SPECIFICATION Spec
CONSTANTS
    AppOrder <- SonarrOnly
    ModeOrder <- OneMode
    ItemOrder <- Episode
    AppOf <- AppOfItem
    SeriesOf <- SeriesOfItem
    SeasonOf <- SeasonOfItem
    Unmonitored = {}
    OwnerUnmonitored = {}
    Future = {}
    Upgradable = {1, 2, 3}
    Granularity <- ByEpisode
    ModeLimit <- Limit1
    Cap = 2
    Base = 1
    Longest = 4
    LookupLimit = 1
    Hour = 1
    Grace = 1
    Retention = 2
    MaxTime = 3
    MaxCommands = 3
    MaxMoves = 1
    Endings = {"completed"}
    Allowed <- Few
    FileStates = {"poor"}
CHECK_DEADLOCK FALSE
PROPERTIES ResetForgets

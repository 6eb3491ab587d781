SPECIFICATION FairSpec
CONSTANTS
    AppOrder <- Both
    ModeOrder <- OneMode
    ItemOrder <- EpisodeAndMovie
    AppOf <- AppOfItem
    SeriesOf <- SeriesOfItem
    SeasonOf <- SeasonOfItem
    Unmonitored = {}
    OwnerUnmonitored = {}
    Future = {}
    Upgradable = {1, 2, 3}
    Granularity <- ByEpisode
    ModeLimit <- Limit1
    Cap = 1
    Base = 3
    Longest = 4
    LookupLimit = 1
    Hour = 1
    Grace = 1
    Retention = 2
    FileStates = {"both"}
    Endings = {"completed", "purged"}
    MaxTime = 2
    MaxCommands = 3
    MaxMoves = 1
    Allowed <- Few
CHECK_DEADLOCK FALSE
INVARIANTS CapKept RetryKept OutcomeOnOwnRow VerdictTrue
PROPERTIES ResetStays OutcomeKnown

SPECIFICATION Spec
CONSTANTS
    AppOrder <- Both
    ModeOrder <- TwoModes
    ItemOrder <- AllItems
    AppOf <- AppOfItem
    SeriesOf <- SeriesOfItem
    SeasonOf <- SeasonOfItem
    Unmonitored = {2}
    OwnerUnmonitored = {}
    Future = {}
    Upgradable = {1, 2, 3}
    Granularity <- BySeason
    ModeLimit <- LimitByMode
    Cap = 1
    Base = 1
    Longest = 4
    LookupLimit = 1
    Hour = 1
    Grace = 1
    Retention = 2
    FileStates = {"missing", "both"}
    Endings = {"completed", "purged"}
    MaxTime = 1
    MaxCommands = 2
    MaxMoves = 1
    Allowed <- Few
CHECK_DEADLOCK FALSE
INVARIANTS CapKept OutcomeOnOwnRow VerdictTrue
PROPERTIES ResetStays

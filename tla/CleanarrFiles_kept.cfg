SPECIFICATION Spec
CONSTANTS
    EntryOrder <- TwoEntries
    NameOf <- SameName
    ContainerOf <- TvAndTop
    Containers = {"tv"}
    Categories = {"shows", "anime"}
    CategoryOf <- AnimeAndDefault
    FolderChoices <- ByCategory
    IdChoices = {{}}
    TitleChoices = {{}, {"number"}}
    CategoryChoices <- NoneOrAnime
    StartJobs = {"none", "queue", "history"}
    Retention = 1
    MaxTime = 3
    MaxMoves = 2
    Allowed <- Few
CHECK_DEADLOCK FALSE
INVARIANTS OneName
PROPERTIES IgnoreKept RetentionKept

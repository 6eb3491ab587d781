SPECIFICATION Spec
CONSTANTS
    EntryOrder <- TwoEntries
    NameOf <- SameName
    ContainerOf <- TvAndTop
    Containers = {"tv"}
    Categories = {"shows", "anime"}
    CategoryOf <- AnimeAndDefault
    FolderChoices <- ByCategory
    IdChoices = {{}, {"e1"}}
    TitleChoices = {{}}
    CategoryChoices <- NoneOrAnime
    StartJobs = {"none", "queue", "history"}
    Retention = 1
    MaxTime = 3
    MaxMoves = 2
    Allowed <- Few
CHECK_DEADLOCK FALSE
PROPERTIES OrphanWasFree OriginKept ImportingSpared

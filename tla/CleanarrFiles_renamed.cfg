SPECIFICATION Spec
CONSTANTS
    EntryOrder <- TwoEntries
    NameOf <- SameName
    ContainerOf <- TvAndTop
    Containers = {"tv"}
    Categories = {"shows", "anime"}
    CategoryOf <- AnimeAndDefault
    FolderChoices <- NoFolder
    IdChoices = {{}}
    TitleChoices = {{}}
    CategoryChoices = {{}}
    StartJobs = {"none", "queue", "history"}
    Retention = 1
    MaxTime = 3
    MaxMoves = 0
    Allowed <- Few
CHECK_DEADLOCK FALSE
PROPERTIES OrphanWasFree

SPECIFICATION Spec
CONSTANTS
    Paths <- SomePaths
    Dirs <- SomeDirs
    ClassOf <- Classes
    CompanionOf <- Companions
    StemOf <- Stems
    MatchesOf <- Matches
    Episodes = {"e1.mkv"}
    SizeOf <- Sizes
    LinkTo <- Links
    Kinds = {"movies", "tv"}
    DiskChoices <- SomeDisks
    ArrChoices <- CategoryAlone
    PathChoices <- TwoPaths
    Changing <- Touched
    Mount <- DataMount
    MaxPicked = 2
    MaxMoves = 1
    Allowed <- Few
CHECK_DEADLOCK FALSE
PROPERTIES TrackedSparedAnywhere

SPECIFICATION FairSpec
CONSTANTS
    Requests <- SomeRequests
    Limits <- OneLimit
    Users = {"u1", "u2"}
    Allowed <- Few
INVARIANTS MirrorTrue
PROPERTIES ManualPauseHolds LimitIsCurrent Settles

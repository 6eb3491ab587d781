SPECIFICATION Spec
CONSTANTS
    Requests <- SomeRequests
    Limits <- OneLimit
    Users = {"u1", "u2"}
    Allowed <- Few
PROPERTIES LeavesOthersPause

SPECIFICATION FairSpec
CONSTANTS
    Worker = {a, b}
    None = none
    Call = {"open", "read", "getattr", "mknod", "mkdir", "write"}
    Parts = {1, 2}
    MaxInFlight = 2
INVARIANTS
    TypeOK
    LinkDrains
PROPERTIES
    OwnAnswerWhenAlone
    ToldTheTruthWhenAlone
    LoneCallEnds
CHECK_DEADLOCK FALSE

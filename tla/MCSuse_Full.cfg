SPECIFICATION Spec
CONSTANTS
    progA = progA
    progB = progB
    mainA = mainA
    workerA1 = workerA1
    workerA2 = workerA2
    mainB = mainB
    semX = semX
    semY = semY
    Program = {progA, progB}
    Thread = {mainA, workerA1, workerA2, mainB}
    Owner <- MCOwner
    Main <- MCMain
    MaxMultiprog = 3
    Lts = lts
    None = none
    Sem = {semX}
    SemInit <- MCSemInit
    SemMax <- MCSemMax
    MayLeave <- OnlyB
    MayQuit = FALSE
SYMMETRY WorkersAlike
INVARIANTS
    TypeOK
    ListsMatchState
    CounterMatches
    SemQueueMatches
    BlockedHasOneWaker
    NoRedundantMove
    
    NoLostCreation
PROPERTY
    LifecycleSpec
CHECK_DEADLOCK FALSE

SPECIFICATION FairSpec
CONSTANTS
    progA = progA
    progB = progB
    mainA = mainA
    workerA1 = workerA1
    workerA2 = workerA2
    mainB = mainB
    semX = semX
    semY = semY
    Program = {progA, progB}
    Thread = {mainA, workerA1, mainB}
    Owner <- MCOwner
    Main <- MCMain
    MaxMultiprog = 3
    Lts = lts
    None = none
    Sem = {semX}
    SemInit <- MCSemInit
    SemMax <- MCSemMax
    MayLeave <- Nobody
    MayQuit = FALSE
INVARIANT
    LtsNeverHangs
PROPERTIES
    EveryThreadIsAdmitted
    SchedulingIsAnswered
    JoinSearchEnds
CHECK_DEADLOCK FALSE

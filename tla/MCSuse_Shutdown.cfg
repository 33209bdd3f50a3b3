SPECIFICATION FairSpec
CONSTANTS
    progA = progA
    progB = progB
    mainA = mainA
    workerA1 = workerA1
    workerA2 = workerA2
    mainB = mainB
    semX = semX
    semY = semY
    Program = {progA, progB}
    Thread = {mainA, mainB}
    Owner <- MCOwner
    Main <- MCMain
    MaxMultiprog = 2
    Lts = lts
    None = none
    Sem = {semX}
    SemInit <- MCSemInit
    SemMax <- MCSemMax
    MayLeave <- OnlyB
    MayQuit = TRUE
PROPERTIES
    JamIsADeadlock
    ShutdownReachesTheJoins
CHECK_DEADLOCK FALSE

SPECIFICATION Spec
CONSTANTS
    progA = progA
    progB = progB
    mainA = mainA
    workerA1 = workerA1
    workerA2 = workerA2
    mainB = mainB
    semX = semX
    semY = semY
    Program = {progA, progB}
    Thread = {mainA, workerA1, workerA2, mainB}
    Owner <- MCOwner
    Main <- MCMain
    MaxMultiprog = 2
    Lts = lts
    None = none
    Sem = {semX, semY}
    SemInit <- MCSemInit
    SemMax <- MCSemMax
    MayLeave <- OnlyB
    MayQuit = FALSE
SYMMETRY WorkersAlike
INVARIANTS
    SlotsAccounted
    OnlyLtsCanHang
PROPERTIES
    HangIsForever
CHECK_DEADLOCK FALSE

SPECIFICATION Spec
CONSTANTS
    NodeCount = 7
    MaxOpen = 0
    Path <- MCTwoDirs
    Longer <- MCNone
INVARIANT EveryMatchIsTried

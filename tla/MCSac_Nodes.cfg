SPECIFICATION Spec
CONSTANTS
    NodeCount = 4
    MaxOpen = 0
    Path <- MCPath
    Longer <- MCLonger
INVARIANTS
    SearchIsSound
    UniqueNamesAreFound
    OnlyTheTableIsWritten
    RootIsLostInTwoWays
PROPERTY FilesSpec

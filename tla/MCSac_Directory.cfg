SPECIFICATION Spec
CONSTANTS
    NodeCount = 7
    MaxOpen = 0
    Path <- MCPath
    Longer <- MCNone
PROPERTY DirectoryIsSavedWhereItWas

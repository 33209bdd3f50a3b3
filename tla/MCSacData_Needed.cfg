SPECIFICATION Spec
CONSTANTS
    File = {f}
    None = none
    BlockSize = 3
    DataCount = 3
    Offset <- MCOffset
    Size <- MCSize
    Text = {1, 2}
    MaxFileSize = 7
INVARIANT NeededBlocksAreAdded
CHECK_DEADLOCK FALSE

SPECIFICATION FairSpec
CONSTANTS
    File = {f, g}
    None = none
    BlockSize = 3
    DataCount = 3
    Offset <- MCOffset
    Size <- MCSize
    Text = {1, 2}
    MaxFileSize = 7
INVARIANTS
    TypeOK
    
    ListFitsTheSize
    MisdirectedOnlyAfterLoss
PROPERTIES
    
    WriteEnds
CHECK_DEADLOCK FALSE

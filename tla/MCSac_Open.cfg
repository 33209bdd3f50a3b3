SPECIFICATION Spec
CONSTANTS
    NodeCount = 3
    MaxOpen = 2
    Path <- MCPath
    Longer <- MCLonger
INVARIANTS
    TypeOK
    NodesHaveBits
    OpenedStayFiles

SPECIFICATION Spec
CONSTANTS
    FrameCount = 4
INVARIANT TypeOK
PROPERTIES
    VictimIsTheClocks
    NoFrameIsOverlooked

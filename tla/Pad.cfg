SPECIFICATION Spec
CONSTANTS
    DataOffset = 1
    HeadRange = 5
    SeekRange = 4
    PadSizes <- MCPadSizes
    TextSizes <- MCTextSizes
    Offsets <- MCOffsets
    MaxRuns = 3
    MaxKeys = 3
INVARIANTS
    TypeOK
    PadReuseNeedsKill
    HeaderLocatesPad
    KeyUsageFits
PROPERTY SavedHeadNeverRewinds
\* The user may stop starting the program.
CHECK_DEADLOCK FALSE

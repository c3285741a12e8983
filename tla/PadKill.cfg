SPECIFICATION Spec
CONSTANTS
    DataOffset = 1
    HeadRange = 5
    SeekRange = 4
    PadSizes <- MCPadSizes
    TextSizes <- MCTextSizes
    Offsets <- MCOffsets
    MaxRuns = 3
    MaxKeys = 3
INVARIANT PadUsedOnce
CHECK_DEADLOCK FALSE

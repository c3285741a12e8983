SPECIFICATION FairSpec
CONSTANTS
    Timeout = 3
    MsPerSec = 2
    UsPerMs = 2
    UnsignedMax = 10
    Late = 3
    HelloSize = 2
    AnswerSize = 1
    MaxSignals = 1
    MaxShift = 1
INVARIANTS TypeOK BudgetShared HandshakeBounded
PROPERTIES TimeLeftGrowsOnlyLate HandshakeEnds
\* A handshake ends.
CHECK_DEADLOCK FALSE

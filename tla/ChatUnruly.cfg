SPECIFICATION Spec
CONSTANTS
    alice = alice
    bob = bob
    Peers <- MCPeers
    Typists <- Alice
    Leavers <- MCPeers
    Quitters <- Nobody
    Patient = FALSE
    DataOffset = 1
    HeadRange = 7
    SeekRange = 5
    HeaderSize = 2
    TextSizes <- MCTextSizes
    PadSize = 3
    BadHeaders <- MCBadHeaders
    Room = 3
    MaxTexts = 2
    MaxSessions = 2
INVARIANTS
    TypeOK
    ShownInOrder
    WholeFramesDecrypt
    SocketMatchesState
\* Both loops may wait in select for a user who does nothing.
CHECK_DEADLOCK FALSE

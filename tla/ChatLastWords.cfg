SPECIFICATION FairSpec
CONSTANTS
    alice = alice
    bob = bob
    Peers <- MCPeers
    Typists <- Alice
    Leavers <- Alice
    Quitters <- Alice
    Patient = TRUE
    DataOffset = 1
    HeadRange = 7
    SeekRange = 5
    HeaderSize = 2
    TextSizes <- MCTextSizes
    PadSize = 3
    BadHeaders <- MCBadHeaders
    Room = 3
    MaxTexts = 2
    MaxSessions = 2
PROPERTIES
    DisconnectPropagates
    ImplementsChannel
    LastWordsArrive
\* Both loops may wait in select for a user who does nothing.
CHECK_DEADLOCK FALSE

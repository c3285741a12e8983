SPECIFICATION FairSpec
CONSTANTS
    alice = alice
    bob = bob
    Peers <- MCPeers
    Typists <- MCPeers
    Leavers <- Nobody
    Quitters <- Nobody
    Patient = TRUE
    DataOffset = 1
    HeadRange = 10
    SeekRange = 8
    HeaderSize = 2
    TextSizes <- MCOneSize
    PadSize = 6
    BadHeaders <- MCBadHeaders
    Room = 2
    MaxTexts = 2
    MaxSessions = 1
INVARIANT HeadsAgreeWhenIdle
PROPERTY ImplementsFairChannel
\* Both loops may wait in select for a user who does nothing.
CHECK_DEADLOCK FALSE

SPECIFICATION Spec
CONSTANTS
    DefaultPort = 2
    PortRange = 4
    UnsignedRange = 16
    SizeRange = 64
    Fds = {3, 4, 5}
    Infos = {1, 2, 3}
    MaxLeftovers = 1
    ArgLines <- MCArgLines
    Lines <- MCLines
INVARIANTS TypeOK NodesHoldTheirOwn LostOnlyInAccept LoopGoesOn AsWritten
PROPERTIES FirstHarmByStale ListenerSurvives
\* The program ends.
CHECK_DEADLOCK FALSE

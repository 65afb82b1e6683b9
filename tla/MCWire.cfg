CONSTANTS
    Client = Client
    Host = Host
    PrefixLen = 2
    MaxFrame = 3
    Tag = 1
    NoiseMax = 2
    ReadMax = 4
    SockCap = 5
    Payload <- Lengths
    MaxFrames <- FrameBound
    Names <- NamesBound
SPECIFICATION TunnelSpec
INVARIANTS
    NothingRefused
PROPERTIES
    ImplementsPipe
    FramesArrive
CHECK_DEADLOCK FALSE

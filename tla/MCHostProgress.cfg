CONSTANTS
    c1 = c1
    c2 = c2
    c3 = c3
    ann = ann
    ben = ben
    cat = cat
    None = None
    Owner = ann
    Conn <- TwoConns
    Fp <- TwoPeers
    MaxMembers = 2
    OutCap = 1
    BroadcastCap = 2
    Overlap <- Nobody
    MaxFrames = 2
    Talkers <- FirstConn
    MaxPings = 0
    Leavers <- SecondConn
    Slow <- SecondConn
    Stops = TRUE
SPECIFICATION FairSpec
PROPERTIES
    RoutingCompletes
    ShutdownDrains
CHECK_DEADLOCK FALSE

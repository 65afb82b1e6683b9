CONSTANTS
    c1 = c1
    c2 = c2
    c3 = c3
    ann = ann
    ben = ben
    cat = cat
    None = None
    Owner = ann
    Conn <- TwoConns
    Fp <- TwoPeers
    MaxMembers = 2
    OutCap = 1
    BroadcastCap = 1
    Overlap <- OnePeer
    MaxFrames = 2
    Talkers <- TwoConns
    MaxPings = 1
    Leavers <- SecondConn
    Slow <- Nobody
    Stops = FALSE
SPECIFICATION Spec
INVARIANTS
    SenderOrder
    RegistrationCoherent
    PeersIntroduced
    HolderWaitsOnlyForRoom
CHECK_DEADLOCK FALSE

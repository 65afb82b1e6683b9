CONSTANTS
    c1 = c1
    c2 = c2
    c3 = c3
    ann = ann
    ben = ben
    cat = cat
    None = None
    Owner = ann
    Conn <- ThreeConns
    Fp <- TwoPeers
    MaxMembers = 2
    OutCap = 1
    BroadcastCap = 3
    Overlap <- TwoPeers
    MaxFrames = 0
    Talkers <- TwoConns
    MaxPings = 0
    Leavers <- ThreeConns
    Slow <- Nobody
    Stops = FALSE
SPECIFICATION Spec
INVARIANTS
    ConnectedStaysRegistered
CHECK_DEADLOCK FALSE

CONSTANTS
    c1 = c1
    c2 = c2
    c3 = c3
    ann = ann
    ben = ben
    cat = cat
    None = None
    Owner = ann
    Conn <- ThreeConns
    Fp <- ThreePeers
    MaxMembers = 3
    OutCap = 1
    BroadcastCap = 3
    Overlap <- Nobody
    MaxFrames = 1
    Talkers <- SecondConn
    MaxPings = 0
    Leavers <- Nobody
    Slow <- Nobody
    Stops = FALSE
SPECIFICATION Spec
INVARIANTS
    NoneForgotten
SYMMETRY OthersSymmetry
CHECK_DEADLOCK FALSE

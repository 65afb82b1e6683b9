CONSTANTS
    Header = 4
    Lengths = 4
    Byte <- Bytes
    Malformed = Malformed
    alice = alice
    bob = bob
    Peer <- Peers
    Sender <- Peers
    Width = 2
    MaxSeq = 4
SPECIFICATION Spec
INVARIANTS
    TypeOK
    NeverTwice
    RefusalJustified
    WindowInv
PROPERTIES
    ImplementsAntiReplay
    NumbersNeverReused
SYMMETRY PeerSymmetry
CHECK_DEADLOCK FALSE

---------------------------- MODULE MCHostRelay ----------------------------
(* Small instances of the relay: two or three connections of two or three   *)
(* fingerprints.                                                            *)
EXTENDS HostRelayProps, TLC

CONSTANTS c1, c2, c3, ann, ben, cat

TwoConns == {c1, c2}
Nobody == {}
FirstConn == {c1}
SecondConn == {c2}
ThreeConns == {c1, c2, c3}
TwoPeers == {ann, ben}
OnePeer == {ben}
ThreePeers == {ann, ben, cat}
OthersSymmetry == Permutations({c1, c3}) \cup Permutations({ben, cat})
=============================================================================

-------------------------- MODULE MCMessageService --------------------------
(* Two participants, a window of two numbers and four envelopes each: a     *)
(* number can be inside the window, on its edge and behind it.  Beside it, the *)
(* padding of messages of up to four bytes to blocks of eight and of two.      *)
EXTENDS MessageService, Padding, TLC

CONSTANTS alice, bob

Peers == {alice, bob}
PeerSymmetry == Permutations(Peers)

Bytes == {0, 1}
Messages == UNION {[1 .. n -> Bytes] : n \in 0 .. 4}

\* The theorems of MessageProofs on these messages, and what becomes of one whose
\* length the header cannot tell: a shorter message is recovered, not an error.
ASSUME PaddingRecovers ==
    \A m \in Messages, b \in {2, 8} : \A p \in Padded(m, b) :
        /\ Unpad(p) = SubSeq(m, 1, Len(m) % Lengths)
        /\ Size(p) % b = 0
=============================================================================

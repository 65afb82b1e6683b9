----------------------------- MODULE MCBacklog -----------------------------
(* Two rooms, two senders, two recipients, three envelopes, one of them for *)
(* both, a limit of two messages per room, and one restart of a sender.     *)
EXTENDS Backlog, TLC

CONSTANTS r1, r2, ann, ben, cat, dan

Rooms == {r1, r2}
Senders == {ann, ben}
Recipients == {cat, dan}
BacklogSymmetry == {f \in Permutations(Rooms \cup Senders \cup Recipients) :
                      /\ \A r \in Rooms : f[r] \in Rooms
                      /\ \A s \in Senders : f[s] \in Senders}
=============================================================================

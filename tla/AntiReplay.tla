----------------------------- MODULE AntiReplay -----------------------------
(***************************************************************************)
(* What the receive side of MessageService promises, with no session, no   *)
(* counter and no bitmap: an envelope is accepted exactly when its number  *)
(* was not accepted before and lies less than Width below every number     *)
(* that was.  `delivered' counts how often each receiver accepted each     *)
(* number of each sender; `verdict' is the outcome of the latest call.     *)
(* Width is the bitmap of the code, 64 numbers; the reordering window of   *)
(* 32 that protocol.md and architecture.md give is ReorderingTolerance.    *)
(***************************************************************************)
EXTENDS Naturals

CONSTANTS Peer,     \* fingerprints
          Width,    \* size of the replay window
          MaxSeq    \* largest sequence number a sender reaches

VARIABLES delivered, verdict

absVars == <<delivered, verdict>>

Idle == [result |-> "none"]

Verdict(to, from, seq, result) ==
    [to |-> to, from |-> from, seq |-> seq, result |-> result]

\* Numbers already accepted by receiver `to' from sender `from'.
Accepted(to, from) == {s \in 1 .. MaxSeq : delivered[to][from][s] > 0}

Fresh(to, from, seq) == /\ seq \notin Accepted(to, from)
                        /\ \A s \in Accepted(to, from) : s < seq + Width

AbsInit == /\ delivered = [n \in Peer |-> [p \in Peer |-> [s \in 1 .. MaxSeq |-> 0]]]
           /\ verdict = Idle

Accept(to, from, seq) ==
    /\ Fresh(to, from, seq)
    /\ delivered' = [delivered EXCEPT ![to][from][seq] = @ + 1]
    /\ verdict' = Verdict(to, from, seq, "accepted")

Refuse(to, from, seq) ==
    /\ ~ Fresh(to, from, seq)
    /\ verdict' = Verdict(to, from, seq, "replay")
    /\ UNCHANGED delivered

\* A call that is not a well-formed receive leaves no trace.
Other == /\ \/ verdict' = Idle
            \/ \E to, from \in Peer, seq \in 1 .. MaxSeq :
                  verdict' = Verdict(to, from, seq, "malformed")
         /\ UNCHANGED delivered

AbsNext == \/ \E to, from \in Peer, seq \in 1 .. MaxSeq :
                 Accept(to, from, seq) \/ Refuse(to, from, seq)
           \/ Other

AbsSpec == AbsInit /\ [][AbsNext]_absVars
=============================================================================

--------------------------- MODULE MessageService ---------------------------
(***************************************************************************)
(* sanctum-app/message_service.rs: every participant runs one service that *)
(* numbers what it sends (prepare_envelope) and filters what it receives   *)
(* (process_received) with one Session per fingerprint.  The network in    *)
(* between may lose, delay, reorder, repeat and damage envelopes.          *)
(***************************************************************************)
EXTENDS Naturals, Session

CONSTANTS Peer,     \* fingerprints, each running its own service
          Sender,   \* bound: the peers that send
          MaxSeq    \* bound: prepare_envelope is not called past this number

ASSUME SenderAssumption == Sender \subseteq Peer
ASSUME MaxSeqAssumption == MaxSeq \in Nat

VARIABLES known,      \* known[n]: keys of n's `sessions' map
          sessions,   \* sessions[n][p]: NewSession until p is a key
          network,    \* envelopes ever sent, as [from, seq]
          delivered,  \* history: times n accepted number s of p
          verdict     \* outcome of the latest call

vars == <<known, sessions, network, delivered, verdict>>

Abs == INSTANCE AntiReplay WITH
           Peer <- Peer, Width <- Width, MaxSeq <- MaxSeq,
           delivered <- delivered, verdict <- verdict

Envelope == [from : Peer, seq : 1 .. MaxSeq]

Init == /\ known = [n \in Peer |-> {}]
        /\ sessions = [n \in Peer |-> [p \in Peer |-> NewSession]]
        /\ network = {}
        /\ Abs!AbsInit

\* Variant of Registered: registering a known peer again resets its session.
RegisteredAfresh(n, p) == NewSession

\* sessions.insert: the entry starts from a new session unless it exists.
Registered(n, p) == IF p \in known[n] THEN sessions[n][p] ELSE NewSession

RegisterSession(n, p) ==
    /\ known' = [known EXCEPT ![n] = @ \cup {p}]
    /\ sessions' = [sessions EXCEPT ![n][p] = Registered(n, p)]
    /\ verdict' = Abs!Idle
    /\ UNCHANGED <<network, delivered>>

MarkSessionEstablished(n, p) ==
    /\ p \in known[n]
    /\ sessions' = [sessions EXCEPT ![n][p] = MarkEstablished(@)]
    /\ verdict' = Abs!Idle
    /\ UNCHANGED <<known, network, delivered>>

\* The envelope is numbered from the sender's own session, whoever it is for.
PrepareEnvelope(n) ==
    /\ n \in known[n]
    /\ sessions[n][n].lastSent < MaxSeq
    /\ sessions' = [sessions EXCEPT ![n][n] = NextSendSequence(@)]
    /\ network' = network \cup {[from |-> n, seq |-> sessions'[n][n].lastSent]}
    /\ verdict' = Abs!Idle
    /\ UNCHANGED <<known, delivered>>

\* envelope.validate() fails before the session map is touched.
ReceiveDamaged(n, e) ==
    /\ verdict' = Abs!Verdict(n, e.from, e.seq, "malformed")
    /\ UNCHANGED <<known, sessions, network, delivered>>

ProcessReceived(n, e) ==
    LET session  == Registered(n, e.from)
        accepted == Accepts(session, e.seq)
    IN  /\ known' = [known EXCEPT ![n] = @ \cup {e.from}]
        /\ sessions' = [sessions EXCEPT ![n][e.from] = CheckReplay(session, e.seq)]
        /\ delivered' = IF accepted
                        THEN [delivered EXCEPT ![n][e.from][e.seq] = @ + 1]
                        ELSE delivered
        /\ verdict' = Abs!Verdict(n, e.from, e.seq,
                                  IF accepted THEN "accepted" ELSE "replay")
        /\ UNCHANGED network

Next == \/ \E n, p \in Peer : RegisterSession(n, p) \/ MarkSessionEstablished(n, p)
        \/ \E n \in Sender : PrepareEnvelope(n)
        \/ \E n \in Peer, e \in network :
              \* the relay never returns an envelope to its sender
              /\ n # e.from
              /\ ReceiveDamaged(n, e) \/ ProcessReceived(n, e)

Spec == Init /\ [][Next]_vars
-----------------------------------------------------------------------------
(* Properties *)

\* Every variable stays in its type.
TypeOK == /\ known \in [Peer -> SUBSET Peer]
          /\ sessions \in [Peer -> [Peer -> SessionState]]
          /\ network \subseteq Envelope
          /\ delivered \in [Peer -> [Peer -> [1 .. MaxSeq -> Nat]]]
          /\ verdict \in {Abs!Idle} \cup
                [to : Peer, from : Peer, seq : 1 .. MaxSeq,
                 result : {"accepted", "replay", "malformed"}]

\* No receiver ever accepts the same number of the same sender twice, however
\* the network repeats and reorders (check_replay, process_received).
NeverTwice == \A n, p \in Peer, s \in 1 .. MaxSeq : delivered[n][p][s] <= 1

\* An envelope is refused only if it was accepted before or fell out of the
\* window: reordering by less than Width loses nothing (check_replay; the
\* documents allow half of it, see ReorderingTolerance).
RefusalJustified ==
    verdict.result = "replay" =>
        LET A == Abs!Accepted(verdict.to, verdict.from)
        IN  \/ verdict.seq \in A
            \/ \E s \in A : s >= verdict.seq + Width

\* A service never numbers two envelopes alike, whatever is registered or
\* received in between: the nonce is derived from the number alone.
NumbersNeverReused ==
    [][\A n \in Peer :
          sessions'[n][n].lastSent # sessions[n][n].lastSent =>
             [from |-> n, seq |-> sessions'[n][n].lastSent] \notin network]_vars

\* The service implements the window stated over accepted numbers alone.
ImplementsAntiReplay == Abs!AbsSpec

(* What a session records of the set A of accepted numbers. *)
Reflects(s, A) ==
    /\ s.lastReceived = 0 => A = {}
    /\ s.lastReceived # 0 => s.lastReceived \in A
    /\ \A q \in A : q <= s.lastReceived
    /\ s.bitmap = {a \in Age : \E q \in A : q + a = s.lastReceived}

WindowExact(n, p) == Reflects(sessions[n][p], Abs!Accepted(n, p))

UnknownIsNew(n, p) == p \notin known[n] => sessions[n][p] = NewSession

\* The bitmap of every session is exactly the set of accepted numbers seen
\* from the highest one, cut at Width; numbers sent are those up to lastSent.
WindowInv == /\ TypeOK
             /\ NeverTwice
             /\ \A n, p \in Peer : WindowExact(n, p) /\ UnknownIsNew(n, p)
             /\ \A e \in network : e.seq <= sessions[e.from][e.from].lastSent
-----------------------------------------------------------------------------
(* What the documentation says and the code does not keep. *)

\* A number is accepted only inside a reordering window of 32 (protocol.md:191,
\* architecture.md:367), which is half of the Width of the code.
ReorderingTolerance ==
    verdict.result = "accepted" =>
        \A s \in Abs!Accepted(verdict.to, verdict.from) : s < verdict.seq + Width \div 2
=============================================================================

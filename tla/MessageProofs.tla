--------------------------- MODULE MessageProofs ---------------------------
(***************************************************************************)
(* Proofs about the messages of members.  MessageService, for every set of *)
(* peers, every window width and every bound on the sequence numbers; the  *)
(* Padding it offers, for every block size, message and choice of the      *)
(* random bytes; and the sessions of a room, Chat, for any clients,        *)
(* whoever starts sessions with whom and however often they come and go:   *)
(* their types and keys first, then why a text opens.                      *)
(***************************************************************************)
EXTENDS MessageService, Padding, Chat, FiniteSetTheorems, SequenceTheorems, TLAPS

-----------------------------------------------------------------------------
(* Lemmas about the window of one session. *)

\* Shifting the window by less than its width moves every bit up by the shift
\* and drops what leaves the word: the masked shift is the exact one.
LEMMA ShiftLeftExact ==
    ASSUME NEW bits \in SUBSET Age, NEW n \in Age
    PROVE  ShiftLeft(bits, n) = {a \in Age : \E b \in bits : a = b + n}
<1>1. n % Width = n
  BY WidthAssumption DEF Age
<1>2. QED
  BY <1>1 DEF ShiftLeft

\* A new session is well typed.
LEMMA NewSessionType == NewSession \in SessionState
  BY WidthAssumption DEF NewSession, SessionState, Age

\* check_replay maps a well-typed session to a well-typed session.
LEMMA CheckReplayType ==
    ASSUME NEW s \in SessionState, NEW q \in Nat
    PROVE  CheckReplay(s, q) \in SessionState
<1>1. CASE Newer(s, q)
  <2>1. ShiftedBitmap(s, q - s.lastReceived) \cup {0} \in SUBSET Age
    BY WidthAssumption DEF ShiftedBitmap, ShiftLeft, Age, SessionState
  <2>2. CheckReplay(s, q) = SlideTo(s, q)
    BY <1>1 DEF CheckReplay
  <2>3. QED
    BY <2>1, <2>2 DEF SlideTo, SessionState
<1>2. CASE ~ Newer(s, q) /\ InWindow(s, q)
  <2>1. s.bitmap \cup {AgeOf(s, q)} \in SUBSET Age
    BY <1>2, WidthAssumption DEF InWindow, AgeOf, Age, SessionState
  <2>2. CheckReplay(s, q) = MarkSeen(s, q)
    BY <1>2 DEF CheckReplay
  <2>3. QED
    BY <2>1, <2>2 DEF MarkSeen, SessionState
<1>3. CASE ~ Newer(s, q) /\ ~ InWindow(s, q)
  BY <1>3 DEF CheckReplay
<1>4. QED
  BY <1>1, <1>2, <1>3

\* A session that reflects the accepted numbers accepts exactly those that are
\* new and not behind the window.
LEMMA AcceptsExactly ==
    ASSUME NEW s \in SessionState, NEW A \in SUBSET (Nat \ {0}), Reflects(s, A),
           NEW q \in Nat \ {0}
    PROVE  Accepts(s, q) <=> q \notin A /\ \A t \in A : t < q + Width
<1> USE WidthAssumption
<1>1. CASE q > s.lastReceived
  BY <1>1 DEF Accepts, Newer, Reflects, SessionState
<1>2. CASE q <= s.lastReceived
  <2>1. s.lastReceived \in A
    BY <1>2 DEF Reflects, SessionState
  <2>2. AgeOf(s, q) \in Nat /\ AgeOf(s, q) + q = s.lastReceived
    BY <1>2 DEF AgeOf, SessionState
  <2>3. Accepts(s, q) <=> AgeOf(s, q) < Width /\ AgeOf(s, q) \notin s.bitmap
    BY <1>2 DEF Accepts, Newer, InWindow, SessionState
  <2>4. AgeOf(s, q) < Width => (AgeOf(s, q) \in s.bitmap <=> q \in A)
    <3>1. ASSUME AgeOf(s, q) < Width PROVE AgeOf(s, q) \in Age
      BY <2>2, <3>1 DEF Age
    <3>2. ASSUME NEW t \in A, t + AgeOf(s, q) = s.lastReceived PROVE t = q
      BY <2>2, <3>2 DEF SessionState
    <3>3. QED
      BY <2>2, <3>1, <3>2 DEF Reflects
  <2>5. AgeOf(s, q) < Width <=> \A t \in A : t < q + Width
    <3>1. AgeOf(s, q) < Width <=> s.lastReceived < q + Width
      BY <2>2 DEF SessionState
    <3>2. QED
      BY <2>1, <3>1 DEF Reflects, SessionState
  <2>6. QED
    BY <2>3, <2>4, <2>5
<1>3. QED
  BY <1>1, <1>2 DEF SessionState

\* check_replay keeps the session a reflection of the accepted numbers.
LEMMA CheckReplayReflects ==
    ASSUME NEW s \in SessionState, NEW A \in SUBSET (Nat \ {0}), Reflects(s, A),
           NEW q \in Nat \ {0}
    PROVE  Reflects(CheckReplay(s, q), IF Accepts(s, q) THEN A \cup {q} ELSE A)
<1> USE WidthAssumption
<1> DEFINE r == CheckReplay(s, q)
<1>1. CASE Newer(s, q)
  <2> DEFINE shift == q - s.lastReceived
  <2>1. /\ r.lastReceived = q
        /\ r.bitmap = ShiftedBitmap(s, shift) \cup {0}
    BY <1>1 DEF CheckReplay, SlideTo, SessionState
  <2>2. shift \in Nat \ {0} /\ q = s.lastReceived + shift
    BY <1>1 DEF Newer, SessionState
  <2>3. ShiftedBitmap(s, shift) = {a \in Age : \E t \in A : t + a = q}
    <3>1. CASE shift >= Width
      <4>1. ASSUME NEW a \in Age, NEW t \in A PROVE t + a # q
        BY <2>2, <3>1 DEF Age, Reflects, SessionState
      <4>2. QED
        BY <3>1, <4>1 DEF ShiftedBitmap
    <3>2. CASE shift < Width
      <4>1. shift \in Age
        BY <2>2, <3>2 DEF Age
      <4>2. s.bitmap \in SUBSET Age
        BY DEF SessionState
      <4>3. ShiftedBitmap(s, shift) = {a \in Age : \E b \in s.bitmap : a = b + shift}
        BY <2>2, <3>2, <4>1, <4>2, ShiftLeftExact DEF ShiftedBitmap
      <4>4. ASSUME NEW a \in Age
            PROVE  (\E b \in s.bitmap : a = b + shift) <=> (\E t \in A : t + a = q)
        <5>1. ASSUME NEW b \in s.bitmap, a = b + shift
              PROVE  \E t \in A : t + a = q
          BY <2>2, <5>1, <4>2 DEF Reflects, Age, SessionState
        <5>2. ASSUME NEW t \in A, t + a = q
              PROVE  \E b \in s.bitmap : a = b + shift
          <6>1. a - shift \in Age /\ t + (a - shift) = s.lastReceived
            <7>1. /\ t \in Nat /\ a \in Nat /\ shift \in Nat /\ s.lastReceived \in Nat
                  /\ t <= s.lastReceived /\ a < Width
              BY <2>2 DEF Reflects, Age, SessionState
            <7>2. t + a = s.lastReceived + shift
              BY <2>2, <5>2
            <7> HIDE DEF shift
            <7>3. a >= shift
              BY <7>1, <7>2
            <7>4. a - shift \in Nat
              BY <7>1, <7>3
            <7>5. a - shift < Width
              BY <7>1
            <7>6. t + (a - shift) = s.lastReceived
              BY <7>1, <7>2
            <7>7. QED
              BY <7>4, <7>5, <7>6 DEF Age
          <6>2. a - shift \in s.bitmap
            BY <6>1 DEF Reflects
          <6>3. a \in Nat /\ shift \in Nat
            BY <2>2 DEF Age
          <6>4. a = (a - shift) + shift
            BY <6>3
          <6>5. QED
            BY <6>2, <6>4
        <5>3. QED
          BY <5>1, <5>2
      <4>5. QED
        BY <4>3, <4>4
    <3>3. QED
      BY <2>2, <3>1, <3>2
  <2>4. \A t \in A \cup {q} : t <= q
    BY <2>2 DEF Reflects, SessionState
  <2>5. r.bitmap = {a \in Age : \E t \in A \cup {q} : t + a = q}
    BY <2>1, <2>3 DEF Age
  <2>6. Accepts(s, q)
    BY <1>1 DEF Accepts
  <2>7. QED
    BY <2>1, <2>4, <2>5, <2>6 DEF Reflects
<1>2. CASE ~ Newer(s, q) /\ InWindow(s, q)
  <2>1. /\ r.lastReceived = s.lastReceived
        /\ r.bitmap = s.bitmap \cup {AgeOf(s, q)}
    BY <1>2 DEF CheckReplay, MarkSeen, SessionState
  <2>2. AgeOf(s, q) \in Age /\ q + AgeOf(s, q) = s.lastReceived /\ q <= s.lastReceived
    BY <1>2 DEF InWindow, AgeOf, Age, SessionState
  <2>3. r.bitmap = {a \in Age : \E t \in A \cup {q} : t + a = s.lastReceived}
    <3>1. ASSUME NEW a \in Age, q + a = s.lastReceived PROVE a = AgeOf(s, q)
      BY <2>2, <3>1 DEF Age, SessionState
    <3>2. QED
      BY <2>1, <2>2, <3>1 DEF Reflects
  <2>4. Accepts(s, q)
    BY <1>2 DEF Accepts
  <2>5. QED
    BY <2>1, <2>2, <2>3, <2>4 DEF Reflects, SessionState
<1>3. CASE ~ Newer(s, q) /\ ~ InWindow(s, q)
  BY <1>3 DEF CheckReplay, Accepts
<1>4. QED
  BY <1>1, <1>2, <1>3

-----------------------------------------------------------------------------
(* The inductive invariant. *)

\* WindowInv holds initially.
LEMMA InitWindowInv == Init => WindowInv
<1> SUFFICES ASSUME Init PROVE WindowInv
  OBVIOUS
<1>1. TypeOK
  BY NewSessionType, MaxSeqAssumption
     DEF Init, TypeOK, Abs!AbsInit, Abs!Idle
<1>2. \A n, p \in Peer : Abs!Accepted(n, p) = {}
  BY MaxSeqAssumption DEF Init, Abs!AbsInit, Abs!Accepted
<1>3. \A n, p \in Peer : sessions[n][p] = NewSession
  BY DEF Init
<1>4. \A n, p \in Peer : WindowExact(n, p) /\ UnknownIsNew(n, p)
  BY <1>2, <1>3, WidthAssumption
     DEF WindowExact, Reflects, UnknownIsNew, NewSession
<1>5. NeverTwice
  BY MaxSeqAssumption DEF Init, Abs!AbsInit, NeverTwice
<1>6. QED
  BY <1>1, <1>4, <1>5 DEF WindowInv, Init

\* The accepted numbers depend on the history of deliveries alone.
LEMMA AcceptedUnchanged ==
    ASSUME NEW n \in Peer, NEW p \in Peer, delivered'[n][p] = delivered[n][p]
    PROVE  Abs!Accepted(n, p)' = Abs!Accepted(n, p)
BY DEF Abs!Accepted

\* In a state of the invariant every entry is already what sessions.insert or
\* the lookup yields.
LEMMA RegisteredIsSession ==
    ASSUME WindowInv, NEW n \in Peer, NEW p \in Peer
    PROVE  Registered(n, p) = sessions[n][p]
BY DEF WindowInv, UnknownIsNew, Registered

\* Updating one session of one service leaves all others alone.
LEMMA OneSessionUpdated ==
    ASSUME TypeOK, NEW n \in Peer, NEW p \in Peer, NEW s \in SessionState,
           sessions' = [sessions EXCEPT ![n][p] = s]
    PROVE  /\ sessions' \in [Peer -> [Peer -> SessionState]]
           /\ sessions'[n][p] = s
           /\ \A m, q \in Peer : (m # n \/ q # p) => sessions'[m][q] = sessions[m][q]
BY DEF TypeOK

\* Registering a session again keeps the one that is there.
LEMMA RegisterInv ==
    ASSUME WindowInv, NEW n \in Peer, NEW p \in Peer, RegisterSession(n, p)
    PROVE  WindowInv'
<1>1. sessions' = sessions
  BY RegisteredIsSession DEF RegisterSession, WindowInv, TypeOK
<1>2. TypeOK'
  BY <1>1 DEF RegisterSession, WindowInv, TypeOK
<1>3. ASSUME NEW m \in Peer, NEW q \in Peer
      PROVE  WindowExact(m, q)' /\ UnknownIsNew(m, q)'
  <2>1. Abs!Accepted(m, q)' = Abs!Accepted(m, q)
    BY AcceptedUnchanged DEF RegisterSession
  <2>2. known[m] \subseteq known'[m]
    BY DEF RegisterSession, WindowInv, TypeOK
  <2>3. QED
    BY <1>1, <2>1, <2>2 DEF WindowInv, WindowExact, UnknownIsNew
<1>4. QED
  BY <1>1, <1>2, <1>3 DEF RegisterSession, WindowInv, NeverTwice

\* Establishing a session disturbs neither its window nor its counter.
LEMMA EstablishInv ==
    ASSUME WindowInv, NEW n \in Peer, NEW p \in Peer, MarkSessionEstablished(n, p)
    PROVE  WindowInv'
<1> DEFINE s == MarkEstablished(sessions[n][p])
<1>1. /\ sessions' \in [Peer -> [Peer -> SessionState]]
      /\ \A m, q \in Peer :
            /\ sessions'[m][q].lastReceived = sessions[m][q].lastReceived
            /\ sessions'[m][q].bitmap = sessions[m][q].bitmap
            /\ sessions'[m][q].lastSent = sessions[m][q].lastSent
            /\ q \notin known[m] => sessions'[m][q] = sessions[m][q]
  <2>1. TypeOK /\ sessions[n][p] \in SessionState
    BY DEF WindowInv, TypeOK
  <2>2. /\ s \in SessionState
        /\ s.lastReceived = sessions[n][p].lastReceived
        /\ s.bitmap = sessions[n][p].bitmap
        /\ s.lastSent = sessions[n][p].lastSent
    BY <2>1 DEF MarkEstablished, SessionState
  <2>3. sessions' = [sessions EXCEPT ![n][p] = s] /\ p \in known[n]
    BY DEF MarkSessionEstablished
  <2> HIDE DEF s
  <2>4. /\ sessions' \in [Peer -> [Peer -> SessionState]]
        /\ sessions'[n][p] = s
        /\ \A m, q \in Peer : (m # n \/ q # p) => sessions'[m][q] = sessions[m][q]
    <3>1. sessions \in [Peer -> [Peer -> SessionState]]
      BY <2>1 DEF TypeOK
    <3>2. QED
      BY <2>2, <2>3, <3>1
  <2>5. ASSUME NEW m \in Peer, NEW q \in Peer
        PROVE  /\ sessions'[m][q].lastReceived = sessions[m][q].lastReceived
               /\ sessions'[m][q].bitmap = sessions[m][q].bitmap
               /\ sessions'[m][q].lastSent = sessions[m][q].lastSent
               /\ q \notin known[m] => sessions'[m][q] = sessions[m][q]
    <3>1. CASE m = n /\ q = p
      BY <2>2, <2>3, <2>4, <3>1
    <3>2. CASE m # n \/ q # p
      BY <2>4, <3>2
    <3>3. QED
      BY <3>1, <3>2
  <2>6. QED
    BY <2>4, <2>5
<1>2. TypeOK'
  BY <1>1 DEF MarkSessionEstablished, WindowInv, TypeOK
<1>3. ASSUME NEW m \in Peer, NEW q \in Peer
      PROVE  WindowExact(m, q)' /\ UnknownIsNew(m, q)'
  <2>1. Abs!Accepted(m, q)' = Abs!Accepted(m, q)
    BY AcceptedUnchanged DEF MarkSessionEstablished
  <2>2. QED
    BY <1>1, <2>1
       DEF WindowInv, WindowExact, Reflects, UnknownIsNew, MarkSessionEstablished
<1>4. QED
  BY <1>1, <1>2, <1>3
     DEF MarkSessionEstablished, WindowInv, NeverTwice, TypeOK, Envelope

\* Numbering an envelope moves only the sender's own send counter.
LEMMA PrepareInv ==
    ASSUME WindowInv, NEW n \in Peer, PrepareEnvelope(n)
    PROVE  WindowInv'
<1> DEFINE s == NextSendSequence(sessions[n][n])
<1>1. TypeOK /\ sessions[n][n] \in SessionState
  BY DEF WindowInv, TypeOK
<1>2. /\ s \in SessionState
      /\ s.lastReceived = sessions[n][n].lastReceived
      /\ s.bitmap = sessions[n][n].bitmap
      /\ s.lastSent = sessions[n][n].lastSent + 1
      /\ s.lastSent \in 1 .. MaxSeq
  <2>1. sessions[n][n].lastSent < MaxSeq
    BY DEF PrepareEnvelope
  <2>2. QED
    BY <1>1, <2>1, MaxSeqAssumption DEF NextSendSequence, SessionState
<1>3. sessions' = [sessions EXCEPT ![n][n] = s] /\ n \in known[n]
  BY DEF PrepareEnvelope
<1> HIDE DEF s
<1>4. /\ sessions' \in [Peer -> [Peer -> SessionState]]
      /\ sessions'[n][n] = s
      /\ \A m, q \in Peer : (m # n \/ q # n) => sessions'[m][q] = sessions[m][q]
  BY <1>1, <1>2, <1>3, OneSessionUpdated
<1>5. network' = network \cup {[from |-> n, seq |-> s.lastSent]}
  BY <1>4 DEF PrepareEnvelope
<1>6. TypeOK'
  BY <1>1, <1>2, <1>4, <1>5 DEF PrepareEnvelope, TypeOK, Envelope
<1>7. ASSUME NEW m \in Peer, NEW q \in Peer
      PROVE  WindowExact(m, q)' /\ UnknownIsNew(m, q)'
  <2>1. Abs!Accepted(m, q)' = Abs!Accepted(m, q)
    BY AcceptedUnchanged DEF PrepareEnvelope
  <2>2. /\ sessions'[m][q].lastReceived = sessions[m][q].lastReceived
        /\ sessions'[m][q].bitmap = sessions[m][q].bitmap
        /\ q \notin known[m] => sessions'[m][q] = sessions[m][q]
    BY <1>2, <1>3, <1>4
  <2>3. QED
    BY <2>1, <2>2
       DEF WindowInv, WindowExact, Reflects, UnknownIsNew, PrepareEnvelope
<1>8. ASSUME NEW e \in network' PROVE e.seq <= sessions'[e.from][e.from].lastSent
  <2>1. CASE e \in network
    <3>1. e.from \in Peer /\ e.seq \in Nat /\ e.seq <= sessions[e.from][e.from].lastSent
      BY <2>1, <1>1, MaxSeqAssumption DEF WindowInv, TypeOK, Envelope
    <3>2. sessions[e.from][e.from].lastSent \in Nat
      BY <1>1, <3>1 DEF TypeOK, SessionState
    <3>3. sessions'[e.from][e.from].lastSent >= sessions[e.from][e.from].lastSent
      BY <1>2, <1>4, <3>1, <3>2
    <3>4. sessions'[e.from][e.from].lastSent \in Nat
      BY <1>4, <3>1 DEF SessionState
    <3>5. QED
      BY <3>1, <3>2, <3>3, <3>4
  <2>2. CASE e = [from |-> n, seq |-> s.lastSent]
    BY <1>2, <1>4, <2>2
  <2>3. QED
    BY <1>5, <2>1, <2>2
<1>9. QED
  BY <1>6, <1>7, <1>8 DEF WindowInv, NeverTwice, PrepareEnvelope

\* Receiving: the window of the sender follows the numbers it accepts.
LEMMA ReceiveFacts ==
    ASSUME WindowInv, NEW n \in Peer, NEW e \in network, ProcessReceived(n, e)
    PROVE  LET s == sessions[n][e.from]
               t == CheckReplay(s, e.seq)
               A == Abs!Accepted(n, e.from)
           IN  /\ e.from \in Peer /\ e.seq \in 1 .. MaxSeq
               /\ s \in SessionState /\ t \in SessionState
               /\ t.lastSent = s.lastSent
               /\ A \in SUBSET (Nat \ {0})
               /\ Reflects(s, A)
               /\ Registered(n, e.from) = s
               /\ sessions' = [sessions EXCEPT ![n][e.from] = t]
<1>1. e.from \in Peer /\ e.seq \in 1 .. MaxSeq
  BY DEF WindowInv, TypeOK, Envelope
<1>2. Registered(n, e.from) = sessions[n][e.from]
  BY <1>1, RegisteredIsSession
<1>3. sessions[n][e.from] \in SessionState
  BY <1>1 DEF WindowInv, TypeOK
<1>4. CheckReplay(sessions[n][e.from], e.seq) \in SessionState
  BY <1>1, <1>3, CheckReplayType, MaxSeqAssumption
<1>5. CheckReplay(sessions[n][e.from], e.seq).lastSent = sessions[n][e.from].lastSent
  BY <1>3 DEF CheckReplay, SlideTo, MarkSeen, SessionState
<1>6. Abs!Accepted(n, e.from) \in SUBSET (Nat \ {0})
  BY MaxSeqAssumption DEF Abs!Accepted
<1>7. Reflects(sessions[n][e.from], Abs!Accepted(n, e.from))
  BY <1>1 DEF WindowInv, WindowExact
<1>8. sessions' = [sessions EXCEPT ![n][e.from] = CheckReplay(sessions[n][e.from], e.seq)]
  BY <1>2 DEF ProcessReceived
<1>9. QED
  BY <1>1, <1>2, <1>3, <1>4, <1>5, <1>6, <1>7, <1>8

\* A count of a three-level table of counts is a natural number.
LEMMA CountIsNat ==
    ASSUME NEW P, NEW S, NEW d \in [P -> [P -> [S -> Nat]]],
           NEW n \in P, NEW p \in P, NEW q \in S
    PROVE  d[n][p][q] \in Nat
<1>1. d[n] \in [P -> [S -> Nat]]
  OBVIOUS
<1>2. d[n][p] \in [S -> Nat]
  BY <1>1
<1>3. QED
  BY <1>2

\* check_replay on receipt keeps every window exact.
LEMMA ReceiveInv ==
    ASSUME WindowInv, NEW n \in Peer, NEW e \in network, ProcessReceived(n, e)
    PROVE  WindowInv'
<1> DEFINE p == e.from
           s == sessions[n][p]
           t == CheckReplay(s, e.seq)
           A == Abs!Accepted(n, p)
<1>1. /\ p \in Peer /\ e.seq \in 1 .. MaxSeq
      /\ s \in SessionState /\ t \in SessionState
      /\ t.lastSent = s.lastSent
      /\ A \in SUBSET (Nat \ {0})
      /\ Reflects(s, A)
      /\ Registered(n, p) = s
      /\ sessions' = [sessions EXCEPT ![n][p] = t]
  BY ReceiveFacts
<1>2. e.seq \in Nat \ {0}
  BY <1>1, MaxSeqAssumption
<1>3. Accepts(s, e.seq) => e.seq \notin A
  BY <1>1, <1>2, AcceptsExactly
<1>4. Reflects(t, IF Accepts(s, e.seq) THEN A \cup {e.seq} ELSE A)
  BY <1>1, <1>2, CheckReplayReflects
<1>5. /\ known' = [known EXCEPT ![n] = @ \cup {p}]
      /\ network' = network
      /\ delivered' = IF Accepts(s, e.seq)
                      THEN [delivered EXCEPT ![n][p][e.seq] = @ + 1]
                      ELSE delivered
      /\ verdict' = Abs!Verdict(n, p, e.seq,
                                IF Accepts(s, e.seq) THEN "accepted" ELSE "replay")
  BY <1>1 DEF ProcessReceived
<1> HIDE DEF p, s, t, A
<1>6. TypeOK
  BY DEF WindowInv
<1>7. /\ sessions' \in [Peer -> [Peer -> SessionState]]
      /\ sessions'[n][p] = t
      /\ \A m, q \in Peer : (m # n \/ q # p) => sessions'[m][q] = sessions[m][q]
  <2>1. sessions \in [Peer -> [Peer -> SessionState]]
    BY <1>6 DEF TypeOK
  <2>2. n \in Peer /\ p \in Peer /\ t \in SessionState /\ sessions' = [sessions EXCEPT ![n][p] = t]
    BY <1>1
  <2>3. QED
    BY <2>1, <2>2
<1>8. delivered \in [Peer -> [Peer -> [1 .. MaxSeq -> Nat]]]
  BY <1>6 DEF TypeOK
<1>9. ASSUME Accepts(s, e.seq)
      PROVE  /\ delivered' \in [Peer -> [Peer -> [1 .. MaxSeq -> Nat]]]
             /\ delivered'[n][p][e.seq] = delivered[n][p][e.seq] + 1
             /\ \A r \in 1 .. MaxSeq : r # e.seq => delivered'[n][p][r] = delivered[n][p][r]
             /\ \A m, q \in Peer : (m # n \/ q # p) => delivered'[m][q] = delivered[m][q]
  <2> DEFINE S == 1 .. MaxSeq
             k == e.seq
             g == [delivered[n][p] EXCEPT ![k] = @ + 1]
             h == [delivered[n] EXCEPT ![p] = g]
  <2>1. n \in Peer /\ p \in Peer /\ k \in S /\ delivered \in [Peer -> [Peer -> [S -> Nat]]]
    BY <1>1, <1>8
  <2>2. delivered' = [delivered EXCEPT ![n] = h]
    BY <1>5, <1>9
  <2> HIDE DEF S, k
  <2>3. delivered[n] \in [Peer -> [S -> Nat]] /\ delivered[n][p] \in [S -> Nat]
    BY <2>1
  <2>4. delivered[n][p][k] \in Nat
    BY <2>1, <2>3
  <2>5. /\ g \in [S -> Nat]
        /\ g[k] = delivered[n][p][k] + 1
        /\ \A r \in S : r # k => g[r] = delivered[n][p][r]
    BY <2>1, <2>3, <2>4
  <2> HIDE DEF g
  <2>6. h \in [Peer -> [S -> Nat]] /\ h[p] = g /\ \A q \in Peer : q # p => h[q] = delivered[n][q]
    BY <2>1, <2>3, <2>5
  <2> HIDE DEF h
  <2>7. /\ delivered' \in [Peer -> [Peer -> [S -> Nat]]]
        /\ delivered'[n] = h
        /\ \A m \in Peer : m # n => delivered'[m] = delivered[m]
    BY <2>1, <2>2, <2>6
  <2>8. \A m, q \in Peer : (m # n \/ q # p) => delivered'[m][q] = delivered[m][q]
    BY <2>6, <2>7
  <2>9. QED
    BY <2>5, <2>6, <2>7, <2>8 DEF S, k
<1>10. /\ delivered' \in [Peer -> [Peer -> [1 .. MaxSeq -> Nat]]]
       /\ Accepts(s, e.seq) =>
             /\ delivered'[n][p][e.seq] = delivered[n][p][e.seq] + 1
             /\ \A r \in 1 .. MaxSeq : r # e.seq => delivered'[n][p][r] = delivered[n][p][r]
       /\ ~ Accepts(s, e.seq) => delivered' = delivered
       /\ \A m, q \in Peer : (m # n \/ q # p) => delivered'[m][q] = delivered[m][q]
  <2>1. CASE Accepts(s, e.seq)
    BY <1>9, <2>1
  <2>2. CASE ~ Accepts(s, e.seq)
    BY <1>5, <1>8, <2>2
  <2>3. QED
    BY <2>1, <2>2
<1>11. Abs!Accepted(n, p)' = IF Accepts(s, e.seq) THEN A \cup {e.seq} ELSE A
  <2>1. CASE Accepts(s, e.seq)
    <3>1. delivered[n][p][e.seq] \in Nat
      BY <1>1, <1>8, CountIsNat
    <3>2. e.seq \in 1 .. MaxSeq /\ delivered'[n][p][e.seq] > 0
      BY <1>1, <1>10, <2>1, <3>1
    <3>3. \A r \in 1 .. MaxSeq : r # e.seq => delivered'[n][p][r] = delivered[n][p][r]
      BY <1>10, <2>1
    <3>4. A = {r \in 1 .. MaxSeq : delivered[n][p][r] > 0}
      BY DEF Abs!Accepted, A
    <3>5. Abs!Accepted(n, p)' = {r \in 1 .. MaxSeq : delivered'[n][p][r] > 0}
      BY DEF Abs!Accepted
    <3>6. \A r \in 1 .. MaxSeq : delivered'[n][p][r] > 0 <=> delivered[n][p][r] > 0 \/ r = e.seq
      BY <3>2, <3>3
    <3>7. {r \in 1 .. MaxSeq : delivered'[n][p][r] > 0} = A \cup {e.seq}
      BY <3>2, <3>4, <3>6
    <3>8. QED
      BY <2>1, <3>5, <3>7
  <2>2. CASE ~ Accepts(s, e.seq)
    BY <2>2, <1>10 DEF Abs!Accepted, A
  <2>3. QED
    BY <2>1, <2>2
<1>12. TypeOK'
  BY <1>1, <1>5, <1>6, <1>7, <1>10 DEF TypeOK, Abs!Verdict
<1>13. NeverTwice'
  <2>1. ASSUME NEW m \in Peer, NEW q \in Peer, NEW r \in 1 .. MaxSeq
        PROVE  delivered'[m][q][r] <= 1
    <3>1. delivered[m][q][r] \in Nat /\ delivered[m][q][r] <= 1
      BY <1>8, CountIsNat DEF WindowInv, NeverTwice
    <3>2. CASE m = n /\ q = p /\ r = e.seq /\ Accepts(s, e.seq)
      <4>1. e.seq \notin Abs!Accepted(n, p)
        BY <1>3, <3>2 DEF A
      <4>2. ~ (delivered[n][p][e.seq] > 0)
        BY <1>1, <4>1 DEF Abs!Accepted
      <4>3. delivered[n][p][e.seq] = 0
        BY <3>1, <3>2, <4>2
      <4>4. QED
        BY <3>2, <4>3, <1>10
    <3>3. CASE ~ (m = n /\ q = p /\ r = e.seq /\ Accepts(s, e.seq))
      BY <3>1, <3>3, <1>10
    <3>4. QED
      BY <3>2, <3>3
  <2>2. QED
    BY <2>1 DEF NeverTwice
<1>14. ASSUME NEW m \in Peer, NEW q \in Peer
       PROVE  WindowExact(m, q)' /\ UnknownIsNew(m, q)'
  <2>1. CASE m = n /\ q = p
    <3>1. WindowExact(n, p)'
      BY <1>4, <1>7, <1>11 DEF WindowExact, Reflects
    <3>2. p \in known'[n]
      BY <1>1, <1>5, <1>6 DEF TypeOK
    <3>3. QED
      BY <2>1, <3>1, <3>2 DEF UnknownIsNew
  <2>2. CASE m # n \/ q # p
    <3>1. sessions'[m][q] = sessions[m][q] /\ known[m] \subseteq known'[m]
      BY <2>2, <1>5, <1>6, <1>7 DEF TypeOK
    <3>2. Abs!Accepted(m, q)' = Abs!Accepted(m, q)
      BY <2>2, <1>10, AcceptedUnchanged
    <3>3. QED
      BY <3>1, <3>2 DEF WindowInv, WindowExact, Reflects, UnknownIsNew
  <2>3. QED
    BY <2>1, <2>2
<1>15. ASSUME NEW f \in network' PROVE f.seq <= sessions'[f.from][f.from].lastSent
  <2>1. f.from \in Peer /\ f.seq <= sessions[f.from][f.from].lastSent
    BY <1>5, <1>6 DEF WindowInv, TypeOK, Envelope
  <2>2. sessions'[f.from][f.from].lastSent = sessions[f.from][f.from].lastSent
    BY <2>1, <1>1, <1>7 DEF s
  <2>3. QED
    BY <2>1, <2>2
<1>16. QED
  BY <1>12, <1>13, <1>14, <1>15 DEF WindowInv

\* Every step keeps the invariant.
LEMMA NextWindowInv == WindowInv /\ [Next]_vars => WindowInv'
<1> SUFFICES ASSUME WindowInv, [Next]_vars PROVE WindowInv'
  OBVIOUS
<1>1. CASE UNCHANGED vars
  <2>1. /\ UNCHANGED <<known, sessions, network, delivered, verdict>>
        /\ \A n, p \in Peer : Abs!Accepted(n, p)' = Abs!Accepted(n, p)
    BY <1>1, AcceptedUnchanged DEF vars
  <2>2. QED
    BY <2>1 DEF WindowInv, TypeOK, NeverTwice, WindowExact, UnknownIsNew
<1>2. ASSUME NEW n \in Peer, NEW p \in Peer, RegisterSession(n, p) PROVE WindowInv'
  BY <1>2, RegisterInv
<1>3. ASSUME NEW n \in Peer, NEW p \in Peer, MarkSessionEstablished(n, p) PROVE WindowInv'
  BY <1>3, EstablishInv
<1>4. ASSUME NEW n \in Sender, PrepareEnvelope(n) PROVE WindowInv'
  BY <1>4, PrepareInv, SenderAssumption
<1>5. ASSUME NEW n \in Peer, NEW e \in network, ReceiveDamaged(n, e) PROVE WindowInv'
  <2>1. /\ UNCHANGED <<known, sessions, network, delivered>>
        /\ \A m, p \in Peer : Abs!Accepted(m, p)' = Abs!Accepted(m, p)
    BY <1>5, AcceptedUnchanged DEF ReceiveDamaged
  <2>2. TypeOK'
    BY <1>5, <2>1 DEF WindowInv, TypeOK, Envelope, ReceiveDamaged, Abs!Verdict
  <2>3. QED
    BY <2>1, <2>2 DEF WindowInv, NeverTwice, WindowExact, UnknownIsNew
<1>6. ASSUME NEW n \in Peer, NEW e \in network, ProcessReceived(n, e) PROVE WindowInv'
  BY <1>6, ReceiveInv
<1>7. QED
  BY <1>1, <1>2, <1>3, <1>4, <1>5, <1>6 DEF Next

-----------------------------------------------------------------------------
(* Theorems *)

\* In every reachable state each bitmap is exactly the set of accepted numbers
\* seen from the highest one (session.rs, check_replay).
THEOREM WindowAlwaysExact == Spec => []WindowInv
<1>1. Init => WindowInv
  BY InitWindowInv
<1>2. WindowInv /\ [Next]_vars => WindowInv'
  BY NextWindowInv
<1>3. QED
  BY <1>1, <1>2, PTL DEF Spec

\* The state of every service stays in its type.
THEOREM TypeCorrect == Spec => []TypeOK
<1>1. WindowInv => TypeOK
  BY DEF WindowInv
<1>2. QED
  BY <1>1, WindowAlwaysExact, PTL

\* No receiver accepts the same number of the same sender twice, however the
\* network repeats and reorders envelopes.
THEOREM NoReplayAccepted == Spec => []NeverTwice
<1>1. WindowInv => NeverTwice
  BY DEF WindowInv
<1>2. QED
  BY <1>1, WindowAlwaysExact, PTL

\* What a receive does to the history: it accepts a fresh number and counts it
\* once, or refuses a number that was accepted or is behind the window.
LEMMA ReceiveMapsToAbstract ==
    ASSUME WindowInv, NEW n \in Peer, NEW e \in network, ProcessReceived(n, e)
    PROVE  \/ Abs!Accept(n, e.from, e.seq)
           \/ Abs!Refuse(n, e.from, e.seq)
<1> DEFINE p == e.from
           s == sessions[n][p]
           A == Abs!Accepted(n, p)
<1>1. /\ p \in Peer /\ e.seq \in 1 .. MaxSeq
      /\ s \in SessionState
      /\ A \in SUBSET (Nat \ {0})
      /\ Reflects(s, A)
      /\ Registered(n, p) = s
  BY ReceiveFacts
<1>2. Accepts(s, e.seq) <=> e.seq \notin A /\ \A t \in A : t < e.seq + Width
  BY <1>1, AcceptsExactly, MaxSeqAssumption
<1>3. Accepts(s, e.seq) <=> Abs!Fresh(n, p, e.seq)
  BY <1>2 DEF Abs!Fresh
<1>4. QED
  BY <1>1, <1>3 DEF ProcessReceived, Abs!Accept, Abs!Refuse

\* Nothing but an acceptance counts, and a fresh envelope is never refused: the
\* service implements the window stated over accepted numbers alone.
THEOREM ServiceImplementsAntiReplay == Spec => ImplementsAntiReplay
<1>1. Init => Abs!AbsInit
  BY DEF Init
<1>2. WindowInv /\ [Next]_vars => [Abs!AbsNext]_(Abs!absVars)
  <2> SUFFICES ASSUME WindowInv, [Next]_vars PROVE [Abs!AbsNext]_(Abs!absVars)
    OBVIOUS
  <2>1. CASE UNCHANGED vars
    BY <2>1 DEF vars, Abs!absVars
  <2>2. ASSUME NEW n \in Peer, NEW p \in Peer,
               RegisterSession(n, p) \/ MarkSessionEstablished(n, p)
        PROVE  Abs!AbsNext
    BY <2>2 DEF RegisterSession, MarkSessionEstablished, Abs!AbsNext, Abs!Other
  <2>3. ASSUME NEW n \in Sender, PrepareEnvelope(n) PROVE Abs!AbsNext
    BY <2>3 DEF PrepareEnvelope, Abs!AbsNext, Abs!Other
  <2>4. ASSUME NEW n \in Peer, NEW e \in network, ReceiveDamaged(n, e)
        PROVE  Abs!AbsNext
    BY <2>4 DEF ReceiveDamaged, WindowInv, TypeOK, Envelope, Abs!AbsNext, Abs!Other
  <2>5. ASSUME NEW n \in Peer, NEW e \in network, ProcessReceived(n, e)
        PROVE  Abs!AbsNext
    <3>1. e.from \in Peer /\ e.seq \in 1 .. MaxSeq
      BY DEF WindowInv, TypeOK, Envelope
    <3>2. QED
      BY <2>5, <3>1, ReceiveMapsToAbstract DEF Abs!AbsNext
  <2>6. QED
    BY <2>1, <2>2, <2>3, <2>4, <2>5 DEF Next
<1>3. QED
  BY <1>1, <1>2, WindowAlwaysExact, PTL DEF Spec, ImplementsAntiReplay, Abs!AbsSpec

\* A refusal is always justified by an earlier acceptance or by the window.
THEOREM RefusalsJustified == Spec => []RefusalJustified
<1>1. Init => RefusalJustified
  BY DEF Init, Abs!AbsInit, Abs!Idle, RefusalJustified
<1>2. WindowInv /\ RefusalJustified /\ [Next]_vars => RefusalJustified'
  <2> SUFFICES ASSUME WindowInv, RefusalJustified, [Next]_vars
               PROVE  RefusalJustified'
    OBVIOUS
  <2>1. CASE UNCHANGED vars
    BY <2>1 DEF vars, RefusalJustified, Abs!Accepted
  <2>2. ASSUME verdict'.result # "replay" PROVE RefusalJustified'
    BY <2>2 DEF RefusalJustified
  <2>3. ASSUME NEW n \in Peer, NEW p \in Peer,
               RegisterSession(n, p) \/ MarkSessionEstablished(n, p)
        PROVE  verdict'.result # "replay"
    BY <2>3 DEF RegisterSession, MarkSessionEstablished, Abs!Idle
  <2>4. ASSUME NEW n \in Sender, PrepareEnvelope(n) PROVE verdict'.result # "replay"
    BY <2>4 DEF PrepareEnvelope, Abs!Idle
  <2>5. ASSUME NEW n \in Peer, NEW e \in network, ReceiveDamaged(n, e)
        PROVE  verdict'.result # "replay"
    BY <2>5 DEF ReceiveDamaged, Abs!Verdict
  <2>6. ASSUME NEW n \in Peer, NEW e \in network, ProcessReceived(n, e)
        PROVE  RefusalJustified'
    <3>1. CASE Abs!Accept(n, e.from, e.seq)
      BY <3>1 DEF Abs!Accept, Abs!Verdict, RefusalJustified
    <3>2. CASE Abs!Refuse(n, e.from, e.seq)
      <4>1. /\ verdict' = Abs!Verdict(n, e.from, e.seq, "replay")
            /\ Abs!Accepted(n, e.from)' = Abs!Accepted(n, e.from)
            /\ ~ Abs!Fresh(n, e.from, e.seq)
        BY <3>2 DEF Abs!Refuse, Abs!Accepted
      <4>2. \/ e.seq \in Abs!Accepted(n, e.from)
            \/ \E t \in Abs!Accepted(n, e.from) : ~ (t < e.seq + Width)
        BY <4>1 DEF Abs!Fresh
      <4>3. e.seq \in Nat /\ \A t \in Abs!Accepted(n, e.from) : t \in Nat
        BY MaxSeqAssumption DEF WindowInv, TypeOK, Envelope, Abs!Accepted
      <4>4. \/ e.seq \in Abs!Accepted(n, e.from)
            \/ \E t \in Abs!Accepted(n, e.from) : t >= e.seq + Width
        BY <4>2, <4>3, WidthAssumption
      <4>5. /\ verdict'.to = n /\ verdict'.from = e.from /\ verdict'.seq = e.seq
        BY <4>1 DEF Abs!Verdict
      <4>6. Abs!Accepted(verdict.to, verdict.from)' = Abs!Accepted(n, e.from)
        BY <4>1, <4>5 DEF Abs!Accepted
      <4>7. QED
        BY <4>4, <4>5, <4>6 DEF RefusalJustified
    <3>3. QED
      BY <2>6, <3>1, <3>2, ReceiveMapsToAbstract
  <2>7. QED
    BY <2>1, <2>2, <2>3, <2>4, <2>5, <2>6 DEF Next
<1>3. QED
  BY <1>1, <1>2, WindowAlwaysExact, PTL DEF Spec

\* Whatever is registered or received in between, prepare_envelope never gives
\* two envelopes of a sender the same number.
THEOREM NumbersUnique == Spec => NumbersNeverReused
<1> DEFINE Unused ==
       \A n \in Peer : sessions'[n][n].lastSent # sessions[n][n].lastSent =>
          [from |-> n, seq |-> sessions'[n][n].lastSent] \notin network
<1>1. WindowInv /\ [Next]_vars => [Unused]_vars
  <2> SUFFICES ASSUME WindowInv, Next PROVE Unused
    OBVIOUS
  <2>1. ASSUME NEW n \in Peer, NEW p \in Peer, RegisterSession(n, p) PROVE Unused
    <3>1. sessions' = sessions
      BY <2>1, RegisteredIsSession DEF RegisterSession, WindowInv, TypeOK
    <3>2. QED
      BY <3>1
  <2>2. ASSUME NEW n \in Peer, NEW p \in Peer, MarkSessionEstablished(n, p) PROVE Unused
    <3>1. /\ MarkEstablished(sessions[n][p]) \in SessionState
          /\ MarkEstablished(sessions[n][p]).lastSent = sessions[n][p].lastSent
          /\ sessions' = [sessions EXCEPT ![n][p] = MarkEstablished(sessions[n][p])]
      <4>1. sessions[n][p] \in SessionState
        BY DEF WindowInv, TypeOK
      <4>2. /\ MarkEstablished(sessions[n][p]) \in SessionState
            /\ MarkEstablished(sessions[n][p]).lastSent = sessions[n][p].lastSent
        BY <4>1 DEF MarkEstablished, SessionState
      <4>3. QED
        BY <2>2, <4>2 DEF MarkSessionEstablished
    <3>2. TypeOK
      BY DEF WindowInv
    <3>3. \A m \in Peer : sessions'[m][m].lastSent = sessions[m][m].lastSent
      BY <3>1, <3>2, OneSessionUpdated
    <3>4. QED
      BY <3>3
  <2>3. ASSUME NEW n \in Sender, PrepareEnvelope(n) PROVE Unused
    <3>1. n \in Peer /\ TypeOK
      BY SenderAssumption DEF WindowInv
    <3>2. sessions[n][n] \in SessionState
      BY <3>1 DEF TypeOK
    <3>3. /\ NextSendSequence(sessions[n][n]) \in SessionState
          /\ NextSendSequence(sessions[n][n]).lastSent = sessions[n][n].lastSent + 1
          /\ sessions' = [sessions EXCEPT ![n][n] = NextSendSequence(sessions[n][n])]
      BY <2>3, <3>2 DEF PrepareEnvelope, NextSendSequence, SessionState
    <3>4. /\ sessions'[n][n].lastSent = sessions[n][n].lastSent + 1
          /\ \A m \in Peer \ {n} : sessions'[m][m].lastSent = sessions[m][m].lastSent
      BY <3>1, <3>3, OneSessionUpdated
    <3>5. [from |-> n, seq |-> sessions[n][n].lastSent + 1] \notin network
      BY <3>1, <3>2 DEF WindowInv, SessionState
    <3>6. QED
      BY <3>4, <3>5
  <2>4. ASSUME NEW n \in Peer, NEW e \in network, ReceiveDamaged(n, e) PROVE Unused
    BY <2>4 DEF ReceiveDamaged
  <2>5. ASSUME NEW n \in Peer, NEW e \in network, ProcessReceived(n, e) PROVE Unused
    <3> DEFINE t == CheckReplay(sessions[n][e.from], e.seq)
    <3>1. /\ e.from \in Peer /\ t \in SessionState
          /\ t.lastSent = sessions[n][e.from].lastSent
          /\ sessions' = [sessions EXCEPT ![n][e.from] = t]
      BY <2>5, ReceiveFacts
    <3> HIDE DEF t
    <3>2. TypeOK
      BY DEF WindowInv
    <3>3. \A m \in Peer : sessions'[m][m].lastSent = sessions[m][m].lastSent
      BY <3>1, <3>2, OneSessionUpdated
    <3>4. QED
      BY <3>3
  <2>6. QED
    BY <2>1, <2>2, <2>3, <2>4, <2>5 DEF Next
<1>2. QED
  BY <1>1, WindowAlwaysExact, PTL DEF Spec, NumbersNeverReused
-----------------------------------------------------------------------------
(* Padding *)

\* The padded form takes the message and less than one block more.
LEMMA FillFits ==
    ASSUME NEW n \in Nat, NEW b \in Nat \ {0}
    PROVE  /\ Blocks(n, b) \in Nat
           /\ FillLen(n, b) \in 0 .. b - 1
<1> DEFINE x == Header + n
           q == (x + b - 1) \div b
<1>1. x \in Nat /\ x + b - 1 \in Nat
  BY PaddingAssumption
<1> HIDE DEF x
<1>2. /\ q \in Nat
      /\ x + b - 1 = b * q + ((x + b - 1) % b)
      /\ (x + b - 1) % b \in 0 .. b - 1
  BY <1>1
<1> HIDE DEF q
<1>3. q * b = b * q /\ b * q \in Nat
  BY <1>2
<1>4. q * b - x \in 0 .. b - 1
  BY <1>1, <1>2, <1>3
<1>5. Blocks(n, b) = q
  BY DEF Blocks, q, x
<1>6. FillLen(n, b) = q * b - x
  BY <1>3, <1>5, PaddingAssumption DEF FillLen, x
<1> QED BY <1>2, <1>4, <1>5, <1>6

\* What pad makes of a message.
LEMMA PaddedForm ==
    ASSUME NEW m \in Seq(Byte), NEW b \in Nat \ {0}, NEW p \in Padded(m, b)
    PROVE  /\ p.prefix = Len(m) % Lengths
           /\ Len(p.rest) = Len(m) + FillLen(Len(m), b)
           /\ p.rest \in Seq(Byte)
           /\ \A i \in 1 .. Len(m) : p.rest[i] = m[i]
<1> DEFINE k == FillLen(Len(m), b)
<1>1. k \in Nat /\ Len(m) \in Nat
  BY FillFits, LenProperties
<1> HIDE DEF k
<1>2. PICK fill \in [1 .. k -> Byte] :
         p = [prefix |-> Len(m) % Lengths, rest |-> m \o fill]
  BY DEF Padded, k
<1>3. fill \in Seq(Byte) /\ Len(fill) = k
  BY <1>1
<1>4. /\ m \o fill \in Seq(Byte)
      /\ Len(m \o fill) = Len(m) + k
      /\ \A i \in 1 .. Len(m) : (m \o fill)[i] = m[i]
  BY <1>1, <1>3, ConcatProperties
<1> QED BY <1>2, <1>4 DEF k

\* A message that the header can tell the length of is recovered.
THEOREM RoundTrip ==
    ASSUME NEW m \in Seq(Byte), NEW b \in Nat \ {0}, Len(m) < Lengths,
           NEW p \in Padded(m, b)
    PROVE  Unpad(p) = m
<1>1. Len(m) \in Nat /\ Len(m) % Lengths = Len(m)
  BY LenProperties, PaddingAssumption
<1>2. /\ p.prefix = Len(m) /\ p.rest \in Seq(Byte) /\ Len(p.rest) >= Len(m)
      /\ \A i \in 1 .. Len(m) : p.rest[i] = m[i]
  <2>1. FillLen(Len(m), b) \in 0 .. b - 1
    BY <1>1, FillFits
  <2>2. /\ p.prefix = Len(m) % Lengths
        /\ Len(p.rest) = Len(m) + FillLen(Len(m), b)
        /\ p.rest \in Seq(Byte)
        /\ \A i \in 1 .. Len(m) : p.rest[i] = m[i]
    BY PaddedForm, Zenon
  <2> QED BY <1>1, <2>1, <2>2
<1>3. Unpad(p) = SubSeq(p.rest, 1, Len(m))
  BY <1>1, <1>2, LenProperties DEF Unpad
<1> DEFINE s == SubSeq(p.rest, 1, Len(m))
<1>4. \A i \in 1 .. Len(m) : p.rest[i] \in Byte
  BY <1>2, ElementOfSeq
<1>5. s \in Seq(Byte) /\ Len(s) = Len(m) /\ \A i \in 1 .. Len(m) : s[i] = p.rest[i]
  BY <1>1, <1>4, SubSeqProperties
<1> HIDE DEF s
<1>6. s = m
  BY <1>2, <1>5, SeqEqual
<1> QED BY <1>3, <1>6 DEF s

\* A padded message is a whole number of blocks, the fewest that hold it: its size
\* tells of the message no more than that number.
THEOREM WholeBlocks ==
    ASSUME NEW m \in Seq(Byte), NEW b \in Nat \ {0}, NEW p \in Padded(m, b)
    PROVE  /\ Size(p) = Blocks(Len(m), b) * b
           /\ Size(p) - (Header + Len(m)) \in 0 .. b - 1
<1>1. /\ Len(m) \in Nat /\ Blocks(Len(m), b) \in Nat
      /\ FillLen(Len(m), b) \in 0 .. b - 1
  BY LenProperties, FillFits
<1>2. Size(p) = Header + Len(m) + FillLen(Len(m), b)
  <2>1. Len(p.rest) = Len(m) + FillLen(Len(m), b)
    BY PaddedForm, Zenon
  <2> QED BY <1>1, <2>1, PaddingAssumption DEF Size
<1>3. Blocks(Len(m), b) * b \in Nat
  BY <1>1
<1> QED BY <1>1, <1>2, <1>3, PaddingAssumption DEF FillLen
-----------------------------------------------------------------------------
(* The sessions of a room. *)

\* A root that belongs to the sending chains of the client with key pair k: X3DH
\* mixes the starter's keys first and the other's second, the starter sends from
\* roots of odd length and the other from roots of even length.
Rooted(root, k) == /\ Len(root) >= 2
                   /\ Len(root) % 2 = 1 => root[1] = {k}
                   /\ Len(root) % 2 = 0 => root[2] = {k}

\* A chain key that the sending chain of s has left behind.
Behind(s, k) == /\ s.send # None
                /\ Len(k.root) < Len(s.root) \/ (k.root = s.root /\ k.at < s.send.at)

\* The states of a ratchet: it receives only after it has learnt a remote key, and
\* can then send; what it keeps it has received; its sending chain is its root's.
Sound(s) == /\ s \in States(Key)
            /\ s.send # None => s.send.root = s.root
            /\ s.recv # None => s.remote # None /\ s.send # None
            /\ s.skipped # {} => s.recv # None

\* t is s further on: it belongs to the same client, can send if s can, and has
\* left behind what s has.
Onward(s, t) == /\ \A k \in Key : Rooted(s.root, k) => Rooted(t.root, k)
                /\ s.send # None => t.send # None
                /\ \A k \in ChainKeys(Key) : Behind(s, k) => Behind(t, k)

\* Two steps on the parity is the same.
LEMMA TwoOn ==
    ASSUME NEW r, NEW q, Len(r) \in Nat, Len(q) = Len(r) + 2
    PROVE  Len(q) % 2 = Len(r) % 2
OBVIOUS

\* Two roots that are the same belong to one client.
LEMMA RootedOnce ==
    ASSUME NEW r, Len(r) \in Nat, NEW k, NEW l, Rooted(r, k), Rooted(r, l)
    PROVE  k = l
<1>1. Len(r) % 2 = 0 \/ Len(r) % 2 = 1
  OBVIOUS
<1>2. {k} = {l}
  BY <1>1 DEF Rooted
<1> QED BY <1>2

\* What a state of a ratchet is made of.
LEMMA StateParts ==
    ASSUME NEW s \in States(Key)
    PROVE  /\ s.self \in Key /\ s.remote \in Key \cup {None}
           /\ s.root \in Seq(SUBSET Key) /\ Len(s.root) \in Nat
           /\ s.send \in ChainKeys(Key) \cup {None} /\ s.recv \in ChainKeys(Key) \cup {None}
           /\ s.nsend \in Nat /\ s.nrecv \in Nat /\ s.prev \in Nat
           /\ s.skipped \in SUBSET SkippedKeys(Key) /\ s # None
BY LenProperties, ChatNoneAssumption DEF States

\* What a chain key is, and where steps along its chain lead.
LEMMA ChainParts ==
    ASSUME NEW k \in ChainKeys(Key)
    PROVE  /\ Len(k.root) \in Nat /\ k.at \in Nat /\ k # None
           /\ \A n \in Nat : /\ After(k, n) \in ChainKeys(Key) /\ After(k, n) # None
                             /\ After(k, n).root = k.root /\ After(k, n).at = k.at + n
<1>1. ASSUME NEW n \in Nat
      PROVE  /\ After(k, n) \in ChainKeys(Key)
             /\ After(k, n).root = k.root /\ After(k, n).at = k.at + n
  BY DEF ChainKeys, After
<1> QED BY <1>1, LenProperties, ChatNoneAssumption DEF ChainKeys

\* Mixing adds one to a root and leaves what was mixed in before.
LEMMA MixParts ==
    ASSUME NEW r \in Seq(SUBSET Key), NEW a \in Key, NEW b \in Key
    PROVE  /\ Mix(r, a, b) \in Seq(SUBSET Key) /\ Len(Mix(r, a, b)) = Len(r) + 1
           /\ \A i \in 1 .. Len(r) : Mix(r, a, b)[i] = r[i]
           /\ Chain(Mix(r, a, b)) \in ChainKeys(Key)
           /\ Chain(Mix(r, a, b)).root = Mix(r, a, b) /\ Chain(Mix(r, a, b)).at = 0
<1>1. {a, b} \in SUBSET Key
  OBVIOUS
<1>2. /\ Append(r, {a, b}) \in Seq(SUBSET Key) /\ Len(Append(r, {a, b})) = Len(r) + 1
      /\ \A i \in 1 .. Len(r) : Append(r, {a, b})[i] = r[i]
  BY <1>1, AppendProperties
<1> QED BY <1>2 DEF Mix, Chain, ChainKeys

\* A state with the same root and sending chain is further on.
LEMMA OnwardSame ==
    ASSUME NEW s, NEW t, t.root = s.root, t.send = s.send
    PROVE  Onward(s, t)
BY DEF Onward, Behind

\* Two steps further on are further on.
LEMMA OnwardTwice ==
    ASSUME NEW s, NEW t, NEW u, Onward(s, t), Onward(t, u)
    PROVE  Onward(s, u)
BY DEF Onward

\* encrypt goes one step along the sending chain.
LEMMA SealedStep ==
    ASSUME NEW s, Sound(s), s.send # None
    PROVE  /\ Sound(Sealed(s)) /\ Onward(s, Sealed(s)) /\ Behind(Sealed(s), s.send)
           /\ Sealed(s).root = s.root /\ Sealed(s).send # None
           /\ s.send \in ChainKeys(Key)
<1> DEFINE t == Sealed(s)
<1>1. s \in States(Key) /\ s.send \in ChainKeys(Key) /\ s.send.root = s.root /\ s.nsend \in Nat
  BY StateParts DEF Sound
<1>2. /\ After(s.send, 1) \in ChainKeys(Key) /\ After(s.send, 1) # None /\ s.send.at \in Nat
      /\ After(s.send, 1).root = s.root /\ After(s.send, 1).at = s.send.at + 1
  BY <1>1, ChainParts
<1>n. t = [s EXCEPT !.send = After(s.send, 1), !.nsend = s.nsend + 1]
  BY DEF Sealed
<1>m. PICK n \in Nat : n = s.nsend + 1
  BY <1>1
<1>3. t = [s EXCEPT !.send = After(s.send, 1), !.nsend = n]
  BY <1>n, <1>m
<1> HIDE DEF t
<1>4. /\ t.send = After(s.send, 1) /\ t.root = s.root /\ t.recv = s.recv
      /\ t.remote = s.remote /\ t.skipped = s.skipped /\ t \in States(Key)
  BY <1>1, <1>2, <1>3 DEF States
<1>5. Sound(t)
  BY <1>2, <1>4 DEF Sound
<1>6. ASSUME NEW k \in ChainKeys(Key), Behind(s, k) PROVE Behind(t, k)
  <2>1. k.at \in Nat
    BY ChainParts
  <2> QED BY <1>2, <1>4, <1>6, <2>1 DEF Behind
<1>7. Behind(t, s.send)
  BY <1>1, <1>2, <1>4 DEF Behind
<1> QED BY <1>1, <1>2, <1>4, <1>5, <1>6, <1>7 DEF t, Onward

\* skip_messages leaves the root and the sending chain alone.
LEMMA SkipOn ==
    ASSUME NEW s, Sound(s), NEW until \in Nat
    PROVE  Sound(Skip(s, until)) /\ Onward(s, Skip(s, until))
<1>1. CASE s.recv = None \/ until <= s.nrecv
  BY <1>1, OnwardSame DEF Skip
<1>2. CASE ~ (s.recv = None \/ until <= s.nrecv)
  <2> DEFINE passed == s.nrecv .. until - 1
             new == {[dh |-> s.remote, n |-> i, key |-> After(s.recv, i - s.nrecv)] : i \in passed}
             old == {e \in s.skipped : ~ (e.dh = s.remote /\ e.n \in passed)}
             t == Skip(s, until)
  <2>1. /\ s \in States(Key) /\ s.recv \in ChainKeys(Key) /\ s.remote \in Key
        /\ s.nrecv \in Nat /\ s.nrecv < until /\ s.recv # None /\ s.send # None
        /\ s.skipped \in SUBSET SkippedKeys(Key)
    BY <1>2, StateParts DEF Sound
  <2>2. t = [s EXCEPT !.skipped = old \cup new, !.nrecv = until,
                      !.recv = After(s.recv, until - s.nrecv)]
    BY <1>2 DEF Skip
  <2>3. \A i \in Nat : i >= s.nrecv => After(s.recv, i - s.nrecv) \in ChainKeys(Key)
                                       /\ After(s.recv, i - s.nrecv) # None
    <3> TAKE i \in Nat
    <3> HAVE i >= s.nrecv
    <3>1. i - s.nrecv \in Nat
      BY <2>1
    <3> QED BY <2>1, <3>1, ChainParts
  <2>4. new \subseteq SkippedKeys(Key)
    BY <2>1, <2>3 DEF SkippedKeys
  <2>5. After(s.recv, until - s.nrecv) \in ChainKeys(Key) /\ After(s.recv, until - s.nrecv) # None
    BY <2>1, <2>3
  <2>6. /\ t.recv # None /\ t.root = s.root /\ t.send = s.send /\ t.remote = s.remote
        /\ t \in States(Key)
    <3> HIDE DEF new, t
    <3>1. old \cup new \in SUBSET SkippedKeys(Key)
      BY <2>1, <2>4
    <3> HIDE DEF old
    <3> QED BY <2>1, <2>2, <2>5, <3>1 DEF States
  <2> HIDE DEF t
  <2>7. t.remote # None
    BY <2>1, <2>6, ChatNoneAssumption
  <2>8. Sound(t)
    BY <2>1, <2>6, <2>7 DEF Sound
  <2> QED BY <2>6, <2>8, OnwardSame DEF t
<1> QED BY <1>1, <1>2

\* dh_ratchet goes two roots on, to the next sending chain of the same client.
LEMMA RatchetedOn ==
    ASSUME NEW s, Sound(s), NEW dh \in Key
    PROVE  Sound(Ratcheted(s, dh)) /\ Onward(s, Ratcheted(s, dh)) /\ Ratcheted(s, dh).recv # None
<1> DEFINE received == Mix(s.root, s.self, dh)
           fresh == Fresh(s.self)
           sending == Mix(received, fresh, dh)
           t == Ratcheted(s, dh)
<1>1. /\ s \in States(Key) /\ s.self \in Key /\ s.root \in Seq(SUBSET Key)
      /\ Len(s.root) \in Nat /\ s.nsend \in Nat
  BY StateParts DEF Sound
<1>2. fresh \in Key
  BY <1>1 DEF Fresh, Key
<1>3. /\ received \in Seq(SUBSET Key) /\ Len(received) = Len(s.root) + 1
      /\ \A i \in 1 .. Len(s.root) : received[i] = s.root[i]
      /\ Chain(received) \in ChainKeys(Key)
  BY <1>1, MixParts
<1> HIDE DEF received, fresh
<1>4. /\ sending \in Seq(SUBSET Key) /\ Len(sending) = Len(received) + 1
      /\ \A i \in 1 .. Len(received) : sending[i] = received[i]
      /\ Chain(sending) \in ChainKeys(Key) /\ Chain(sending).root = sending
  BY <1>2, <1>3, MixParts
<1> HIDE DEF sending
<1>5. t = [s EXCEPT !.prev = s.nsend, !.nsend = 0, !.nrecv = 0, !.remote = dh,
                    !.recv = Chain(received), !.self = fresh,
                    !.root = sending, !.send = Chain(sending)]
  BY DEF Ratcheted, received, fresh, sending
<1> HIDE DEF t
<1>6. /\ t.recv = Chain(received) /\ t.send = Chain(sending) /\ t.root = sending
      /\ t.remote = dh /\ t \in States(Key)
  BY <1>1, <1>2, <1>3, <1>4, <1>5 DEF States
<1>7. t.recv # None /\ t.send # None /\ dh # None
  BY <1>3, <1>4, <1>6, ChatNoneAssumption
<1>8. Sound(t)
  BY <1>4, <1>6, <1>7 DEF Sound
<1>9. ASSUME NEW k \in Key, Rooted(s.root, k) PROVE Rooted(sending, k)
  <2>1. Len(sending) = Len(s.root) + 2 /\ Len(s.root) >= 2
    BY <1>1, <1>3, <1>4, <1>9 DEF Rooted
  <2>2. sending[1] = s.root[1] /\ sending[2] = s.root[2]
    <3>1. {1, 2} \subseteq 1 .. Len(s.root) /\ {1, 2} \subseteq 1 .. Len(received)
      BY <1>1, <1>3, <2>1
    <3> QED BY <1>3, <1>4, <3>1
  <2>3. Len(sending) % 2 = Len(s.root) % 2
    BY <1>1, <2>1, TwoOn
  <2>4. Len(sending) >= 2
    BY <1>1, <2>1
  <2> QED BY <1>9, <2>2, <2>3, <2>4 DEF Rooted
<1>10. ASSUME NEW k \in ChainKeys(Key), Behind(s, k) PROVE Behind(t, k)
  <2>1. Len(k.root) \in Nat
    BY ChainParts
  <2>2. Len(k.root) < Len(sending)
    BY <1>1, <1>3, <1>4, <1>10, <2>1 DEF Behind
  <2> QED BY <1>6, <1>7, <2>2 DEF Behind
<1> QED BY <1>6, <1>7, <1>8, <1>9, <1>10 DEF t, Onward

\* decrypt goes on; a state that has a key to try can send.
LEMMA DecryptOn ==
    ASSUME NEW s, Sound(s), NEW m, m.dh \in Key, m.prev \in Nat, m.n \in Nat
    PROVE  /\ Sound(Decrypt(s, m).state) /\ Onward(s, Decrypt(s, m).state)
           /\ Decrypt(s, m).key # None => Decrypt(s, m).state.send # None
<1>1. CASE Kept(s, m) # {}
  <2>1. PICK e \in s.skipped : ByKeptKey(s, m) = [state |-> GivenUp(s, e), key |-> e.key]
    BY <1>1 DEF ByKeptKey, Kept
  <2> DEFINE t == GivenUp(s, e)
  <2>2. s \in States(Key) /\ s.skipped \in SUBSET SkippedKeys(Key) /\ s.recv # None /\ s.send # None
    BY <2>1, StateParts DEF Sound
  <2>3. /\ t.skipped = s.skipped \ {e} /\ t.recv = s.recv /\ t.root = s.root
        /\ t.send = s.send /\ t.remote = s.remote /\ t \in States(Key)
    BY <2>2 DEF GivenUp, States
  <2> HIDE DEF t
  <2>4. Sound(t) /\ Onward(s, t)
    BY <2>2, <2>3, OnwardSame DEF Sound
  <2>5. Decrypt(s, m).state = t
    BY <1>1, <2>1 DEF Decrypt, t
  <2> QED BY <2>2, <2>3, <2>4, <2>5
<1>2. CASE Kept(s, m) = {} /\ m.dh # s.remote /\ TooFar(s, m.prev)
  <2>1. Decrypt(s, m) = [state |-> s, key |-> None]
    BY <1>2 DEF Decrypt
  <2> QED BY <2>1, OnwardSame
<1>3. CASE Kept(s, m) = {} /\ ~ (m.dh # s.remote /\ TooFar(s, m.prev))
  <2> DEFINE t == Turned(s, m)
             u == Skip(t, m.n)
  <2>1. Sound(t) /\ Onward(s, t)
    <3>1. CASE m.dh = s.remote
      BY <3>1, OnwardSame DEF Turned
    <3>2. CASE m.dh # s.remote
      <4>1. Sound(Skip(s, m.prev)) /\ Onward(s, Skip(s, m.prev))
        BY SkipOn
      <4>2. Sound(Ratcheted(Skip(s, m.prev), m.dh)) /\ Onward(Skip(s, m.prev), Ratcheted(Skip(s, m.prev), m.dh))
        BY <4>1, RatchetedOn
      <4> QED BY <3>2, <4>1, <4>2, OnwardTwice DEF Turned
    <3> QED BY <3>1, <3>2
  <2> HIDE DEF t
  <2>2. Sound(u) /\ Onward(t, u)
    BY <2>1, SkipOn
  <2>3. Decrypt(s, m) = ByChain(s, m)
    BY <1>3 DEF Decrypt
  <2>4. CASE TooFar(t, m.n) \/ t.recv = None
    <3>1. Decrypt(s, m) = [state |-> t, key |-> None]
      BY <2>3, <2>4 DEF ByChain, t
    <3> QED BY <2>1, <3>1
  <2>5. CASE ~ (TooFar(t, m.n) \/ t.recv = None)
    <3>1. Decrypt(s, m) = [state |-> Advanced(u), key |-> u.recv]
      BY <2>3, <2>5 DEF ByChain, t
    <3>2. u.recv # None
      <4>1. t.recv \in ChainKeys(Key) /\ t.nrecv \in Nat
        BY <2>1, <2>5, StateParts DEF Sound
      <4>2. CASE m.n <= t.nrecv
        BY <2>5, <4>2 DEF Skip
      <4>3. CASE ~ m.n <= t.nrecv
        <5>1. m.n - t.nrecv \in Nat /\ t \in States(Key)
          BY <2>1, <4>1, <4>3 DEF Sound
        <5>2. u.recv = After(t.recv, m.n - t.nrecv)
          BY <2>5, <4>3, <5>1 DEF Skip, States
        <5> QED BY <4>1, <5>1, <5>2, ChainParts
      <4> QED BY <4>2, <4>3
    <3> HIDE DEF u
    <3> DEFINE v == Advanced(u)
    <3>3. u \in States(Key) /\ u.recv \in ChainKeys(Key) /\ u.nrecv \in Nat /\ u.send # None
          /\ u.remote # None
      BY <2>2, <3>2, StateParts DEF Sound
    <3>4. After(u.recv, 1) \in ChainKeys(Key) /\ After(u.recv, 1) # None
      BY <3>3, ChainParts
    <3>l. v = [u EXCEPT !.recv = After(u.recv, 1), !.nrecv = u.nrecv + 1]
      BY DEF Advanced
    <3>m. PICK n \in Nat : n = u.nrecv + 1
      BY <3>3
    <3>n. v = [u EXCEPT !.recv = After(u.recv, 1), !.nrecv = n]
      BY <3>l, <3>m
    <3> HIDE DEF v
    <3>5. /\ v.recv = After(u.recv, 1) /\ v.root = u.root /\ v.send = u.send
          /\ v.remote = u.remote /\ v.skipped = u.skipped /\ v \in States(Key)
      BY <3>3, <3>4, <3>n DEF States
    <3>6. Sound(v) /\ Onward(u, v)
      BY <2>2, <3>3, <3>4, <3>5, OnwardSame DEF Sound
    <3>7. Onward(s, v)
      BY <2>1, <2>2, <3>6, OnwardTwice
    <3> QED BY <3>1, <3>3, <3>5, <3>6, <3>7 DEF v
  <2> QED BY <2>4, <2>5
<1> QED BY <1>1, <1>2, <1>3
------------------------------------------------------------------------------
\* A frame as a client writes it; what it sealed, it sealed with a key of its own.
Written(f) ==
    /\ f.kind \in {"init", "sealed", "clear"} /\ f.from \in Clients /\ f.life \in Nat
    /\ f.life <= life[f.from]
    /\ f.kind = "init" => f.key \in Key
    /\ f.kind = "sealed" => /\ f.dh \in Key /\ f.prev \in Nat /\ f.n \in Nat
                            /\ f.key \in ChainKeys(Key)
                            /\ Rooted(f.key.root, KeyOf(f.from, f.life))

\* A session that c can hold in this run.
Holds(c, s) == s # None => Sound(s) /\ Rooted(s.root, Own(c))

\* What c has sealed in a run that lasts, its session has left behind.
LeftBehind(c, s) ==
    \A f \in sent : f.kind = "sealed" /\ f.from = c /\ f.life = life[c] /\ phase[c] # "out"
                    => s # None /\ Behind(s, f.key)

\* What c noted is of this run or of an earlier one, and a session that has opened
\* something can send.
Heard(c) == \E i \in 1 .. Len(seen[c]) : seen[c][i].life = life[c] /\ seen[c][i].how = "opened"
Noted(c) == /\ \A i \in 1 .. Len(seen[c]) : seen[c][i].life <= life[c]
            /\ Heard(c) /\ phase[c] # "out" => session[c] # None /\ session[c].send # None

\* The inductive invariant.
ChatInv == /\ ChatTypeOK
           /\ \A f \in sent : Written(f)
           /\ \A c \in Clients : /\ Holds(c, session[c])
                                 /\ LeftBehind(c, session[c])
                                 /\ Noted(c)
           /\ KeysUnique

\* Key pairs of different runs differ.
LEMMA KeyOfType ==
    ASSUME NEW c \in Clients, NEW d \in Clients, NEW k \in Nat, NEW l \in Nat
    PROVE  KeyOf(c, k) \in Key /\ (KeyOf(c, k) = KeyOf(d, l) => c = d /\ k = l)
BY DEF KeyOf, Key

\* The initial states satisfy the invariant.
LEMMA ChatInitInv == ChatInit => ChatInv
<1> SUFFICES ASSUME ChatInit PROVE ChatInv
  OBVIOUS
<1>1. ChatTypeOK
  <2>1. <<>> \in Seq(sent) /\ <<>> \in Seq([life : Nat, m : sent, how : Hows])
    OBVIOUS
  <2> QED BY <2>1 DEF ChatInit, ChatTypeOK
<1>2. \A c \in Clients : Len(seen[c]) = 0 /\ session[c] = None
  BY DEF ChatInit
<1>3. sent = {}
  BY DEF ChatInit
<1> QED BY <1>1, <1>2, <1>3 DEF ChatInv, Holds, LeftBehind, Noted, Heard, KeysUnique

\* A sequence of some elements is one of more.
LEMMA MoreOf ==
    ASSUME NEW S, NEW T, S \subseteq T, NEW s \in Seq(S)
    PROVE  s \in Seq(T)
<1>1. s \in [1 .. Len(s) -> S] /\ Len(s) \in Nat
  OBVIOUS
<1>2. s \in [1 .. Len(s) -> T]
  BY <1>1
<1> QED BY <1>1, <1>2

\* What is noted of some frames is noted of more.
Note(S) == [life : Nat, m : S, how : Hows]

LEMMA MoreNotes ==
    ASSUME NEW S, NEW T, S \subseteq T, NEW s \in Seq(Note(S))
    PROVE  s \in Seq(Note(T))
<1>1. Note(S) \subseteq Note(T)
  BY DEF Note
<1> QED BY <1>1, MoreOf

\* When frames, sessions, runs and notes stay and nobody enters, all but the types stays.
LEMMA Apart ==
    ASSUME ChatInv, ChatTypeOK', UNCHANGED <<life, session, sent, seen>>,
           \A c \in Clients : phase'[c] # "out" => phase[c] # "out"
    PROVE  ChatInv'
<1>1. \A f \in sent' : Written(f)'
  BY DEF ChatInv, Written
<1>2. ASSUME NEW c \in Clients
      PROVE  Holds(c, session[c])' /\ LeftBehind(c, session[c])' /\ Noted(c)'
  BY DEF ChatInv, Holds, Own, LeftBehind, Noted, Heard
<1> QED BY <1>1, <1>2 DEF ChatInv, KeysUnique

\* The host takes a client in.
LEMMA ServeInv == ASSUME ChatInv, NEW c \in Clients, Serve(c) PROVE ChatInv'
<1>1. ChatTypeOK'
  BY DEF ChatInv, ChatTypeOK, Serve
<1> QED BY <1>1, Apart DEF Serve

\* The loop begins.
LEMMA EnterInv == ASSUME ChatInv, NEW c \in Clients, Enter(c) PROVE ChatInv'
<1>1. ChatTypeOK'
  BY DEF ChatInv, ChatTypeOK, Enter, net
<1>2. \A d \in Clients : phase'[d] # "out" => phase[d] # "out"
  BY DEF ChatInv, ChatTypeOK, Enter
<1> QED BY <1>1, <1>2, Apart DEF Enter

\* The host cleans up.
LEMMA DismissInv == ASSUME ChatInv, NEW c \in Clients, Dismiss(c) PROVE ChatInv'
<1>1. ChatTypeOK'
  BY DEF ChatInv, ChatTypeOK, Dismiss
<1> QED BY <1>1, Apart DEF Dismiss

\* The host passes a frame on.
LEMMA RouteInv == ASSUME ChatInv, NEW x \in Clients, Route(x) PROVE ChatInv'
<1>1. /\ up[x] \in Seq(sent) /\ up[x] # <<>> /\ Head(up[x]) \in sent /\ Tail(up[x]) \in Seq(sent)
  BY DEF ChatInv, ChatTypeOK, Route
<1>2. \A c \in Clients : chan[x][c] \in Seq(sent) /\ Append(chan[x][c], Head(up[x])) \in Seq(sent)
  BY <1>1 DEF ChatInv, ChatTypeOK
<1>3. chan' \in [Clients -> [Clients -> Seq(sent)]] /\ up' \in [Clients -> Seq(sent)]
  BY <1>1, <1>2 DEF ChatInv, ChatTypeOK, Route
<1>4. ChatTypeOK'
  BY <1>3 DEF ChatInv, ChatTypeOK, Route
<1> QED BY <1>4, Apart DEF Route

\* A client joins: the run is new, and nothing was sealed or noted in it.
LEMMA ConnectInv == ASSUME ChatInv, NEW c \in Clients, Connect(c) PROVE ChatInv'
<1>1. /\ life' = [life EXCEPT ![c] = @ + 1] /\ phase' = [phase EXCEPT ![c] = "joining"]
      /\ phase[c] = "out" /\ UNCHANGED <<session, served, up, chan, sent, seen>>
  BY DEF Connect, net
<1>2. /\ life \in [Clients -> Nat] /\ phase \in [Clients -> {"out", "joining", "chat"}]
      /\ session[c] = None
  BY <1>1 DEF ChatInv, ChatTypeOK
<1>3. /\ life'[c] = life[c] + 1 /\ life'[c] \in Nat /\ life[c] \in Nat
      /\ \A d \in Clients : d # c => life'[d] = life[d] /\ phase'[d] = phase[d]
      /\ \A d \in Clients : life[d] <= life'[d] /\ life[d] \in Nat /\ life'[d] \in Nat
  BY <1>1, <1>2
<1>4. ChatTypeOK'
  <2>1. /\ phase' \in [Clients -> {"out", "joining", "chat"}] /\ life' \in [Clients -> Nat]
    BY <1>1, <1>2, <1>3
  <2>2. files' \in [Targets -> Nat]
    BY <1>3 DEF Connect, WriteFile, ChatInv, ChatTypeOK
  <2>3. \A d \in Clients : d \in Targets => files'[d] <= life'[d]
    BY <1>1, <1>3 DEF Connect, WriteFile, ChatInv, ChatTypeOK
  <2>4. \A d \in Clients : session[d] # None => phase'[d] = "chat"
    BY <1>2, <1>3 DEF ChatInv, ChatTypeOK
  <2>5. \A d \in Clients : phase'[d] = "chat" => served[d]
    BY <1>1, <1>2, <1>3 DEF ChatInv, ChatTypeOK
  <2> QED BY <1>1, <2>1, <2>2, <2>3, <2>4, <2>5 DEF ChatInv, ChatTypeOK
<1>5. ASSUME NEW f \in sent PROVE Written(f)'
  <2>1. Written(f) /\ f.life <= life'[f.from]
    BY <1>3 DEF ChatInv, Written
  <2> QED BY <2>1 DEF Written
<1>6. ASSUME NEW d \in Clients
      PROVE  Holds(d, session[d])' /\ LeftBehind(d, session[d])' /\ Noted(d)'
  <2>1. CASE d # c
    <3>1. life'[d] = life[d] /\ phase'[d] = phase[d]
      BY <1>3, <2>1
    <3>2. Holds(d, session[d]) /\ LeftBehind(d, session[d]) /\ Noted(d)
      BY DEF ChatInv
    <3>3. Holds(d, session[d])'
      BY <1>1, <3>1, <3>2 DEF Holds, Own
    <3>4. LeftBehind(d, session[d])'
      BY <1>1, <3>1, <3>2 DEF LeftBehind
    <3>5. Noted(d)'
      BY <1>1, <3>1, <3>2 DEF Noted, Heard
    <3> QED BY <3>3, <3>4, <3>5
  <2>2. CASE d = c
    <3>1. \A f \in sent : f.from = c => f.life # life'[c]
      BY <1>3 DEF ChatInv, Written
    <3>2. \A i \in 1 .. Len(seen[c]) : seen[c][i].life <= life[c] /\ seen[c][i].life \in Nat
      <4>1. seen[c] \in Seq([life : Nat, m : sent, how : Hows])
        BY DEF ChatInv, ChatTypeOK
      <4>2. \A i \in 1 .. Len(seen[c]) : seen[c][i] \in [life : Nat, m : sent, how : Hows]
        BY <4>1, ElementOfSeq
      <4> QED BY <4>2 DEF ChatInv, Noted
    <3>3. \A i \in 1 .. Len(seen[c]) : seen[c][i].life < life'[c]
      BY <1>3, <3>2
    <3>4. Noted(c)'
      BY <1>1, <1>3, <3>2, <3>3 DEF Noted, Heard
    <3> QED BY <1>1, <1>2, <2>2, <3>1, <3>4 DEF Holds, LeftBehind
  <2> QED BY <2>1, <2>2
<1> QED BY <1>1, <1>4, <1>5, <1>6 DEF ChatInv, KeysUnique

\* A connection ends, and the session with it.
LEMMA LeaveInv == ASSUME ChatInv, NEW c \in Clients, Leave(c) PROVE ChatInv'
<1>1. PICK k \in 0 .. Len(up[c]) : up' = [up EXCEPT ![c] = SubSeq(@, 1, k)]
  BY DEF Leave
<1>2. /\ phase' = [phase EXCEPT ![c] = "out"] /\ session' = [session EXCEPT ![c] = None]
      /\ chan' = [x \in Clients |-> [chan[x] EXCEPT ![c] = <<>>]] /\ RemoveFiles(c)
      /\ UNCHANGED <<life, served, sent, seen>>
  BY DEF Leave
<1>3. ChatTypeOK
  BY DEF ChatInv
<1>4. /\ \A d \in Clients : d # c => phase'[d] = phase[d] /\ session'[d] = session[d]
      /\ phase'[c] = "out" /\ session'[c] = None
  BY <1>2, <1>3 DEF ChatTypeOK
<1>5. ChatTypeOK'
  <2>1. SubSeq(up[c], 1, k) \in Seq(sent)
    BY <1>3, SubSeqProperties DEF ChatTypeOK
  <2>2. up' \in [Clients -> Seq(sent)]
    BY <1>1, <1>3, <2>1 DEF ChatTypeOK
  <2>3. chan' \in [Clients -> [Clients -> Seq(sent)]]
    BY <1>2, <1>3 DEF ChatTypeOK
  <2>4. files' \in [Targets -> Nat] /\ \A d \in Clients : d \in Targets => files'[d] <= life[d]
    BY <1>2, <1>3 DEF ChatTypeOK, RemoveFiles
  <2>5. /\ phase' \in [Clients -> {"out", "joining", "chat"}]
        /\ session' \in [Clients -> States(Key) \cup {None}]
    BY <1>2, <1>3 DEF ChatTypeOK
  <2>6. \A d \in Clients : /\ session'[d] # None => phase'[d] = "chat"
                           /\ phase'[d] = "chat" => served[d]
    BY <1>3, <1>4 DEF ChatTypeOK
  <2> QED BY <1>2, <1>3, <2>2, <2>3, <2>4, <2>5, <2>6 DEF ChatTypeOK
<1>6. \A f \in sent : Written(f)'
  BY <1>2 DEF ChatInv, Written
<1>7. ASSUME NEW d \in Clients
      PROVE  Holds(d, session[d])' /\ LeftBehind(d, session[d])' /\ Noted(d)'
  <2>1. Holds(d, session[d]) /\ LeftBehind(d, session[d]) /\ Noted(d)
    BY DEF ChatInv
  <2>2. CASE d # c
    BY <1>2, <1>4, <2>1, <2>2 DEF Holds, Own, LeftBehind, Noted, Heard
  <2>3. CASE d = c
    BY <1>2, <1>4, <2>1, <2>3 DEF Holds, LeftBehind, Noted, Heard
  <2> QED BY <2>2, <2>3
<1> QED BY <1>2, <1>5, <1>6, <1>7 DEF ChatInv, KeysUnique

\* The session a client writes its next text with: its own, or a new one.
LEMMA SessionForHolds ==
    ASSUME ChatInv, NEW c \in Clients, phase[c] = "chat"
    PROVE  /\ Holds(c, SessionFor(c)) /\ LeftBehind(c, SessionFor(c))
           /\ SessionFor(c) \in States(Key) \cup {None}
           /\ Starts(c) => Theirs(c) \in Key /\ SessionFor(c).send # None
           /\ session[c] # None => SessionFor(c) = session[c] /\ ~ Starts(c)
<1>1. CASE ~ Starts(c)
  BY <1>1 DEF SessionFor, ChatInv, ChatTypeOK
<1>2. CASE Starts(c)
  <2> DEFINE own == Own(c)
             his == Theirs(c)
             first == Secret(own, his)
             root == Mix(first, own, his)
             s == SessionFor(c)
  <2>1. own \in Key /\ his \in Key /\ session[c] = None
    <3>1. life[c] \in Nat /\ Target[c] \in Clients /\ files[Target[c]] \in Nat
      BY <1>2, ChatAssumption DEF Starts, ChatInv, ChatTypeOK, Targets
    <3> QED BY <1>2, <3>1, KeyOfType DEF Starts, Own, Theirs
  <2>2. first \in Seq(SUBSET Key) /\ Len(first) = 2 /\ first[1] = {own}
    <3> HIDE DEF own, his
    <3>1. {own} \in SUBSET Key /\ {his} \in SUBSET Key
      BY <2>1
    <3> QED BY <3>1 DEF Secret
  <2> HIDE DEF own, his, first
  <2>3. /\ root \in Seq(SUBSET Key) /\ Len(root) = 3 /\ root[1] = {own}
        /\ Chain(root) \in ChainKeys(Key) /\ Chain(root).root = root
    <3>1. /\ root \in Seq(SUBSET Key) /\ Len(root) = Len(first) + 1
          /\ \A i \in 1 .. Len(first) : root[i] = first[i]
          /\ Chain(root) \in ChainKeys(Key) /\ Chain(root).root = root
      BY <2>1, <2>2, MixParts
    <3> HIDE DEF root
    <3> QED BY <2>2, <3>1
  <2> HIDE DEF root
  <2>4. Rooted(root, own)
    BY <2>3 DEF Rooted
  <2>5. s = [InitBob(root, own) EXCEPT !.remote = his, !.send = Chain(root)]
    BY <1>2 DEF SessionFor, InitAlice, own, his, first, root
  <2> HIDE DEF s
  <2>6. /\ s \in States(Key) /\ s.root = root /\ s.send = Chain(root)
        /\ s.recv = None /\ s.skipped = {}
    BY <2>1, <2>3, <2>5 DEF InitBob, States
  <2>7. s.send # None /\ Sound(s)
    BY <2>3, <2>6, ChatNoneAssumption DEF Sound
  <2>8. LeftBehind(c, s)
    BY <2>1 DEF ChatInv, LeftBehind
  <2> QED BY <1>2, <2>1, <2>4, <2>6, <2>7, <2>8 DEF Holds, s, own, his
<1> QED BY <1>1, <1>2

\* The frames of one text.
Text(c) == Encrypted(c, SessionFor(c), Texts(c) + 1)
News(c) == IF Starts(c) THEN <<InitFrame(c), Text(c)>> ELSE <<Text(c)>>
Then(c) == IF Text(c).kind = "sealed" THEN Sealed(SessionFor(c)) ELSE SessionFor(c)

\* What they are, and what the session is after them.
LEMMA TextWritten ==
    ASSUME ChatInv, NEW c \in Clients, phase[c] = "chat"
    PROVE  /\ ToSet(News(c)) = IF Starts(c) THEN {InitFrame(c), Text(c)} ELSE {Text(c)}
           /\ News(c) \in Seq(ToSet(News(c)))
           /\ \A f \in ToSet(News(c)) : Written(f) /\ f.from = c /\ f.life = life[c]
           /\ Holds(c, Then(c)) /\ LeftBehind(c, Then(c)) /\ Then(c) \in States(Key) \cup {None}
           /\ Text(c).kind = "sealed" =>
                 /\ SessionFor(c) # None /\ Sound(SessionFor(c)) /\ SessionFor(c).send # None
                 /\ Text(c).key = SessionFor(c).send /\ Behind(Then(c), Text(c).key)
                 /\ Then(c) # None /\ Rooted(Text(c).key.root, Own(c))
           /\ SessionFor(c) # None /\ SessionFor(c).send # None =>
                 /\ Text(c).kind = "sealed" /\ Then(c) # None /\ Then(c).send # None
<1> DEFINE s == SessionFor(c)
           f == Text(c)
           t == Then(c)
<1>1. /\ Holds(c, s) /\ LeftBehind(c, s) /\ s \in States(Key) \cup {None}
      /\ Starts(c) => Theirs(c) \in Key /\ s.send # None
  BY SessionForHolds
<1>2. life[c] \in Nat /\ Own(c) \in Key /\ Own(c) = KeyOf(c, life[c])
  <2>1. life[c] \in Nat
    BY DEF ChatInv, ChatTypeOK
  <2> QED BY <2>1, KeyOfType DEF Own
<1>3. /\ f.from = c /\ f.life = life[c] /\ f.kind \in {"sealed", "clear"}
      /\ f.kind = "sealed" <=> s # None /\ s.send # None
      /\ f.kind = "sealed" => f.dh = s.self /\ f.prev = s.prev /\ f.n = s.nsend /\ f.key = s.send
  BY DEF Text, Encrypted
<1> HIDE DEF s, f
<1>4. ASSUME f.kind = "sealed"
      PROVE  /\ Sound(s) /\ s \in States(Key) /\ t = Sealed(s) /\ Rooted(s.root, Own(c))
             /\ s.send \in ChainKeys(Key) /\ s.send.root = s.root
             /\ f.dh \in Key /\ f.prev \in Nat /\ f.n \in Nat
  <2>1. Sound(s) /\ s \in States(Key) /\ Rooted(s.root, Own(c))
    BY <1>1, <1>3, <1>4 DEF Holds, Sound
  <2>2. s.send \in ChainKeys(Key) /\ s.send.root = s.root
    BY <1>3, <1>4, <2>1, SealedStep DEF Sound
  <2> QED BY <1>3, <1>4, <2>1, <2>2, StateParts DEF Then, s, f
<1>5. Written(f)
  BY <1>2, <1>3, <1>4 DEF Written
<1>6. /\ InitFrame(c).from = c /\ InitFrame(c).life = life[c] /\ InitFrame(c).kind = "init"
      /\ InitFrame(c).key = Own(c)
  BY DEF InitFrame
<1>7. Written(InitFrame(c))
  BY <1>2, <1>6 DEF Written
<1>8. /\ ToSet(News(c)) = IF Starts(c) THEN {InitFrame(c), f} ELSE {f}
      /\ News(c) \in Seq(ToSet(News(c)))
  <2>1. \A g : ToSet(<<g>>) = {g} /\ <<g>> \in Seq({g})
    BY DEF ToSet
  <2>2. \A g, h : ToSet(<<g, h>>) = {g, h} /\ <<g, h>> \in Seq({g, h})
    <3> TAKE g, h
    <3>1. /\ DOMAIN <<g, h>> = {1, 2} /\ <<g, h>>[1] = g /\ <<g, h>>[2] = h
      OBVIOUS
    <3> QED BY <3>1 DEF ToSet
  <2>3. CASE Starts(c)
    <3>1. News(c) = <<InitFrame(c), f>>
      BY <2>3 DEF News, f
    <3> HIDE DEF InitFrame
    <3> QED BY <2>2, <2>3, <3>1
  <2>4. CASE ~ Starts(c)
    <3>1. News(c) = <<f>>
      BY <2>4 DEF News, f
    <3> QED BY <2>1, <2>4, <3>1
  <2> QED BY <2>3, <2>4
<1>9. ASSUME f.kind = "sealed"
      PROVE  /\ Holds(c, t) /\ LeftBehind(c, t) /\ t \in States(Key) /\ t # None
             /\ Behind(t, f.key) /\ t.send # None
  <2>1. /\ Sound(t) /\ Onward(s, t) /\ Behind(t, s.send) /\ t.root = s.root /\ t.send # None
    BY <1>3, <1>4, <1>9, SealedStep
  <2>2. t \in States(Key) /\ t # None
    BY <2>1, StateParts DEF Sound
  <2>3. ASSUME NEW g \in sent, g.kind = "sealed", g.from = c, g.life = life[c]
        PROVE  Behind(t, g.key)
    <3>1. Behind(s, g.key) /\ g.key \in ChainKeys(Key)
      BY <1>1, <2>3 DEF LeftBehind, ChatInv, Written
    <3> QED BY <2>1, <3>1 DEF Onward
  <2> QED BY <1>3, <1>4, <1>9, <2>1, <2>2, <2>3 DEF Holds, LeftBehind
<1>10. ASSUME f.kind # "sealed" PROVE t = s
  BY <1>10 DEF Then, s, f
<1>11. \A g \in ToSet(News(c)) : Written(g) /\ g.from = c /\ g.life = life[c]
  BY <1>3, <1>5, <1>6, <1>7, <1>8
<1>12. Holds(c, t) /\ LeftBehind(c, t) /\ t \in States(Key) \cup {None}
  BY <1>1, <1>9, <1>10
<1> HIDE DEF t
<1>13. f.kind = "sealed" => /\ s # None /\ Sound(s) /\ s.send # None /\ f.key = s.send
                            /\ Behind(t, f.key) /\ t # None /\ Rooted(f.key.root, Own(c))
  BY <1>3, <1>4, <1>9
<1>14. s # None /\ s.send # None => f.kind = "sealed" /\ t # None /\ t.send # None
  BY <1>3, <1>9
<1> QED BY <1>8, <1>11, <1>12, <1>13, <1>14 DEF s, f, t

\* A client writes a text: the key is new in the room.
LEMMA WriteInv == ASSUME ChatInv, NEW c \in Clients, Write(c) PROVE ChatInv'
<1>1. /\ phase[c] = "chat" /\ session' = [session EXCEPT ![c] = Then(c)]
      /\ up' = [up EXCEPT ![c] = @ \o News(c)] /\ sent' = sent \cup ToSet(News(c))
      /\ UNCHANGED <<phase, life, files, served, chan, seen>>
  BY DEF Write, Then, News, Text
<1>2. ChatTypeOK
  BY DEF ChatInv
<1> DEFINE new == ToSet(News(c))
           t == Then(c)
<1>3. /\ News(c) \in Seq(new) /\ \A f \in new : Written(f) /\ f.from = c /\ f.life = life[c]
      /\ new = IF Starts(c) THEN {InitFrame(c), Text(c)} ELSE {Text(c)}
      /\ Holds(c, t) /\ LeftBehind(c, t) /\ t \in States(Key) \cup {None}
      /\ \A f \in new : f.kind = "sealed" => f = Text(c)
      /\ Text(c).kind = "sealed" =>
           /\ SessionFor(c) # None /\ Sound(SessionFor(c)) /\ SessionFor(c).send # None
           /\ Text(c).key = SessionFor(c).send /\ Behind(t, Text(c).key)
           /\ t # None /\ Rooted(Text(c).key.root, Own(c))
      /\ SessionFor(c) # None /\ SessionFor(c).send # None => t # None /\ t.send # None
  BY <1>1, TextWritten DEF InitFrame
<1> HIDE DEF new, t
<1>4. /\ sent' = sent \cup new /\ session' = [session EXCEPT ![c] = t]
      /\ session'[c] = t /\ \A d \in Clients : d # c => session'[d] = session[d]
  BY <1>1, <1>2 DEF new, t, ChatTypeOK
<1>5. ChatTypeOK'
  <2>1. sent \subseteq sent' /\ new \subseteq sent'
    BY <1>4
  <2>2. ASSUME NEW d \in Clients PROVE up'[d] \in Seq(sent')
    <3>1. up[d] \in Seq(sent) /\ up[c] \in Seq(sent)
      BY <1>2 DEF ChatTypeOK
    <3>2. up[d] \in Seq(sent') /\ up[c] \in Seq(sent') /\ News(c) \in Seq(sent')
      BY <1>3, <2>1, <3>1, MoreOf
    <3>3. up[c] \o News(c) \in Seq(sent')
      BY <3>2, ConcatProperties
    <3> QED BY <1>1, <1>2, <3>2, <3>3 DEF ChatTypeOK
  <2>3. up' \in [Clients -> Seq(sent')]
    BY <1>1, <1>2, <2>2 DEF ChatTypeOK
  <2>4. chan \in [Clients -> [Clients -> Seq(sent')]]
    <3>1. \A x, d \in Clients : chan[x][d] \in Seq(sent')
      BY <1>2, <2>1, MoreOf DEF ChatTypeOK
    <3> QED BY <1>2, <3>1 DEF ChatTypeOK
  <2>5. seen \in [Clients -> Seq(Note(sent'))]
    <3>1. \A d \in Clients : seen[d] \in Seq(Note(sent'))
      BY <1>2, <2>1, MoreNotes DEF ChatTypeOK, Note
    <3> QED BY <1>2, <3>1 DEF ChatTypeOK
  <2>6. session' \in [Clients -> States(Key) \cup {None}]
    BY <1>2, <1>3, <1>4 DEF ChatTypeOK
  <2>7. \A d \in Clients : session'[d] # None => phase[d] = "chat"
    BY <1>1, <1>2, <1>4 DEF ChatTypeOK
  <2> QED BY <1>1, <1>2, <2>3, <2>4, <2>5, <2>6, <2>7 DEF ChatTypeOK, Note
<1>6. ASSUME NEW f \in sent' PROVE Written(f)'
  BY <1>1, <1>3, <1>4 DEF ChatInv, Written
<1>7. ASSUME NEW d \in Clients
      PROVE  Holds(d, session[d])' /\ LeftBehind(d, session[d])' /\ Noted(d)'
  <2>1. Holds(d, session[d]) /\ LeftBehind(d, session[d]) /\ Noted(d)
    BY DEF ChatInv
  <2>2. CASE d # c
    <3>1. LeftBehind(d, session[d])'
      BY <1>1, <1>3, <1>4, <2>1, <2>2 DEF LeftBehind
    <3> QED BY <1>1, <1>4, <2>1, <2>2, <3>1 DEF Holds, Own, Noted, Heard
  <2>3. CASE d = c
    <3>1. Holds(c, session[c])'
      BY <1>1, <1>3, <1>4 DEF Holds, Own
    <3>2. LeftBehind(c, session[c])'
      BY <1>1, <1>3, <1>4 DEF LeftBehind
    <3>3. session[c] # None => SessionFor(c) = session[c]
      BY <1>1, SessionForHolds
    <3>4. Noted(c)'
      BY <1>1, <1>3, <1>4, <2>1, <2>3, <3>3 DEF Noted, Heard
    <3> QED BY <2>3, <3>1, <3>2, <3>4
  <2> QED BY <2>2, <2>3
<1>8. ASSUME NEW f \in sent, f.kind = "sealed", Text(c).kind = "sealed", f.key = Text(c).key
      PROVE  FALSE
  <2>1. /\ Written(f) /\ f.key \in ChainKeys(Key) /\ f.from \in Clients /\ f.life \in Nat
        /\ Rooted(f.key.root, KeyOf(f.from, f.life)) /\ life[c] \in Nat
    BY <1>2, <1>8 DEF ChatInv, Written, ChatTypeOK
  <2>2. Len(f.key.root) \in Nat /\ Rooted(f.key.root, Own(c))
    BY <1>3, <1>8, <2>1, ChainParts
  <2>3. KeyOf(f.from, f.life) = KeyOf(c, life[c])
    BY <2>1, <2>2, RootedOnce DEF Own
  <2>4. f.from = c /\ f.life = life[c]
    BY <2>1, <2>3, KeyOfType
  <2>5. Behind(SessionFor(c), f.key)
    <3>1. LeftBehind(c, SessionFor(c))
      BY <1>1, SessionForHolds
    <3> QED BY <1>1, <1>8, <2>4, <3>1 DEF LeftBehind
  <2>6. /\ f.key = SessionFor(c).send /\ f.key.root = SessionFor(c).root /\ f.key.at \in Nat
    BY <1>3, <1>8, <2>1, ChainParts DEF Sound
  <2> QED BY <2>2, <2>5, <2>6 DEF Behind
<1>9. KeysUnique'
  <2> SUFFICES ASSUME NEW f \in sent', NEW g \in sent', f.kind = "sealed", g.kind = "sealed",
                      f.key = g.key
               PROVE  f = g
    BY DEF KeysUnique
  <2>1. f \in sent \/ f = Text(c)
    BY <1>3, <1>4
  <2>2. g \in sent \/ g = Text(c)
    BY <1>3, <1>4
  <2> QED BY <1>8, <2>1, <2>2 DEF ChatInv, KeysUnique
<1> QED BY <1>5, <1>6, <1>7, <1>9 DEF ChatInv

\* What reading m makes of the session of c.
LEMMA TryDecryptHolds ==
    ASSUME ChatInv, NEW c \in Clients, phase[c] = "chat", NEW m \in sent
    PROVE  LET r == TryDecrypt(c, m)
           IN  /\ r.session \in States(Key) \cup {None}
               /\ Holds(c, r.session) /\ LeftBehind(c, r.session)
               /\ r.how = "opened" => r.session # None /\ r.session.send # None
               /\ session[c] # None /\ session[c].send # None =>
                     r.session # None /\ r.session.send # None
<1> DEFINE s == session[c]
           r == TryDecrypt(c, m)
<1>1. /\ Written(m) /\ Holds(c, s) /\ LeftBehind(c, s) /\ s \in States(Key) \cup {None}
      /\ life[c] \in Nat
  BY DEF ChatInv, ChatTypeOK
<1>2. Own(c) \in Key
  BY <1>1, KeyOfType DEF Own
<1>3. CASE s = None /\ m.kind = "init"
  <2> DEFINE first == Secret(m.key, Own(c))
             t == InitBob(first, Own(c))
  <2>1. m.key \in Key
    BY <1>1, <1>3 DEF Written
  <2>2. r = [session |-> t, how |-> "session"]
    BY <1>3 DEF TryDecrypt, Respond
  <2>3. first \in Seq(SUBSET Key) /\ Len(first) = 2 /\ first[2] = {Own(c)}
    <3>1. {m.key} \in SUBSET Key /\ {Own(c)} \in SUBSET Key
      BY <1>2, <2>1
    <3> HIDE DEF Own
    <3> QED BY <3>1 DEF Secret
  <2> HIDE DEF first
  <2>4. /\ t \in States(Key) /\ t.root = first /\ t.send = None /\ t.recv = None /\ t.skipped = {}
    BY <1>2, <2>3 DEF InitBob, States
  <2>6. LeftBehind(c, t)
    BY <1>1, <1>3 DEF LeftBehind
  <2> HIDE DEF t
  <2>5. Sound(t) /\ Rooted(t.root, Own(c))
    <3>1. Sound(t)
      BY <2>4 DEF Sound
    <3>2. Rooted(first, Own(c))
      BY <2>3 DEF Rooted
    <3> QED BY <2>4, <3>1, <3>2
  <2> QED BY <1>3, <2>2, <2>4, <2>5, <2>6 DEF Holds
<1>4. CASE s = None /\ m.kind # "init"
  <2>1. r = [session |-> None, how |-> "shown"]
    BY <1>4 DEF TryDecrypt, Respond
  <2> QED BY <1>1, <1>4, <2>1
<1>5. CASE s # None /\ m.kind # "sealed"
  <2>1. r = [session |-> s, how |-> "dropped"]
    BY <1>5 DEF TryDecrypt, Open
  <2> QED BY <1>1, <1>5, <2>1
<1>6. CASE s # None /\ m.kind = "sealed"
  <2> DEFINE d == Decrypt(s, m)
  <2>1. r = [session |-> d.state, how |-> IF d.key = m.key THEN "opened" ELSE "failed"]
    BY <1>6 DEF TryDecrypt, Open
  <2>2. /\ Sound(s) /\ Rooted(s.root, Own(c)) /\ m.dh \in Key /\ m.prev \in Nat /\ m.n \in Nat
        /\ m.key \in ChainKeys(Key)
    BY <1>1, <1>6 DEF Holds, Written
  <2>3. /\ Sound(d.state) /\ Onward(s, d.state)
        /\ d.key # None => d.state.send # None
    BY <2>2, DecryptOn
  <2> HIDE DEF d
  <2>4. d.state \in States(Key) /\ d.state # None /\ Rooted(d.state.root, Own(c))
    BY <1>2, <2>2, <2>3, StateParts DEF Sound, Onward
  <2>5. LeftBehind(c, d.state)
    <3> SUFFICES ASSUME NEW f \in sent, f.kind = "sealed", f.from = c, f.life = life[c]
                 PROVE  Behind(d.state, f.key)
      BY <2>4 DEF LeftBehind
    <3>1. phase[c] # "out"
      OBVIOUS
    <3>2. Behind(s, f.key) /\ f.key \in ChainKeys(Key)
      BY <1>1, <3>1 DEF LeftBehind, ChatInv, Written
    <3> QED BY <2>3, <3>2 DEF Onward
  <2>6. d.key = m.key => d.state.send # None
    BY <2>2, <2>3, ChainParts
  <2>7. s.send # None => d.state.send # None
    BY <2>3 DEF Onward
  <2> QED BY <2>1, <2>3, <2>4, <2>5, <2>6, <2>7 DEF Holds
<1> QED BY <1>3, <1>4, <1>5, <1>6

\* A client reads a frame.
LEMMA ReadInv ==
    ASSUME ChatInv, NEW c \in Clients, NEW x \in Clients, Read(c, x)
    PROVE  ChatInv'
<1> DEFINE m == Head(chan[x][c])
           r == TryDecrypt(c, m)
           e == [life |-> life[c], m |-> m, how |-> r.how]
<1>1. /\ phase[c] = "chat" /\ chan[x][c] # <<>>
      /\ session' = [session EXCEPT ![c] = r.session]
      /\ seen' = IF r.how \in Hows THEN [seen EXCEPT ![c] = Append(@, e)] ELSE seen
      /\ chan' = [chan EXCEPT ![x][c] = Tail(@)]
      /\ UNCHANGED <<phase, life, files, served, up, sent>>
  BY DEF Read
<1>2. ChatTypeOK /\ chan[x][c] \in Seq(sent) /\ life[c] \in Nat
  BY DEF ChatInv, ChatTypeOK
<1>3. m \in sent /\ Tail(chan[x][c]) \in Seq(sent)
  BY <1>1, <1>2
<1> HIDE DEF m
<1>4. /\ r.session \in States(Key) \cup {None} /\ Holds(c, r.session) /\ LeftBehind(c, r.session)
      /\ r.how = "opened" => r.session # None /\ r.session.send # None
      /\ session[c] # None /\ session[c].send # None => r.session # None /\ r.session.send # None
  BY <1>1, <1>3, TryDecryptHolds
<1> HIDE DEF r
<1>5. /\ session'[c] = r.session /\ \A d \in Clients : d # c => session'[d] = session[d]
      /\ \A d \in Clients : d # c => seen'[d] = seen[d]
  BY <1>1, <1>2 DEF ChatTypeOK
<1>6. e.life = life[c] /\ e.how = r.how /\ e.m = m
  OBVIOUS
<1>7. r.how \in Hows => e \in Note(sent)
  BY <1>2, <1>3 DEF Note
<1> HIDE DEF e
<1>8. /\ seen[c] \in Seq(Note(sent)) /\ seen'[c] \in Seq(Note(sent))
      /\ \A i \in 1 .. Len(seen'[c]) : seen'[c][i] = e \/ (i \in 1 .. Len(seen[c])
                                                           /\ seen'[c][i] = seen[c][i])
  <2>1. seen[c] \in Seq(Note(sent))
    BY <1>2 DEF ChatTypeOK, Note
  <2>2. CASE r.how \in Hows
    <3>1. seen'[c] = Append(seen[c], e)
      BY <1>1, <1>2, <2>2 DEF ChatTypeOK
    <3> QED BY <1>7, <2>1, <2>2, <3>1, AppendProperties
  <2>3. CASE r.how \notin Hows
    BY <1>1, <2>1, <2>3
  <2> QED BY <2>2, <2>3
<1>9. ChatTypeOK'
  <2>1. chan' \in [Clients -> [Clients -> Seq(sent)]]
    BY <1>1, <1>2, <1>3 DEF ChatTypeOK
  <2>2. seen' \in [Clients -> Seq(Note(sent))]
    <3>1. \A d \in Clients : seen'[d] \in Seq(Note(sent))
      BY <1>2, <1>5, <1>8 DEF ChatTypeOK, Note
    <3> QED BY <1>1, <1>2, <3>1 DEF ChatTypeOK
  <2>3. session' \in [Clients -> States(Key) \cup {None}]
    BY <1>1, <1>2, <1>4 DEF ChatTypeOK
  <2>4. \A d \in Clients : session'[d] # None => phase[d] = "chat"
    BY <1>1, <1>2, <1>5 DEF ChatTypeOK
  <2> QED BY <1>1, <1>2, <2>1, <2>2, <2>3, <2>4 DEF ChatTypeOK, Note
<1>10. \A f \in sent' : Written(f)'
  BY <1>1 DEF ChatInv, Written
<1>11. ASSUME NEW d \in Clients
       PROVE  Holds(d, session[d])' /\ LeftBehind(d, session[d])' /\ Noted(d)'
  <2>1. Holds(d, session[d]) /\ LeftBehind(d, session[d]) /\ Noted(d)
    BY DEF ChatInv
  <2>2. CASE d # c
    BY <1>1, <1>5, <2>1, <2>2 DEF Holds, Own, LeftBehind, Noted, Heard
  <2>3. CASE d = c
    <3>1. Holds(c, session[c])'
      BY <1>1, <1>4, <1>5 DEF Holds, Own
    <3>2. LeftBehind(c, session[c])'
      BY <1>1, <1>4, <1>5 DEF LeftBehind
    <3>3. \A i \in 1 .. Len(seen'[c]) : seen'[c][i].life <= life[c]
      BY <1>2, <1>6, <1>8, <2>1, <2>3 DEF Noted
    <3>4. ASSUME NEW i \in 1 .. Len(seen'[c]), seen'[c][i].life = life[c],
                 seen'[c][i].how = "opened"
          PROVE  session'[c] # None /\ session'[c].send # None
      <4>1. CASE seen'[c][i] = e
        BY <1>4, <1>5, <1>6, <3>4, <4>1
      <4>2. CASE i \in 1 .. Len(seen[c]) /\ seen'[c][i] = seen[c][i]
        <5>1. session[c] # None /\ session[c].send # None
          BY <1>1, <2>1, <2>3, <3>4, <4>2 DEF Noted, Heard
        <5> QED BY <1>4, <1>5, <5>1
      <4> QED BY <1>8, <4>1, <4>2
    <3>5. Noted(c)'
      BY <1>1, <3>3, <3>4 DEF Noted, Heard
    <3> QED BY <2>3, <3>1, <3>2, <3>5
  <2> QED BY <2>2, <2>3
<1> QED BY <1>1, <1>9, <1>10, <1>11 DEF ChatInv, KeysUnique

\* Every step keeps the invariant.
LEMMA ChatNextInv == ChatInv /\ [ChatNext]_chatVars => ChatInv'
<1> SUFFICES ASSUME ChatInv, [ChatNext]_chatVars PROVE ChatInv'
  OBVIOUS
<1>1. ASSUME NEW c \in Clients, Connect(c) PROVE ChatInv'
  BY <1>1, ConnectInv
<1>2. ASSUME NEW c \in Clients, Serve(c) PROVE ChatInv'
  BY <1>2, ServeInv
<1>3. ASSUME NEW c \in Clients, Enter(c) PROVE ChatInv'
  BY <1>3, EnterInv
<1>4. ASSUME NEW c \in Clients, Leave(c) PROVE ChatInv'
  BY <1>4, LeaveInv
<1>5. ASSUME NEW c \in Clients, Dismiss(c) PROVE ChatInv'
  BY <1>5, DismissInv
<1>6. ASSUME NEW c \in Clients, Route(c) PROVE ChatInv'
  BY <1>6, RouteInv
<1>7. ASSUME NEW c \in Clients, Write(c) PROVE ChatInv'
  BY <1>7, WriteInv
<1>8. ASSUME NEW c \in Clients, NEW x \in Clients, Read(c, x) PROVE ChatInv'
  BY <1>8, ReadInv
<1>9. CASE UNCHANGED chatVars
  <2>1. ChatTypeOK' /\ UNCHANGED <<phase, life, session, sent, seen>>
    BY <1>9 DEF ChatInv, ChatTypeOK, chatVars, net
  <2> QED BY <2>1, Apart
<1> QED BY <1>1, <1>2, <1>3, <1>4, <1>5, <1>6, <1>7, <1>8, <1>9 DEF ChatNext

\* The invariant holds in every behaviour.
LEMMA ChatAlways == ChatSpec => []ChatInv
BY ChatInitInv, ChatNextInv, PTL DEF ChatSpec

\* Every variable of a room stays in its type, and there is a session only in the
\* loop (chat_loop.rs, client_connector.rs).
THEOREM ChatTypeCorrect == ChatSpec => []ChatTypeOK
<1>1. ChatInv => ChatTypeOK
  BY DEF ChatInv
<1> QED BY <1>1, ChatAlways, PTL

\* No two texts of a room are encrypted with one key, for any number of clients,
\* whoever starts sessions with whom, with keys that may be out of date, and however
\* often they leave and join again (E2eSession::encrypt, x3dh::initiate and respond).
THEOREM RoomKeysUnique == ChatSpec => []KeysUnique
<1>1. ChatInv => KeysUnique
  BY DEF ChatInv
<1> QED BY <1>1, ChatAlways, PTL

\* A client whose session has opened a text writes nothing in clear until it leaves
\* (encrypt_msg, try_decrypt).
THEOREM HeardThenSealed == ChatSpec => SealedOnceHeard
<1> DEFINE A == \A c \in Clients :
                  (\E i \in 1 .. Len(seen[c]) : /\ seen[c][i].life = life[c]
                                                /\ seen[c][i].how = "opened")
                  => \A f \in sent' \ sent : f.from = c => f.kind = "sealed"
<1>1. ASSUME ChatInv, [ChatNext]_chatVars PROVE A
  <2> SUFFICES ASSUME NEW c \in Clients, Heard(c), NEW f \in sent', f \notin sent, f.from = c
               PROVE  f.kind = "sealed"
    BY DEF Heard
  <2>1. PICK d \in Clients : Write(d)
    <3>1. sent' # sent
      OBVIOUS
    <3> QED BY <1>1, <3>1 DEF ChatNext, chatVars, Connect, Serve, Enter, Leave, Dismiss, Route, Read
  <2>2. phase[d] = "chat" /\ sent' = sent \cup ToSet(News(d))
    BY <2>1 DEF Write, News, Text
  <2>3. d = c
    BY <1>1, <2>2, TextWritten
  <2>4. session[c] # None /\ session[c].send # None
    BY <1>1, <2>2, <2>3 DEF ChatInv, Noted
  <2>5. SessionFor(c) = session[c] /\ ~ Starts(c)
    BY <1>1, <2>2, <2>3, <2>4, SessionForHolds
  <2> QED BY <1>1, <2>2, <2>3, <2>4, <2>5, TextWritten
<1>2. ChatInv /\ [ChatNext]_chatVars => [A]_chatVars
  BY <1>1
<1>3. ChatSpec => [][A]_chatVars
  BY <1>2, ChatAlways, PTL DEF ChatSpec
<1> QED BY <1>3 DEF SealedOnceHeard
-----------------------------------------------------------------------------
(***************************************************************************)
(* Why a text opens.  Two runs stand to each other as two parties do, and   *)
(* what one has sealed comes to the other in order and without gaps, as     *)
(* long as neither has put a third one's text through its session.          *)
(***************************************************************************)

\* A text with its header.
Texty(f) == /\ f.dh \in Key /\ f.prev \in Nat /\ f.n \in Nat /\ f.id \in Nat
            /\ f.key \in ChainKeys(Key)

\* f is on the chain that t receives, or on the one it comes to with the key of f.
Present(t, f) == t.recv # None /\ f.dh = t.remote /\ f.key.root = t.recv.root
Coming(t, f) == f.dh # t.remote /\ f.key.root = Mix(t.root, t.self, f.dh)

\* The texts F are what t expects next: of its chain from nrecv on, then of the next.
Ready(t, F) ==
    /\ t.skipped = {} /\ (t.recv # None => t.recv.at = t.nrecv)
    /\ \A f \in F : /\ f.key.at = f.n /\ (Present(t, f) \/ Coming(t, f))
                    /\ Present(t, f) => t.nrecv <= f.n
    /\ \A f \in F : \A i \in Nat : i < f.n /\ (Present(t, f) => t.nrecv <= i)
                       => \E g \in F : g.dh = f.dh /\ g.n = i /\ g.id < f.id
    /\ \A f \in F : Coming(t, f) /\ t.recv # None =>
          \A i \in Nat : t.nrecv <= i /\ i < f.prev => \E g \in F : Present(t, g) /\ g.n = i
    /\ \A f, g \in F : Coming(t, g) => IF Present(t, f) THEN f.id < g.id ELSE f.dh = g.dh

\* s is one turn of the ratchet ahead of t.
Leads(s, t) ==
    /\ s.root = Mix(t.root, t.self, s.self) /\ s.remote = t.self /\ s.self # t.remote
    /\ s.send # None
    /\ IF s.recv = None THEN t.send = None ELSE t.send # None /\ s.recv.root = t.root

\* F are the texts of s that t has not had: of the chain that s has come to and of
\* the one before it, or of the one that t, ahead of s, receives.
LeadSent(s, t, F) ==
    /\ \A f \in F : Coming(t, f) => f.dh = s.self /\ f.n < s.nsend
    /\ \A i \in Nat : i < s.nsend => \E f \in F : f.dh = s.self /\ f.n = i
    /\ t.recv # None =>
          \A i \in Nat : t.nrecv <= i /\ i < s.prev => \E f \in F : Present(t, f) /\ f.n = i
LagSent(s, t, F) ==
    /\ \A f \in F : Present(t, f) /\ f.n < s.nsend
    /\ t.recv # None => t.nrecv <= s.nsend
    /\ \A i \in Nat : i < s.nsend /\ (t.recv # None => t.nrecv <= i) => \E f \in F : f.n = i
Sends(s, t, F) ==
    /\ s.skipped = {} /\ (s.send # None => s.send.at = s.nsend)
    /\ (Leads(s, t) /\ LeadSent(s, t, F)) \/ (Leads(t, s) /\ LagSent(s, t, F))

\* What the next step of a chain leaves of a state.
LEMMA AdvancedParts ==
    ASSUME NEW t \in States(Key), t.recv # None
    PROVE  LET u == Advanced(t)
           IN  /\ u \in States(Key) /\ u.recv # None
               /\ u.self = t.self /\ u.root = t.root /\ u.remote = t.remote /\ u.send = t.send
               /\ u.nsend = t.nsend /\ u.prev = t.prev /\ u.skipped = t.skipped
               /\ u.recv.root = t.recv.root /\ u.recv.at = t.recv.at + 1
               /\ u.nrecv = t.nrecv + 1
<1>1. t.recv \in ChainKeys(Key) /\ t.nrecv \in Nat
  BY StateParts
<1>2. /\ After(t.recv, 1) \in ChainKeys(Key) /\ After(t.recv, 1) # None
      /\ After(t.recv, 1).root = t.recv.root /\ After(t.recv, 1).at = t.recv.at + 1
  BY <1>1, ChainParts
<1> DEFINE u == Advanced(t)
<1>3. u = [t EXCEPT !.recv = After(t.recv, 1), !.nrecv = t.nrecv + 1]
  BY DEF Advanced
<1>4. PICK n \in Nat : n = t.nrecv + 1
  BY <1>1
<1>5. u = [t EXCEPT !.recv = After(t.recv, 1), !.nrecv = n]
  BY <1>3, <1>4
<1> HIDE DEF u
<1>6. /\ u \in States(Key) /\ u.recv = After(t.recv, 1) /\ u.nrecv = n
      /\ u.self = t.self /\ u.root = t.root /\ u.remote = t.remote /\ u.send = t.send
      /\ u.nsend = t.nsend /\ u.prev = t.prev /\ u.skipped = t.skipped
  BY <1>1, <1>2, <1>5 DEF States
<1> QED BY <1>2, <1>4, <1>6 DEF u

\* A DH step, field by field.
LEMMA RatchetedParts ==
    ASSUME NEW t \in States(Key), NEW dh \in Key
    PROVE  LET u == Ratcheted(t, dh)
               received == Mix(t.root, t.self, dh)
           IN  /\ u \in States(Key) /\ Fresh(t.self) \in Key /\ Fresh(t.self) # t.self
               /\ u.self = Fresh(t.self) /\ u.remote = dh /\ u.prev = t.nsend
               /\ u.root = Mix(received, Fresh(t.self), dh)
               /\ u.send # None /\ u.send.at = 0 /\ u.nsend = 0
               /\ u.recv # None /\ u.recv.at = 0 /\ u.nrecv = 0 /\ u.recv.root = received
               /\ u.skipped = t.skipped
<1> DEFINE received == Mix(t.root, t.self, dh)
           fresh == Fresh(t.self)
           sending == Mix(received, fresh, dh)
           u == Ratcheted(t, dh)
<1>1. t.self \in Key /\ t.root \in Seq(SUBSET Key) /\ t.nsend \in Nat
  BY StateParts
<1>2. fresh \in Key /\ fresh # t.self
  BY <1>1 DEF Fresh, Key
<1>3. /\ received \in Seq(SUBSET Key) /\ Chain(received) \in ChainKeys(Key)
      /\ Chain(received).root = received /\ Chain(received).at = 0
  BY <1>1, MixParts
<1> HIDE DEF received, fresh
<1>4. /\ sending \in Seq(SUBSET Key) /\ Chain(sending) \in ChainKeys(Key) /\ Chain(sending).at = 0
  BY <1>2, <1>3, MixParts
<1> HIDE DEF sending
<1>5. u = [t EXCEPT !.prev = t.nsend, !.nsend = 0, !.nrecv = 0, !.remote = dh,
                    !.recv = Chain(received), !.self = fresh,
                    !.root = sending, !.send = Chain(sending)]
  BY DEF Ratcheted, received, fresh, sending
<1> HIDE DEF u
<1>6. /\ u.recv = Chain(received) /\ u.send = Chain(sending) /\ u.root = sending
      /\ u.remote = dh /\ u \in States(Key) /\ u.self = fresh /\ u.prev = t.nsend
      /\ u.nsend = 0 /\ u.nrecv = 0 /\ u.skipped = t.skipped
  BY <1>1, <1>2, <1>3, <1>4, <1>5 DEF States
<1>7. u.recv # None /\ u.send # None
  BY <1>3, <1>4, <1>6, ChatNoneAssumption
<1> QED BY <1>2, <1>3, <1>4, <1>6, <1>7 DEF u, received, fresh, sending

\* The first of the texts expected on the present chain opens.
LEMMA NextPresent ==
    ASSUME NEW t \in States(Key), NEW F, \A f \in F : Texty(f), Ready(t, F),
           NEW m \in F, \A f \in F : m.id <= f.id, Present(t, m)
    PROVE  /\ m.n = t.nrecv /\ Decrypt(t, m) = [state |-> Advanced(t), key |-> m.key]
<1>1. /\ Texty(m) /\ t.nrecv \in Nat /\ t.recv \in ChainKeys(Key) /\ t.recv # None
      /\ m.dh = t.remote /\ m.key.root = t.recv.root /\ t.recv.at = t.nrecv
      /\ t.nrecv <= m.n /\ m.key.at = m.n /\ t.skipped = {}
  BY StateParts DEF Ready, Present
<1>2. m.n = t.nrecv
  <2>1. SUFFICES ASSUME t.nrecv < m.n PROVE FALSE
    BY <1>1 DEF Texty
  <2>2. PICK g \in F : g.id < m.id
    BY <1>1, <2>1 DEF Ready
  <2> QED BY <2>2 DEF Texty
<1>3. Kept(t, m) = {} /\ Turned(t, m) = t /\ Skip(t, m.n) = t
  BY <1>1, <1>2 DEF Kept, Turned, Skip
<1>4. ~ TooFar(t, m.n)
  BY <1>1, <1>2, RatchetAssumption DEF TooFar
<1>5. t.recv = m.key
  BY <1>1, <1>2 DEF Texty, ChainKeys
<1> QED BY <1>1, <1>2, <1>3, <1>4, <1>5 DEF Decrypt, ByChain

\* Those after it are expected then.
LEMMA ReadyPresent ==
    ASSUME NEW t \in States(Key), NEW F, \A f \in F : Texty(f), Ready(t, F),
           \A f, g \in F : f.key = g.key => f = g,
           NEW m \in F, Present(t, m), m.n = t.nrecv
    PROVE  Ready(Advanced(t), F \ {m})
<1> DEFINE u == Advanced(t)
<1>1. /\ Texty(m) /\ t.nrecv \in Nat /\ t.recv \in ChainKeys(Key) /\ t.recv # None
      /\ m.dh = t.remote /\ m.key.root = t.recv.root /\ t.recv.at = t.nrecv
      /\ m.key.at = m.n /\ t.skipped = {}
  BY StateParts DEF Ready, Present
<1>2. /\ u.recv # None /\ u.self = t.self /\ u.root = t.root /\ u.remote = t.remote
      /\ u.skipped = t.skipped /\ u.recv.root = t.recv.root /\ u.recv.at = t.recv.at + 1
      /\ u.nrecv = t.nrecv + 1
  BY <1>1, AdvancedParts
<1> HIDE DEF u
<1>3. \A f : /\ Present(u, f) <=> Present(t, f)
             /\ Coming(u, f) <=> Coming(t, f)
  BY <1>1, <1>2 DEF Present, Coming
<1>4. \A f \in F : f # m /\ Present(t, f) => f.n # m.n
  <2> SUFFICES ASSUME NEW f \in F, Present(t, f), f.n = m.n PROVE f = m
    OBVIOUS
  <2>1. f.key.at = f.n /\ f.key.root = m.key.root /\ Texty(f)
    BY <1>1 DEF Ready, Present
  <2>2. f.key = m.key
    BY <1>1, <2>1 DEF Texty, ChainKeys
  <2> QED BY <2>2
<1>5. ASSUME NEW f \in F \ {m}
      PROVE  /\ f.key.at = f.n /\ (Present(u, f) \/ Coming(u, f))
             /\ Present(u, f) => u.nrecv <= f.n
  BY <1>1, <1>2, <1>3, <1>4, <1>5 DEF Ready, Texty
<1>6. ASSUME NEW f \in F \ {m}, NEW i \in Nat, i < f.n, Present(u, f) => u.nrecv <= i
      PROVE  \E g \in F \ {m} : g.dh = f.dh /\ g.n = i /\ g.id < f.id
  <2>1. Present(t, f) => t.nrecv <= i
    BY <1>1, <1>2, <1>3, <1>6
  <2>2. PICK g \in F : g.dh = f.dh /\ g.n = i /\ g.id < f.id
    BY <1>6, <2>1 DEF Ready
  <2>3. CASE Present(t, f)
    BY <1>1, <1>2, <1>3, <1>6, <2>2, <2>3
  <2>4. CASE ~ Present(t, f)
    <3>1. Coming(t, f)
      BY <2>4 DEF Ready
    <3> QED BY <1>1, <2>2, <3>1 DEF Coming
  <2> QED BY <2>3, <2>4
<1>7. ASSUME NEW f \in F \ {m}, Coming(u, f), NEW i \in Nat, u.nrecv <= i, i < f.prev
      PROVE  \E g \in F \ {m} : Present(u, g) /\ g.n = i
  <2>1. t.nrecv <= i /\ i # m.n
    BY <1>1, <1>2, <1>7
  <2>2. PICK g \in F : Present(t, g) /\ g.n = i
    BY <1>1, <1>3, <1>7, <2>1 DEF Ready
  <2> QED BY <1>3, <2>1, <2>2
<1>8. \A f, g \in F \ {m} : Coming(u, g) => IF Present(u, f) THEN f.id < g.id ELSE f.dh = g.dh
  BY <1>3 DEF Ready
<1>9. u.skipped = {} /\ u.recv.at = u.nrecv
  BY <1>1, <1>2
<1>10. \A f \in F \ {m} : \A i \in Nat : i < f.n /\ (Present(u, f) => u.nrecv <= i)
                       => \E g \in F \ {m} : g.dh = f.dh /\ g.n = i /\ g.id < f.id
  BY <1>6
<1>11. \A f \in F \ {m} : Coming(u, f) /\ u.recv # None =>
          \A i \in Nat : u.nrecv <= i /\ i < f.prev => \E g \in F \ {m} : Present(u, g) /\ g.n = i
  BY <1>7
<1> QED BY <1>5, <1>8, <1>9, <1>10, <1>11 DEF Ready, u

\* Nothing is left of the present chain when the first text is one of the next: it
\* is the first there, and opens.
LEMMA NextComing ==
    ASSUME NEW t \in States(Key), NEW F, \A f \in F : Texty(f), Ready(t, F),
           NEW m \in F, \A f \in F : m.id <= f.id, ~ Present(t, m)
    PROVE  /\ Coming(t, m) /\ \A f \in F : Coming(t, f) /\ ~ Present(t, f) /\ f.dh = m.dh
           /\ m.n = 0
           /\ Decrypt(t, m) = [state |-> Advanced(Ratcheted(t, m.dh)), key |-> m.key]
<1>1. /\ Texty(m) /\ t.nrecv \in Nat /\ m.key.at = m.n /\ Coming(t, m) /\ t.skipped = {}
      /\ m.dh # t.remote /\ m.key.root = Mix(t.root, t.self, m.dh)
  BY StateParts DEF Ready, Coming
<1>2. \A f \in F : Coming(t, f) /\ ~ Present(t, f) /\ f.dh = m.dh
  <2> TAKE f \in F
  <2>1. ~ Present(t, f)
    <3>1. Present(t, f) => f.id < m.id
      BY <1>1 DEF Ready
    <3> QED BY <1>1, <3>1 DEF Texty
  <2> QED BY <1>1, <2>1 DEF Ready
<1>3. m.n = 0
  <2>1. SUFFICES ASSUME 0 < m.n PROVE FALSE
    BY <1>1 DEF Texty
  <2>2. PICK g \in F : g.id < m.id
    BY <1>2, <2>1 DEF Ready
  <2> QED BY <2>2 DEF Texty
<1>4. t.recv # None => m.prev <= t.nrecv
  <2>1. SUFFICES ASSUME t.recv # None, t.nrecv < m.prev PROVE FALSE
    BY <1>1 DEF Texty
  <2>2. \E g \in F : Present(t, g)
    BY <1>1, <2>1 DEF Ready
  <2> QED BY <1>2, <2>2
<1>5. Kept(t, m) = {} /\ ~ TooFar(t, m.prev) /\ Skip(t, m.prev) = t
  BY <1>1, <1>4, RatchetAssumption DEF Kept, TooFar, Skip, Texty
<1> DEFINE v == Ratcheted(t, m.dh)
<1>6. /\ v \in States(Key) /\ v.recv # None /\ v.recv.at = 0 /\ v.nrecv = 0
      /\ v.recv.root = Mix(t.root, t.self, m.dh)
  BY <1>1, RatchetedParts DEF Texty
<1>7. Turned(t, m) = v
  BY <1>1, <1>5 DEF Turned
<1> HIDE DEF v
<1>8. v.recv \in ChainKeys(Key)
  BY <1>6, StateParts
<1>9. v.recv = m.key
  BY <1>1, <1>3, <1>6, <1>8 DEF Texty, ChainKeys
<1>10. ~ TooFar(v, m.n) /\ Skip(v, m.n) = v
  BY <1>3, <1>6, RatchetAssumption DEF TooFar, Skip
<1>11. Decrypt(t, m) = [state |-> Advanced(v), key |-> m.key]
  BY <1>5, <1>6, <1>7, <1>9, <1>10 DEF Decrypt, ByChain
<1> QED BY <1>1, <1>2, <1>3, <1>11 DEF v

\* Those after it are expected then, on the chain that has become the present one.
LEMMA ReadyComing ==
    ASSUME NEW t \in States(Key), NEW F, \A f \in F : Texty(f), Ready(t, F),
           \A f, g \in F : f.key = g.key => f = g,
           NEW m \in F, m.n = 0, \A f \in F : Coming(t, f) /\ ~ Present(t, f) /\ f.dh = m.dh
    PROVE  LET u == Advanced(Ratcheted(t, m.dh))
           IN  /\ Ready(u, F \ {m}) /\ \A f \in F \ {m} : Present(u, f)
               /\ \A f \in F : f # m => f.n # 0
<1> DEFINE v == Ratcheted(t, m.dh)
           u == Advanced(v)
<1>1. /\ Texty(m) /\ t.skipped = {} /\ m.key.at = 0 /\ m.key.root = Mix(t.root, t.self, m.dh)
      /\ \A f \in F : f.key.root = m.key.root /\ f.key.at = f.n /\ Texty(f)
  BY DEF Ready, Coming
<1>2. /\ v \in States(Key) /\ v.recv # None /\ v.recv.at = 0 /\ v.nrecv = 0 /\ v.remote = m.dh
      /\ v.recv.root = Mix(t.root, t.self, m.dh) /\ v.skipped = {}
  <2>1. PICK dh \in Key : dh = m.dh
    BY <1>1 DEF Texty
  <2> DEFINE w == Ratcheted(t, dh)
  <2>2. /\ w \in States(Key) /\ w.recv # None /\ w.recv.at = 0 /\ w.nrecv = 0 /\ w.remote = dh
        /\ w.recv.root = Mix(t.root, t.self, dh) /\ w.skipped = t.skipped
    BY RatchetedParts
  <2>3. w = v
    BY <2>1
  <2> HIDE DEF w, v
  <2> QED BY <1>1, <2>1, <2>2, <2>3
<1> HIDE DEF v
<1>3. /\ u.recv # None /\ u.remote = m.dh /\ u.skipped = {} /\ u.recv.root = m.key.root
      /\ u.recv.at = 1 /\ u.nrecv = 1
  BY <1>1, <1>2, AdvancedParts
<1> HIDE DEF u
<1>4. \A f \in F : f # m => f.n # 0
  <2> SUFFICES ASSUME NEW f \in F, f.n = 0 PROVE f = m
    OBVIOUS
  <2>1. f.key = m.key
    BY <1>1 DEF Texty, ChainKeys
  <2> QED BY <2>1
<1>5. \A f \in F : Present(u, f) /\ ~ Coming(u, f)
  BY <1>1, <1>3 DEF Present, Coming
<1>6. \A f \in F \ {m} : f.key.at = f.n /\ u.nrecv <= f.n
  BY <1>1, <1>3, <1>4 DEF Texty
<1>7. ASSUME NEW f \in F \ {m}, NEW i \in Nat, i < f.n, u.nrecv <= i
      PROVE  \E g \in F \ {m} : g.dh = f.dh /\ g.n = i /\ g.id < f.id
  <2>1. PICK g \in F : g.dh = f.dh /\ g.n = i /\ g.id < f.id
    BY <1>7 DEF Ready
  <2> QED BY <1>3, <1>7, <2>1
<1> QED BY <1>3, <1>4, <1>5, <1>6, <1>7 DEF Ready, u, v

\* A text that s seals comes last of those t expects.
LEMMA ReadySealed ==
    ASSUME NEW s \in States(Key), NEW t \in States(Key), NEW F, \A f \in F : Texty(f),
           s.send # None => s.send.root = s.root, s.recv # None => s.send # None,
           Ready(t, F), Sends(s, t, F), s.send # None,
           NEW m, Texty(m), m.dh = s.self, m.prev = s.prev, m.n = s.nsend, m.key = s.send,
           \A f \in F : f.id < m.id
    PROVE  Ready(t, F \cup {m}) /\ Sends(Sealed(s), t, F \cup {m})
<1> DEFINE G == F \cup {m}
           u == Sealed(s)
<1>1. /\ s.send \in ChainKeys(Key) /\ s.nsend \in Nat /\ s.send.at = s.nsend /\ m.key.root = s.root
      /\ m.key.at = m.n /\ t.nrecv \in Nat /\ m \in G /\ F \subseteq G /\ s.prev \in Nat
  BY StateParts DEF Sends
<1>2. /\ u.self = s.self /\ u.remote = s.remote /\ u.root = s.root /\ u.prev = s.prev
      /\ u.nsend = s.nsend + 1 /\ u.send # None /\ u.send.at = u.nsend /\ u.recv = s.recv
      /\ u.skipped = s.skipped
  <2>1. /\ After(s.send, 1) # None /\ After(s.send, 1).at = s.send.at + 1
    BY <1>1, ChainParts
  <2>2. u = [s EXCEPT !.send = After(s.send, 1), !.nsend = s.nsend + 1]
    BY DEF Sealed
  <2>3. PICK n \in Nat : n = s.nsend + 1
    BY <1>1
  <2>4. u = [s EXCEPT !.send = After(s.send, 1), !.nsend = n]
    BY <2>2, <2>3
  <2> HIDE DEF u
  <2>5. /\ u.self = s.self /\ u.remote = s.remote /\ u.root = s.root /\ u.prev = s.prev
        /\ u.nsend = n /\ u.send = After(s.send, 1) /\ u.recv = s.recv /\ u.skipped = s.skipped
    BY <2>4 DEF States
  <2> QED BY <1>1, <2>1, <2>3, <2>5
<1> HIDE DEF u
<1>3. CASE Leads(s, t) /\ LeadSent(s, t, F)
  <2>1. Coming(t, m) /\ ~ Present(t, m) /\ Leads(u, t)
    BY <1>1, <1>2, <1>3 DEF Leads, Coming, Present
  <2>2. Ready(t, G)
    <3>1. \A f \in G : /\ f.key.at = f.n /\ (Present(t, f) \/ Coming(t, f))
                       /\ Present(t, f) => t.nrecv <= f.n
      BY <1>1, <2>1 DEF Ready
    <3>2. ASSUME NEW f \in G, NEW i \in Nat, i < f.n, Present(t, f) => t.nrecv <= i
          PROVE  \E g \in G : g.dh = f.dh /\ g.n = i /\ g.id < f.id
      <4>1. CASE f \in F
        BY <3>2, <4>1 DEF Ready
      <4>2. CASE f = m
        BY <1>3, <3>2, <4>2 DEF LeadSent
      <4> QED BY <4>1, <4>2
    <3>3. ASSUME NEW f \in G, Coming(t, f), t.recv # None, NEW i \in Nat, t.nrecv <= i, i < f.prev
          PROVE  \E g \in G : Present(t, g) /\ g.n = i
      <4>1. CASE f \in F
        BY <3>3, <4>1 DEF Ready
      <4>2. CASE f = m
        BY <1>3, <3>3, <4>2 DEF LeadSent
      <4> QED BY <4>1, <4>2
    <3>4. ASSUME NEW f \in G, NEW g \in G, Coming(t, g)
          PROVE  IF Present(t, f) THEN f.id < g.id ELSE f.dh = g.dh
      <4>1. CASE f \in F /\ g \in F
        BY <3>4, <4>1 DEF Ready
      <4>2. CASE f \in F /\ g = m
        <5>1. Present(t, f) \/ Coming(t, f)
          BY <4>2 DEF Ready
        <5> QED BY <1>3, <4>2, <5>1 DEF LeadSent
      <4>3. CASE f = m
        BY <1>3, <2>1, <3>4, <4>3 DEF LeadSent
      <4> QED BY <4>1, <4>2, <4>3
    <3>5. t.skipped = {} /\ (t.recv # None => t.recv.at = t.nrecv)
      BY DEF Ready
    <3> HIDE DEF G
    <3> QED BY <3>1, <3>2, <3>3, <3>4, <3>5 DEF Ready
  <2>3. LeadSent(u, t, G)
    <3>1. \A f \in G : Coming(t, f) => f.dh = u.self /\ f.n < u.nsend
      BY <1>1, <1>2, <1>3 DEF LeadSent, Texty
    <3>2. \A i \in Nat : i < u.nsend => \E f \in G : f.dh = u.self /\ f.n = i
      <4> SUFFICES ASSUME NEW i \in Nat, i < u.nsend PROVE \E f \in G : f.dh = u.self /\ f.n = i
        OBVIOUS
      <4>1. i < s.nsend \/ i = m.n
        BY <1>1, <1>2
      <4> QED BY <1>2, <1>3, <4>1 DEF LeadSent
    <3>3. t.recv # None =>
            \A i \in Nat : t.nrecv <= i /\ i < u.prev => \E f \in G : Present(t, f) /\ f.n = i
      BY <1>2, <1>3 DEF LeadSent
    <3> HIDE DEF G
    <3> QED BY <3>1, <3>2, <3>3 DEF LeadSent
  <2> QED BY <1>2, <2>1, <2>2, <2>3 DEF Sends, G, u
<1>4. CASE Leads(t, s) /\ LagSent(s, t, F)
  <2>1. t.recv # None /\ Present(t, m) /\ ~ Coming(t, m) /\ Leads(t, u) /\ t.nrecv <= m.n
    BY <1>1, <1>2, <1>4 DEF Leads, Coming, Present, LagSent
  <2>2. \A f \in G : Present(t, f) /\ ~ Coming(t, f) /\ f.dh = t.remote
    BY <1>4, <2>1 DEF LagSent, Present, Coming
  <2>3. Ready(t, G)
    <3>1. \A f \in G : f.key.at = f.n /\ t.nrecv <= f.n
      BY <1>1, <2>1, <2>2 DEF Ready
    <3>2. ASSUME NEW f \in G, NEW i \in Nat, i < f.n, t.nrecv <= i
          PROVE  \E g \in G : g.dh = f.dh /\ g.n = i /\ g.id < f.id
      <4>1. CASE f \in F
        BY <3>2, <4>1 DEF Ready
      <4>2. CASE f = m
        <5>1. PICK g \in F : g.n = i
          BY <1>4, <3>2, <4>2 DEF LagSent
        <5> QED BY <2>2, <4>2, <5>1
      <4> QED BY <4>1, <4>2
    <3>3. t.skipped = {} /\ (t.recv # None => t.recv.at = t.nrecv)
      BY DEF Ready
    <3> HIDE DEF G
    <3> QED BY <2>2, <3>1, <3>2, <3>3 DEF Ready
  <2>4. LagSent(u, t, G)
    <3>1. \A f \in G : Present(t, f) /\ f.n < u.nsend
      BY <1>1, <1>2, <1>4, <2>2 DEF LagSent, Texty
    <3>2. t.nrecv <= u.nsend
      BY <1>1, <1>2, <2>1
    <3>3. ASSUME NEW i \in Nat, i < u.nsend, t.nrecv <= i PROVE \E f \in G : f.n = i
      <4>1. i < s.nsend \/ i = m.n
        BY <1>1, <1>2, <3>3
      <4> QED BY <1>4, <3>3, <4>1 DEF LagSent
    <3> HIDE DEF G
    <3> QED BY <2>1, <3>1, <3>2, <3>3 DEF LagSent
  <2> QED BY <1>2, <2>1, <2>3, <2>4 DEF Sends, G, u
<1> QED BY <1>3, <1>4 DEF Sends

\* What a party has sent stays in its place when the other opens the first of it on
\* the present chain, and so does what the other has sent.
LEMMA SendsPresent ==
    ASSUME NEW s \in States(Key), NEW t \in States(Key), NEW F, \A f \in F : Texty(f),
           Ready(t, F), Sends(s, t, F), NEW m \in F, Present(t, m), m.n = t.nrecv
    PROVE  Sends(s, Advanced(t), F \ {m})
<1> DEFINE u == Advanced(t)
<1>1. t.recv # None /\ m.dh = t.remote /\ t.nrecv \in Nat /\ s.nsend \in Nat /\ s.prev \in Nat
  BY StateParts DEF Present
<1>2. /\ u.self = t.self /\ u.root = t.root /\ u.remote = t.remote /\ u.send = t.send
      /\ u.recv # None /\ u.recv.root = t.recv.root /\ u.nrecv = t.nrecv + 1
  BY <1>1, AdvancedParts
<1> HIDE DEF u
<1>3. \A f : /\ Present(u, f) <=> Present(t, f)
             /\ Coming(u, f) <=> Coming(t, f)
  BY <1>1, <1>2 DEF Present, Coming
<1>4. CASE Leads(s, t) /\ LeadSent(s, t, F)
  <2>1. Leads(s, u)
    BY <1>2, <1>4 DEF Leads
  <2>2. \A f \in F \ {m} : Coming(u, f) => f.dh = s.self /\ f.n < s.nsend
    BY <1>3, <1>4 DEF LeadSent
  <2>3. \A i \in Nat : i < s.nsend => \E f \in F \ {m} : f.dh = s.self /\ f.n = i
    BY <1>1, <1>4 DEF LeadSent, Leads
  <2>4. ASSUME NEW i \in Nat, u.nrecv <= i, i < s.prev
        PROVE  \E f \in F \ {m} : Present(u, f) /\ f.n = i
    <3>1. t.nrecv <= i /\ i # m.n
      BY <1>1, <1>2, <2>4
    <3>2. PICK f \in F : Present(t, f) /\ f.n = i
      BY <1>1, <1>4, <2>4, <3>1 DEF LeadSent
    <3> QED BY <1>3, <3>1, <3>2
  <2> QED BY <2>1, <2>2, <2>3, <2>4 DEF Sends, LeadSent, u
<1>5. CASE Leads(t, s) /\ LagSent(s, t, F)
  <2>1. Leads(u, s)
    BY <1>1, <1>2, <1>5 DEF Leads
  <2>2. \A f \in F \ {m} : Present(u, f) /\ f.n < s.nsend
    BY <1>3, <1>5 DEF LagSent
  <2>3. u.nrecv <= s.nsend
    BY <1>1, <1>2, <1>5 DEF LagSent
  <2>4. ASSUME NEW i \in Nat, i < s.nsend, u.nrecv <= i PROVE \E f \in F \ {m} : f.n = i
    <3>1. t.nrecv <= i /\ i # m.n
      BY <1>1, <1>2, <2>4
    <3>2. PICK f \in F : f.n = i
      BY <1>5, <2>4, <3>1 DEF LagSent
    <3> QED BY <3>1, <3>2
  <2> QED BY <1>2, <2>1, <2>2, <2>3, <2>4 DEF Sends, LagSent, u
<1> QED BY <1>4, <1>5 DEF Sends

LEMMA SendsBackPresent ==
    ASSUME NEW s \in States(Key), NEW t \in States(Key), NEW G, Sends(t, s, G), t.recv # None
    PROVE  Sends(Advanced(t), s, G)
<1> DEFINE u == Advanced(t)
<1>1. /\ u.self = t.self /\ u.root = t.root /\ u.remote = t.remote /\ u.send = t.send
      /\ u.recv # None /\ u.recv.root = t.recv.root /\ u.nsend = t.nsend /\ u.prev = t.prev
      /\ u.skipped = t.skipped
  BY AdvancedParts
<1> HIDE DEF u
<1>2. /\ Leads(u, s) <=> Leads(t, s)
      /\ Leads(s, u) <=> Leads(s, t)
      /\ LeadSent(u, s, G) <=> LeadSent(t, s, G)
      /\ LagSent(u, s, G) <=> LagSent(t, s, G)
  BY <1>1 DEF Leads, LeadSent, LagSent
<1> QED BY <1>1, <1>2 DEF Sends, u

\* Neither can be ahead of the other twice.
LEMMA LeadsOnce ==
    ASSUME NEW s \in States(Key), NEW t \in States(Key), Leads(s, t), Leads(t, s)
    PROVE  FALSE
<1>1. /\ s.root \in Seq(SUBSET Key) /\ t.root \in Seq(SUBSET Key) /\ s.self \in Key /\ t.self \in Key
      /\ Len(s.root) \in Nat /\ Len(t.root) \in Nat
  BY StateParts
<1>2. Len(s.root) = Len(t.root) + 1 /\ Len(t.root) = Len(s.root) + 1
  BY <1>1, MixParts DEF Leads
<1> QED BY <1>1, <1>2

\* The one that was behind goes ahead when it opens the first text of the next chain.
LEMMA SendsComing ==
    ASSUME NEW s \in States(Key), NEW t \in States(Key), NEW F, \A f \in F : Texty(f),
           Ready(t, F), Sends(s, t, F), NEW m \in F, m.n = 0, \A f \in F : f # m => f.n # 0,
           \A f \in F : Coming(t, f) /\ ~ Present(t, f) /\ f.dh = m.dh
    PROVE  LET u == Advanced(Ratcheted(t, m.dh))
           IN  /\ Leads(s, t) /\ LeadSent(s, t, F) /\ m.dh = s.self /\ Leads(u, s)
               /\ (\A f \in F \ {m} : Present(u, f)) => Sends(s, u, F \ {m})
<1> DEFINE v == Ratcheted(t, m.dh)
           u == Advanced(v)
           fresh == Fresh(t.self)
<1>1. /\ s.self \in Key /\ t.self \in Key /\ s.nsend \in Nat /\ s.root \in Seq(SUBSET Key)
      /\ t.root \in Seq(SUBSET Key) /\ m.dh \in Key /\ None \notin Key
  BY StateParts, ChatNoneAssumption DEF Texty
<1>2. Leads(s, t) /\ LeadSent(s, t, F)
  BY DEF Sends, LagSent
<1>3. m.dh = s.self /\ 0 < s.nsend /\ \A f \in F : f.n < s.nsend
  BY <1>2 DEF LeadSent
<1>4. /\ v \in States(Key) /\ fresh \in Key /\ fresh # t.self /\ v.self = fresh /\ v.remote = s.self
      /\ v.root = Mix(Mix(t.root, t.self, s.self), fresh, s.self) /\ v.send # None
      /\ v.recv # None /\ v.nrecv = 0 /\ v.recv.root = Mix(t.root, t.self, s.self)
  <2> DEFINE w == Ratcheted(t, s.self)
  <2>1. /\ w \in States(Key) /\ fresh \in Key /\ fresh # t.self /\ w.self = fresh
        /\ w.remote = s.self
        /\ w.root = Mix(Mix(t.root, t.self, s.self), fresh, s.self) /\ w.send # None
        /\ w.recv # None /\ w.nrecv = 0 /\ w.recv.root = Mix(t.root, t.self, s.self)
    BY <1>1, RatchetedParts
  <2>2. w = v
    BY <1>3
  <2> HIDE DEF w, v, fresh
  <2> QED BY <2>1, <2>2
<1> HIDE DEF v, fresh
<1>5. /\ u.self = fresh /\ u.remote = s.self /\ u.root = Mix(s.root, fresh, s.self)
      /\ u.send # None /\ u.recv # None /\ u.recv.root = s.root /\ u.nrecv = 1
  BY <1>2, <1>4, AdvancedParts DEF Leads
<1> HIDE DEF u
<1>6. Mix(s.root, s.self, fresh) = Mix(s.root, fresh, s.self)
  <2>1. {s.self, fresh} = {fresh, s.self}
    OBVIOUS
  <2> QED BY <2>1 DEF Mix
<1>7. Leads(u, s)
  BY <1>2, <1>4, <1>5, <1>6 DEF Leads
<1>8. ASSUME \A f \in F \ {m} : Present(u, f) PROVE LagSent(s, u, F \ {m})
  <2>1. ASSUME NEW i \in Nat, i < s.nsend, 1 <= i PROVE \E f \in F \ {m} : f.n = i
    <3>1. PICK f \in F : f.n = i
      BY <1>2, <2>1 DEF LeadSent
    <3> QED BY <2>1, <3>1
  <2> QED BY <1>1, <1>3, <1>5, <1>8, <2>1 DEF LagSent
<1> QED BY <1>2, <1>3, <1>7, <1>8 DEF Sends, u, v

LEMMA SendsBackComing ==
    ASSUME NEW s \in States(Key), NEW t \in States(Key), NEW F, NEW G, Leads(s, t),
           Sends(t, s, G), NEW dh \in Key, Leads(Advanced(Ratcheted(t, dh)), s)
    PROVE  Sends(Advanced(Ratcheted(t, dh)), s, G)
<1> DEFINE v == Ratcheted(t, dh)
           u == Advanced(v)
<1>1. /\ v \in States(Key) /\ v.recv # None /\ v.send # None /\ v.send.at = 0 /\ v.nsend = 0
      /\ v.prev = t.nsend /\ v.skipped = t.skipped
  BY RatchetedParts
<1> HIDE DEF v
<1>2. u.send # None /\ u.send.at = 0 /\ u.nsend = 0 /\ u.prev = t.nsend /\ u.skipped = t.skipped
  BY <1>1, AdvancedParts
<1> HIDE DEF u
<1>3. LagSent(t, s, G) /\ t.skipped = {}
  BY LeadsOnce DEF Sends
<1>4. \A g \in G : ~ Coming(s, g)
  BY <1>3 DEF LagSent, Present, Coming
<1>5. ASSUME s.recv # None, NEW i \in Nat, s.nrecv <= i, i < u.prev
      PROVE  \E g \in G : Present(s, g) /\ g.n = i
  BY <1>2, <1>3, <1>5 DEF LagSent
<1>6. LeadSent(u, s, G)
  BY <1>2, <1>4, <1>5 DEF LeadSent
<1> QED BY <1>2, <1>3, <1>6 DEF Sends, u, v

\* The first text of another party's opens, and both directions stay in place.
LEMMA Opens ==
    ASSUME NEW t \in States(Key), NEW F, \A f \in F : Texty(f), Ready(t, F),
           \A f, g \in F : f.key = g.key => f = g,
           NEW m \in F, \A f \in F : m.id <= f.id
    PROVE  LET d == Decrypt(t, m)
           IN  /\ d.key = m.key /\ Ready(d.state, F \ {m})
               /\ \A s \in States(Key) : Sends(s, t, F) => Sends(s, d.state, F \ {m})
               /\ \A s \in States(Key) : \A G :
                     Sends(s, t, F) /\ Sends(t, s, G) => Sends(d.state, s, G)
<1>1. CASE Present(t, m)
  <2>1. m.n = t.nrecv /\ Decrypt(t, m) = [state |-> Advanced(t), key |-> m.key]
    BY <1>1, NextPresent
  <2>2. Ready(Advanced(t), F \ {m})
    BY <1>1, <2>1, ReadyPresent
  <2>3. \A s \in States(Key) : Sends(s, t, F) => Sends(s, Advanced(t), F \ {m})
    BY <1>1, <2>1, SendsPresent
  <2>4. t.recv # None
    BY <1>1 DEF Present
  <2>5. \A s \in States(Key) : \A G : Sends(t, s, G) => Sends(Advanced(t), s, G)
    BY <2>4, SendsBackPresent
  <2> QED BY <2>1, <2>2, <2>3, <2>5
<1>2. CASE ~ Present(t, m)
  <2> DEFINE u == Advanced(Ratcheted(t, m.dh))
  <2>1. /\ \A f \in F : Coming(t, f) /\ ~ Present(t, f) /\ f.dh = m.dh
        /\ m.n = 0 /\ Decrypt(t, m) = [state |-> u, key |-> m.key]
    BY <1>2, NextComing
  <2>2. Ready(u, F \ {m}) /\ (\A f \in F \ {m} : Present(u, f)) /\ (\A f \in F : f # m => f.n # 0)
    BY <2>1, ReadyComing
  <2>3. ASSUME NEW s \in States(Key), Sends(s, t, F)
        PROVE  /\ Leads(s, t) /\ Leads(u, s) /\ Sends(s, u, F \ {m})
    BY <2>1, <2>2, <2>3, SendsComing
  <2>4. m.dh \in Key
    BY DEF Texty
  <2>5. ASSUME NEW s \in States(Key), NEW G, Sends(s, t, F), Sends(t, s, G) PROVE Sends(u, s, G)
    BY <2>3, <2>4, <2>5, SendsBackComing
  <2> QED BY <2>1, <2>2, <2>3, <2>5
<1> QED BY <1>1, <1>2

------------------------------------------------------------------------------
(* Frames on their way. *)

\* f is written before g: if f is sealed, a frame of the same run after it is no
\* InitialMessage, and a sealed one has a higher number.
Before(f, g) == f.kind = "sealed" /\ Writer(f) = Writer(g)
                => g.kind # "init" /\ (g.kind = "sealed" => f.id < g.id)
Ordered(S) == \A a, b \in 1 .. Len(S) : a < b => Before(S[a], S[b])

\* The frames of a sequence.
LEMMA InSequence ==
    ASSUME NEW X, NEW S \in Seq(X)
    PROVE  /\ \A e : e \in ToSet(S) <=> \E i \in 1 .. Len(S) : e = S[i]
           /\ ToSet(S) \subseteq X
<1>1. DOMAIN S = 1 .. Len(S) /\ \A i \in 1 .. Len(S) : S[i] \in X
  BY ElementOfSeq
<1> QED BY <1>1 DEF ToSet

\* What is behind the first.
LEMMA FirstOff ==
    ASSUME NEW X, NEW S \in Seq(X), S # <<>>
    PROVE  /\ Head(S) \in X /\ Tail(S) \in Seq(X)
           /\ ToSet(S) = {Head(S)} \cup ToSet(Tail(S))
           /\ Ordered(S) => /\ Ordered(Tail(S))
                            /\ \A g \in ToSet(Tail(S)) : Before(Head(S), g)
<1> DEFINE T == Tail(S)
<1>1. /\ T \in Seq(X) /\ Len(T) = Len(S) - 1 /\ Head(S) = S[1] /\ Len(S) \in Nat \ {0}
      /\ \A i \in 1 .. Len(T) : T[i] = S[i + 1]
  BY HeadTailProperties
<1>2. Head(S) \in X
  BY <1>1, ElementOfSeq
<1> HIDE DEF T
<1>3. /\ \A e : e \in ToSet(S) <=> \E i \in 1 .. Len(S) : e = S[i]
      /\ \A e : e \in ToSet(T) <=> \E i \in 1 .. Len(T) : e = T[i]
  BY <1>1, InSequence
<1>4. ASSUME NEW e PROVE e \in ToSet(S) <=> e = Head(S) \/ e \in ToSet(T)
  <2>1. ASSUME NEW i \in 1 .. Len(S), e = S[i] PROVE e = Head(S) \/ e \in ToSet(T)
    <3>1. i = 1 \/ i - 1 \in 1 .. Len(T)
      BY <1>1
    <3>2. i - 1 \in 1 .. Len(T) => T[i - 1] = S[i]
      BY <1>1
    <3> QED BY <1>1, <1>3, <2>1, <3>1, <3>2
  <2>2. ASSUME NEW i \in 1 .. Len(T), e = T[i] PROVE e \in ToSet(S)
    <3>1. i + 1 \in 1 .. Len(S) /\ e = S[i + 1]
      BY <1>1, <2>2
    <3> QED BY <1>3, <3>1
  <2>3. Head(S) \in ToSet(S)
    BY <1>1, <1>3
  <2> QED BY <1>3, <2>1, <2>2, <2>3
<1>5. ASSUME Ordered(S) PROVE Ordered(T) /\ \A g \in ToSet(T) : Before(Head(S), g)
  <2>1. ASSUME NEW a \in 1 .. Len(T), NEW b \in 1 .. Len(T), a < b PROVE Before(T[a], T[b])
    <3>1. a + 1 \in 1 .. Len(S) /\ b + 1 \in 1 .. Len(S) /\ a + 1 < b + 1
      BY <1>1, <2>1
    <3> QED BY <1>1, <1>5, <3>1 DEF Ordered
  <2>2. ASSUME NEW b \in 1 .. Len(T) PROVE Before(Head(S), T[b])
    <3>1. 1 \in 1 .. Len(S) /\ b + 1 \in 1 .. Len(S) /\ 1 < b + 1
      BY <1>1
    <3> QED BY <1>1, <1>5, <3>1 DEF Ordered
  <2> QED BY <1>3, <2>1, <2>2 DEF Ordered
<1>6. ToSet(S) = {Head(S)} \cup ToSet(T)
  BY <1>4
<1> QED BY <1>1, <1>2, <1>5, <1>6 DEF T

\* Two sequences, one after the other.
LEMMA OneAfterOther ==
    ASSUME NEW X, NEW S \in Seq(X), NEW T \in Seq(X)
    PROVE  /\ S \o T \in Seq(X) /\ ToSet(S \o T) = ToSet(S) \cup ToSet(T)
           /\ Ordered(S) /\ Ordered(T)
              /\ (\A f \in ToSet(S) : \A g \in ToSet(T) : Before(f, g)) => Ordered(S \o T)
<1> DEFINE U == S \o T
<1>1. /\ U \in Seq(X) /\ Len(U) = Len(S) + Len(T) /\ Len(S) \in Nat /\ Len(T) \in Nat
      /\ \A i \in 1 .. Len(U) : U[i] = IF i <= Len(S) THEN S[i] ELSE T[i - Len(S)]
  BY ConcatProperties
<1> HIDE DEF U
<1>2. /\ \A e : e \in ToSet(S) <=> \E i \in 1 .. Len(S) : e = S[i]
      /\ \A e : e \in ToSet(T) <=> \E i \in 1 .. Len(T) : e = T[i]
      /\ \A e : e \in ToSet(U) <=> \E i \in 1 .. Len(U) : e = U[i]
  BY <1>1, InSequence
<1>3. ASSUME NEW e PROVE e \in ToSet(U) <=> e \in ToSet(S) \/ e \in ToSet(T)
  <2>1. ASSUME NEW i \in 1 .. Len(U), e = U[i] PROVE e \in ToSet(S) \/ e \in ToSet(T)
    <3>1. i \in 1 .. Len(S) \/ (~ i <= Len(S) /\ i - Len(S) \in 1 .. Len(T))
      BY <1>1
    <3> QED BY <1>1, <1>2, <2>1, <3>1
  <2>2. ASSUME NEW i \in 1 .. Len(S), e = S[i] PROVE e \in ToSet(U)
    BY <1>1, <1>2, <2>2
  <2>3. ASSUME NEW i \in 1 .. Len(T), e = T[i] PROVE e \in ToSet(U)
    <3>1. /\ i + Len(S) \in 1 .. Len(U) /\ ~ (i + Len(S) <= Len(S))
          /\ (i + Len(S)) - Len(S) = i
      BY <1>1
    <3> QED BY <1>1, <1>2, <2>3, <3>1
  <2> QED BY <1>2, <2>1, <2>2, <2>3
<1>4. ASSUME Ordered(S), Ordered(T), \A f \in ToSet(S) : \A g \in ToSet(T) : Before(f, g)
      PROVE  Ordered(U)
  <2> SUFFICES ASSUME NEW a \in 1 .. Len(U), NEW b \in 1 .. Len(U), a < b
               PROVE  Before(U[a], U[b])
    BY DEF Ordered
  <2>1. CASE b <= Len(S)
    <3>1. a \in 1 .. Len(S) /\ b \in 1 .. Len(S)
      BY <1>1, <2>1
    <3> QED BY <1>1, <1>4, <2>1, <3>1 DEF Ordered
  <2>2. CASE ~ (a <= Len(S))
    <3>1. /\ a - Len(S) \in 1 .. Len(T) /\ b - Len(S) \in 1 .. Len(T)
          /\ a - Len(S) < b - Len(S) /\ ~ (b <= Len(S))
      BY <1>1, <2>2
    <3> QED BY <1>1, <1>4, <2>2, <3>1 DEF Ordered
  <2>3. CASE a <= Len(S) /\ ~ (b <= Len(S))
    <3>1. a \in 1 .. Len(S) /\ b - Len(S) \in 1 .. Len(T)
      BY <1>1, <2>3
    <3>2. U[a] \in ToSet(S) /\ U[b] \in ToSet(T)
      BY <1>1, <1>2, <2>3, <3>1
    <3> QED BY <1>4, <3>2
  <2> QED BY <2>1, <2>2, <2>3
<1>5. ToSet(U) = ToSet(S) \cup ToSet(T)
  BY <1>3
<1> QED BY <1>1, <1>4, <1>5 DEF U

\* One frame, and one more frame.
LEMMA OneFrame ==
    ASSUME NEW X, NEW e \in X
    PROVE  <<e>> \in Seq(X) /\ ToSet(<<e>>) = {e} /\ Ordered(<<e>>)
<1> DEFINE S == <<e>>
<1>1. S \in Seq(X) /\ Len(S) = 1 /\ S[1] = e
  OBVIOUS
<1> HIDE DEF S
<1>2. \A d : d \in ToSet(S) <=> \E i \in 1 .. Len(S) : d = S[i]
  BY <1>1, InSequence
<1>3. ToSet(S) = {e}
  BY <1>1, <1>2
<1>4. Ordered(S)
  BY <1>1 DEF Ordered
<1> QED BY <1>1, <1>3, <1>4 DEF S

LEMMA OneMore ==
    ASSUME NEW X, NEW S \in Seq(X), NEW e \in X
    PROVE  /\ Append(S, e) \in Seq(X) /\ ToSet(Append(S, e)) = ToSet(S) \cup {e}
           /\ Ordered(S) /\ (\A f \in ToSet(S) : Before(f, e)) => Ordered(Append(S, e))
<1> DEFINE T == <<e>>
<1>1. Append(S, e) = S \o T
  BY AppendIsConcat
<1>2. T \in Seq(X) /\ ToSet(T) = {e} /\ Ordered(T)
  BY OneFrame
<1> HIDE DEF T
<1>3. /\ S \o T \in Seq(X) /\ ToSet(S \o T) = ToSet(S) \cup ToSet(T)
      /\ Ordered(S) /\ Ordered(T)
         /\ (\A f \in ToSet(S) : \A g \in ToSet(T) : Before(f, g)) => Ordered(S \o T)
  BY <1>2, OneAfterOther
<1> QED BY <1>1, <1>2, <1>3

\* The beginning of a sequence: what is cut off comes after it.
LEMMA CutOff ==
    ASSUME NEW X, NEW S \in Seq(X), NEW k \in 0 .. Len(S)
    PROVE  LET T == SubSeq(S, 1, k)
           IN  /\ T \in Seq(X) /\ ToSet(T) \subseteq ToSet(S)
               /\ Ordered(S) => /\ Ordered(T)
                                /\ \A f \in ToSet(S) : f \notin ToSet(T)
                                      => \A g \in ToSet(T) : Before(g, f)
<1> DEFINE T == SubSeq(S, 1, k)
<1>1. /\ T \in Seq(X) /\ Len(T) = k /\ Len(S) \in Nat
      /\ \A i \in 1 .. k : T[i] = S[i]
  BY SubSeqProperties
<1> HIDE DEF T
<1>2. /\ \A e : e \in ToSet(S) <=> \E i \in 1 .. Len(S) : e = S[i]
      /\ \A e : e \in ToSet(T) <=> \E i \in 1 .. Len(T) : e = T[i]
  BY <1>1, InSequence
<1>3. \A i \in 1 .. k : i \in 1 .. Len(S)
  BY <1>1
<1>4. ToSet(T) \subseteq ToSet(S)
  BY <1>1, <1>2, <1>3
<1>5. ASSUME Ordered(S)
      PROVE  /\ Ordered(T)
             /\ \A f \in ToSet(S) : f \notin ToSet(T) => \A g \in ToSet(T) : Before(g, f)
  <2>1. Ordered(T)
    BY <1>1, <1>3, <1>5 DEF Ordered
  <2>2. ASSUME NEW f \in ToSet(S), f \notin ToSet(T), NEW g \in ToSet(T) PROVE Before(g, f)
    <3>1. PICK i \in 1 .. Len(S) : f = S[i]
      BY <1>2
    <3>2. PICK j \in 1 .. k : g = S[j]
      BY <1>1, <1>2
    <3>3. ~ (i <= k)
      BY <1>1, <1>2, <2>2, <3>1
    <3>4. j < i /\ j \in 1 .. Len(S)
      BY <1>1, <3>3
    <3> QED BY <1>5, <3>1, <3>2, <3>4 DEF Ordered
  <2> QED BY <2>1, <2>2
<1> QED BY <1>1, <1>4, <1>5 DEF T

-----------------------------------------------------------------------------
(* What has become of the frames of a run. *)

Run(c) == <<c, life[c]>>
Alive(c) == phase[c] # "out"
Over(w) == ~ (Alive(w[1]) /\ w[2] = life[w[1]])

\* What c has noted, the texts it has tried in this run, and those of w it has not.
Notes(c) == ToSet(seen[c])
SealedBy(w) == {f \in sent : f.kind = "sealed" /\ Writer(f) = w}
Tried(c) == {f \in sent : \E e \in Notes(c) : e.m = f /\ e.life = life[c] /\ e.how # "session"}
Unread(c, w) == SealedBy(w) \ Tried(c)

\* The frames of x that can still come to c, and whether c can come to read w.
Way(x, c) == ToSet(chan[x][c]) \cup ToSet(up[x])
Tuned(x, c, w) == \/ Started(w, Run(c)) \/ Started(Run(c), w)
                  \/ \E f \in Way(x, c) : f.kind = "init" /\ Writer(f) = w

\* The text h is one of W or of T, or was lost behind all of W at the end of its run.
Known(W, T, h) == \/ h \in W \cup T
                  \/ Over(Writer(h)) /\ \A g \in W : Before(g, h)

\* The number of a text counts those of its client.
Counted == /\ IsFiniteSet(sent)
           /\ \A f \in sent : f.kind # "init" => f.id \in Nat /\ f.id <= Texts(f.from)

\* Without a session nothing was sealed, started or noted in this run.
Silent(c) == Alive(c) /\ session[c] = None =>
                /\ \A f \in sent : Writer(f) = Run(c) => f.kind = "clear"
                /\ \A e \in Notes(c) : e.life # life[c]

\* An InitialMessage has its writer's keys and is aimed at a run of another client.
Aiming == \A f \in sent : f.kind = "init" =>
             /\ f.key = KeyOf(f.from, f.life)
             /\ f.aim.of \in Clients /\ f.aim.of # f.from
             /\ f.aim.life \in Nat /\ f.aim.life <= life[f.aim.of]

\* A session is made of an InitialMessage of another client and tried on its texts.
Noting == \A c \in Clients : \A e \in Notes(c) :
             /\ e.m.kind = IF e.how = "session" THEN "init" ELSE "sealed"
             /\ e.m.from # c

\* Nothing waits for a client that has no task or has left.
Placed == \A x, c \in Clients :
             /\ ~ served[c] \/ ~ Alive(c) \/ x = c => chan[x][c] = <<>>
             /\ \A f \in Way(x, c) : f.from = x

\* What is on its way is in order, and behind what was tried.
Lined == \A x, c \in Clients :
            /\ Ordered(up[x]) /\ Ordered(chan[x][c])
            /\ \A f \in ToSet(chan[x][c]) : \A g \in ToSet(up[x]) : Before(f, g)
            /\ \A f \in Tried(c) : \A g \in Way(x, c) : Before(f, g)

\* No text is lost in the midst of those that its reader could open.
Delivered ==
    /\ \A x, c \in Clients : \A h \in sent :
          /\ x # c /\ Alive(c) /\ h.from = x /\ h.kind = "sealed" /\ Tuned(x, c, Writer(h))
          => Known(Way(x, c), Tried(c), h)
    /\ \A x \in Clients : \A h \in sent : \A f \in ToSet(up[x]) :
          h.kind = "sealed" /\ f.kind = "init" /\ Writer(f) = Writer(h)
          => Known(ToSet(up[x]), {}, h)

WayInv == /\ Counted /\ Aiming /\ Noting /\ Placed /\ Lined /\ Delivered
          /\ \A c \in Clients : Silent(c)

\* Histories by what is noted.
LEMMA NoteParts ==
    ASSUME ChatTypeOK, NEW c \in Clients
    PROVE  /\ \A e \in Notes(c) : e \in Note(sent) /\ e.m \in sent /\ e.how \in Hows /\ e.life \in Nat
           /\ \A e : e \in Notes(c) <=> \E i \in 1 .. Len(seen[c]) : e = seen[c][i]
<1>1. seen[c] \in Seq(Note(sent))
  BY DEF ChatTypeOK, Note
<1>2. /\ \A e : e \in Notes(c) <=> \E i \in 1 .. Len(seen[c]) : e = seen[c][i]
      /\ Notes(c) \subseteq Note(sent)
  BY <1>1, InSequence DEF Notes
<1> QED BY <1>2 DEF Note

LEMMA ByNotes ==
    ASSUME ChatTypeOK, NEW c \in Clients, NEW l, NEW r
    PROVE  /\ Started(r, <<c, l>>) <=> \E e \in Notes(c) :
                 /\ e.life = l /\ e.how = "session" /\ Writer(e.m) = r /\ e.m.aim = KeyOf(c, l)
           /\ Crossed(<<c, l>>, r) <=> \E e \in Notes(c) :
                 /\ e.life = l /\ e.how \in {"opened", "failed"} /\ Writer(e.m) # r
<1>1. \A e : e \in Notes(c) <=> \E i \in 1 .. Len(seen[c]) : e = seen[c][i]
  BY NoteParts
<1>2. <<c, l>>[1] = c /\ <<c, l>>[2] = l
  OBVIOUS
<1> QED BY <1>1, <1>2 DEF Started, Crossed

\* What a client without a session has to do with others.
LEMMA NotYet ==
    ASSUME ChatTypeOK, Noting, NEW c \in Clients, Silent(c), Alive(c), session[c] = None
    PROVE  /\ \A r : ~ Started(r, Run(c)) /\ ~ Crossed(Run(c), r)
           /\ \A x \in Clients : \A l : ~ Started(Run(c), <<x, l>>)
           /\ SealedBy(Run(c)) = {} /\ Tried(c) = {}
           /\ \A f \in sent : Writer(f) = Run(c) => f.kind = "clear"
<1>1. /\ \A f \in sent : Writer(f) = Run(c) => f.kind = "clear"
      /\ \A e \in Notes(c) : e.life # life[c]
  BY DEF Silent
<1>2. \A r : ~ Started(r, Run(c)) /\ ~ Crossed(Run(c), r)
  BY <1>1, ByNotes DEF Run
<1>3. ASSUME NEW x \in Clients, NEW l, Started(Run(c), <<x, l>>) PROVE FALSE
  <2>1. PICK e \in Notes(x) : e.how = "session" /\ Writer(e.m) = Run(c)
    BY <1>3, ByNotes
  <2>2. e.m \in sent
    BY NoteParts
  <2>3. e.m.kind = "init"
    BY <2>1 DEF Noting
  <2> QED BY <1>1, <2>1, <2>2, <2>3
<1> QED BY <1>1, <1>2, <1>3 DEF SealedBy, Tried

\* A run that is over stays so.
LEMMA StaysOver ==
    ASSUME ChatTypeOK, ChatTypeOK', NEW w, w[1] \in Clients, w[2] \in Nat, w[2] <= life[w[1]], Over(w),
           \A c \in Clients : \/ life'[c] = life[c] /\ (Alive(c)' => Alive(c))
                              \/ life'[c] = life[c] + 1
    PROVE  Over(w)'
BY DEF Over, ChatTypeOK

\* When the rest stays and who is there, so does all but the places.
LEMMA WayApart ==
    ASSUME WayInv, UNCHANGED <<life, session, up, chan, sent, seen>>,
           \A c \in Clients : Alive(c)' <=> Alive(c), \A f \in sent : f.from \in Clients
    PROVE  /\ Counted' /\ Aiming' /\ Noting' /\ Lined' /\ Delivered'
           /\ \A c \in Clients : Silent(c)'
<1>1. /\ \A c \in Clients : Run(c)' = Run(c) /\ Notes(c)' = Notes(c)
      /\ \A x, c \in Clients : Way(x, c)' = Way(x, c)
      /\ \A r, q : (Started(r, q)' <=> Started(r, q)) /\ (Crossed(r, q)' <=> Crossed(r, q))
  BY DEF Run, Notes, Way, Started, Crossed
<1>2. \A c \in Clients : Tried(c)' = Tried(c)
  BY <1>1 DEF Tried
<1>3. Counted'
  BY DEF WayInv, Counted, Texts
<1>4. Aiming' /\ Noting' /\ \A c \in Clients : Silent(c)'
  BY <1>1 DEF WayInv, Aiming, Noting, Silent
<1>5. Lined'
  BY <1>1, <1>2 DEF WayInv, Lined
<1>6. \A f \in sent : Over(Writer(f))' <=> Over(Writer(f))
  BY DEF Over, Writer
<1>7. \A h \in sent : \A W, T : Known(W, T, h)' <=> Known(W, T, h)
  BY <1>6 DEF Known
<1>8. \A x, c \in Clients : \A w : Tuned(x, c, w)' <=> Tuned(x, c, w)
  BY <1>1 DEF Tuned
<1>9. Delivered'
  BY <1>1, <1>2, <1>7, <1>8 DEF WayInv, Delivered
<1> QED BY <1>3, <1>4, <1>5, <1>9

\* The host takes a client in, the loop begins, the host cleans up.
LEMMA QuietWay ==
    ASSUME ChatInv, WayInv, NEW c \in Clients, Serve(c) \/ Enter(c) \/ Dismiss(c)
    PROVE  WayInv'
<1>1. /\ UNCHANGED <<life, session, up, chan, sent, seen>>
      /\ \A d \in Clients : Alive(d)' <=> Alive(d)
      /\ \A d \in Clients : Alive(d)' /\ ~ served'[d] => ~ served[d]
  BY DEF Serve, Enter, Dismiss, Alive, ChatInv, ChatTypeOK, net
<1>2. \A f \in sent : f.from \in Clients
  BY DEF ChatInv, Written
<1>3. Placed'
  BY <1>1 DEF Placed, WayInv, Way
<1>4. Counted' /\ Aiming' /\ Noting' /\ Lined' /\ Delivered' /\ \A d \in Clients : Silent(d)'
  BY <1>1, <1>2, WayApart
<1> QED BY <1>3, <1>4 DEF WayInv


\* The host passes a frame on.
LEMMA RouteWay == ASSUME ChatInv, WayInv, NEW x \in Clients, Route(x) PROVE WayInv'
<1> DEFINE m == Head(up[x])
           rest == Tail(up[x])
<1>1. /\ served[x] /\ up[x] # <<>> /\ up' = [up EXCEPT ![x] = rest]
      /\ chan' = [chan EXCEPT ![x] = [c \in Clients |->
                     IF c # x /\ served[c] /\ phase[c] # "out" THEN Append(@[c], m) ELSE @[c]]]
      /\ UNCHANGED <<phase, life, session, files, served, sent, seen>>
  BY DEF Route
<1>2. ChatTypeOK /\ up[x] \in Seq(sent) /\ \A c \in Clients : chan[x][c] \in Seq(sent)
  BY DEF ChatInv, ChatTypeOK
<1>3. /\ m \in sent /\ rest \in Seq(sent) /\ ToSet(up[x]) = {m} \cup ToSet(rest)
      /\ Ordered(rest) /\ \A g \in ToSet(rest) : Before(m, g)
  BY <1>1, <1>2, FirstOff DEF WayInv, Lined
<1> HIDE DEF m, rest
<1>4. /\ up'[x] = rest /\ \A y \in Clients : y # x => up'[y] = up[y]
      /\ \A c \in Clients : chan'[x][c] = IF c # x /\ served[c] /\ Alive(c)
                                          THEN Append(chan[x][c], m) ELSE chan[x][c]
      /\ \A y, c \in Clients : y # x => chan'[y][c] = chan[y][c]
  BY <1>1, <1>2 DEF ChatTypeOK, Alive
<1>5. \A c \in Clients : /\ Append(chan[x][c], m) \in Seq(sent)
                         /\ ToSet(Append(chan[x][c], m)) = ToSet(chan[x][c]) \cup {m}
                         /\ Ordered(Append(chan[x][c], m))
  BY <1>2, <1>3, OneMore DEF WayInv, Lined
<1>6. ASSUME NEW c \in Clients
      PROVE  /\ \A y \in Clients : y # x => Way(y, c)' = Way(y, c)
             /\ c # x /\ served[c] /\ Alive(c) => Way(x, c)' = Way(x, c)
             /\ ~ (c # x /\ served[c] /\ Alive(c)) =>
                   /\ chan[x][c] = <<>> /\ chan'[x][c] = <<>> /\ ToSet(chan[x][c]) = {}
                   /\ Way(x, c)' = ToSet(rest) /\ Way(x, c) = Way(x, c)' \cup {m}
  <2>1. \A y \in Clients : y # x => Way(y, c)' = Way(y, c)
    BY <1>4 DEF Way
  <2>2. CASE c # x /\ served[c] /\ Alive(c)
    BY <1>3, <1>4, <1>5, <2>1, <2>2 DEF Way
  <2>3. CASE ~ (c # x /\ served[c] /\ Alive(c))
    <3>1. chan[x][c] = <<>> /\ chan'[x][c] = <<>>
      BY <1>4, <2>3 DEF WayInv, Placed
    <3>2. ToSet(chan[x][c]) = {} /\ ToSet(chan'[x][c]) = {}
      BY <3>1 DEF ToSet
    <3> QED BY <1>3, <1>4, <2>1, <2>3, <3>1, <3>2 DEF Way
  <2> QED BY <2>2, <2>3
<1>7. /\ \A c \in Clients : Run(c)' = Run(c) /\ Notes(c)' = Notes(c) /\ (Alive(c)' <=> Alive(c))
      /\ \A r, q : Started(r, q)' <=> Started(r, q)
      /\ \A c \in Clients : Tried(c)' = Tried(c)
      /\ \A h \in sent : \A W, T : Known(W, T, h)' <=> Known(W, T, h)
  BY <1>1 DEF Run, Notes, Started, Alive, Tried, Known, Over
<1>8. Counted' /\ Aiming' /\ Noting' /\ \A c \in Clients : Silent(c)'
  BY <1>1, <1>7 DEF WayInv, Counted, Texts, Aiming, Noting, Silent
<1>9. Placed'
  <2>1. \A y, c \in Clients : ~ served[c] \/ ~ Alive(c) \/ y = c => chan'[y][c] = <<>>
    BY <1>4 DEF WayInv, Placed
  <2>2. \A y, c \in Clients : Way(y, c)' \subseteq Way(y, c)
    BY <1>6
  <2> QED BY <1>1, <1>7, <2>1, <2>2 DEF WayInv, Placed
<1>10. Lined'
  <2> SUFFICES ASSUME NEW y \in Clients, NEW c \in Clients
               PROVE  /\ Ordered(up'[y]) /\ Ordered(chan'[y][c])
                      /\ \A f \in ToSet(chan'[y][c]) : \A g \in ToSet(up'[y]) : Before(f, g)
                      /\ \A f \in Tried(c)' : \A g \in Way(y, c)' : Before(f, g)
    BY DEF Lined
  <2>1. \A f \in Tried(c)' : \A g \in Way(y, c)' : Before(f, g)
    BY <1>6, <1>7 DEF WayInv, Lined
  <2>2. Ordered(up'[y])
    BY <1>3, <1>4 DEF WayInv, Lined
  <2>3. Ordered(chan'[y][c])
    BY <1>4, <1>5 DEF WayInv, Lined
  <2>4. \A f \in ToSet(chan'[y][c]) : \A g \in ToSet(up'[y]) : Before(f, g)
    BY <1>3, <1>4, <1>5 DEF WayInv, Lined
  <2> QED BY <2>1, <2>2, <2>3, <2>4
<1>11. ASSUME NEW y \in Clients, NEW c \in Clients, NEW h \in sent, y # c, Alive(c), h.from = y,
              h.kind = "sealed", Tuned(y, c, Writer(h))'
       PROVE  Known(Way(y, c)', Tried(c), h)
  <2>1. Way(y, c)' \subseteq Way(y, c) /\ Tuned(y, c, Writer(h))
    BY <1>6, <1>7, <1>11 DEF Tuned
  <2>2. Known(Way(y, c), Tried(c), h)
    BY <1>11, <2>1 DEF WayInv, Delivered
  <2>3. CASE Way(y, c)' = Way(y, c)
    BY <2>2, <2>3
  <2>4. CASE y = x /\ ~ served[c]
    <3>1. h # m
      <4>1. session[c] = None /\ Silent(c)
        BY <2>4 DEF ChatInv, ChatTypeOK, WayInv
      <4>2. SUFFICES ASSUME h = m PROVE FALSE
        OBVIOUS
      <4>3. \A g \in Way(y, c)' : Before(h, g)
        BY <1>3, <1>6, <1>11, <2>4, <4>2
      <4>4. ~ Started(Writer(h), Run(c)) /\ ~ Started(Run(c), Writer(h))
        BY <1>2, <1>11, <4>1, NotYet DEF Writer, WayInv
      <4> QED BY <1>7, <1>11, <4>3, <4>4 DEF Tuned, Before
    <3> QED BY <1>6, <2>1, <2>2, <2>4, <3>1 DEF Known
  <2> QED BY <1>6, <1>11, <2>3, <2>4
<1>12. ASSUME NEW y \in Clients, NEW h \in sent, NEW f \in ToSet(up'[y]), h.kind = "sealed",
              f.kind = "init", Writer(f) = Writer(h)
       PROVE  Known(ToSet(up'[y]), {}, h)
  <2>1. ToSet(up'[y]) \subseteq ToSet(up[y])
    BY <1>3, <1>4
  <2>2. Known(ToSet(up[y]), {}, h)
    BY <1>12, <2>1 DEF WayInv, Delivered
  <2>3. h = m => y # x
    BY <1>3, <1>4, <1>12 DEF Before
  <2>4. h \in ToSet(up[y]) => h \in ToSet(up'[y])
    BY <1>3, <1>4, <2>3
  <2> QED BY <2>1, <2>2, <2>4 DEF Known
<1>13. Delivered'
  BY <1>1, <1>7, <1>11, <1>12 DEF Delivered
<1> QED BY <1>8, <1>9, <1>10, <1>13 DEF WayInv

\* A run that is over stays so, and what is known of its texts stays known.
LEMMA KnownStays ==
    ASSUME ChatInv, ChatTypeOK', NEW h \in sent, NEW W, NEW T, Known(W, T, h),
           NEW V, V \subseteq W, NEW U, T \subseteq U,
           h \in W => h \in V \cup U \/ (Over(Writer(h))' /\ \A g \in V : Before(g, h)),
           \A c \in Clients : \/ life'[c] = life[c] /\ (Alive(c)' => Alive(c))
                              \/ life'[c] = life[c] + 1
    PROVE  Known(V, U, h)'
<1>1. Writer(h)[1] \in Clients /\ Writer(h)[2] \in Nat /\ Writer(h)[2] <= life[Writer(h)[1]]
  BY DEF ChatInv, Written, Writer
<1>2. Over(Writer(h)) => Over(Writer(h))'
  <2>1. ChatTypeOK
    BY DEF ChatInv
  <2> DEFINE w == Writer(h)
  <2>2. w[1] \in Clients /\ w[2] \in Nat /\ w[2] <= life[w[1]]
    BY <1>1
  <2> HIDE DEF w
  <2>3. Over(w) => Over(w)'
    BY <2>1, <2>2, StaysOver
  <2> QED BY <2>3 DEF w, Writer
<1> QED BY <1>2 DEF Known

\* A connection ends.
LEMMA LeaveWay == ASSUME ChatInv, WayInv, NEW c \in Clients, Leave(c) PROVE WayInv'
<1>1. PICK k \in 0 .. Len(up[c]) : up' = [up EXCEPT ![c] = SubSeq(@, 1, k)]
  BY DEF Leave
<1>2. /\ phase' = [phase EXCEPT ![c] = "out"] /\ session' = [session EXCEPT ![c] = None]
      /\ chan' = [x \in Clients |-> [chan[x] EXCEPT ![c] = <<>>]]
      /\ UNCHANGED <<life, served, sent, seen>>
  BY DEF Leave
<1>3. ChatTypeOK /\ ChatTypeOK' /\ up[c] \in Seq(sent) /\ \A f \in sent : f.from \in Clients
  BY LeaveInv DEF ChatInv, ChatTypeOK, Written
<1> DEFINE left == SubSeq(up[c], 1, k)
<1>4. /\ ToSet(left) \subseteq ToSet(up[c]) /\ Ordered(left)
      /\ \A f \in ToSet(up[c]) : f \notin ToSet(left) => \A g \in ToSet(left) : Before(g, f)
  BY <1>3, CutOff DEF WayInv, Lined
<1> HIDE DEF left
<1>5. /\ up'[c] = left /\ \A y \in Clients : y # c => up'[y] = up[y]
      /\ \A y, d \in Clients : chan'[y][d] = IF d = c THEN <<>> ELSE chan[y][d]
      /\ ~ Alive(c)' /\ \A d \in Clients : d # c => session'[d] = session[d] /\ (Alive(d)' <=> Alive(d))
  BY <1>1, <1>2, <1>3 DEF ChatTypeOK, Alive, left
<1>6. ToSet(<<>>) = {} /\ Ordered(<<>>)
  BY DEF ToSet, Ordered
<1>7. \A y, d \in Clients : /\ ToSet(chan'[y][d]) \subseteq ToSet(chan[y][d])
                            /\ ToSet(up'[y]) \subseteq ToSet(up[y])
                            /\ Way(y, d)' \subseteq Way(y, d)
                            /\ y # c /\ d # c => Way(y, d)' = Way(y, d)
  BY <1>4, <1>5, <1>6 DEF Way
<1>8. /\ \A d \in Clients : Run(d)' = Run(d) /\ Notes(d)' = Notes(d)
      /\ \A r, q : Started(r, q)' <=> Started(r, q)
      /\ \A d \in Clients : Tried(d)' = Tried(d)
  BY <1>2 DEF Run, Notes, Started, Tried
<1>9. Counted' /\ Aiming' /\ Noting' /\ \A d \in Clients : Silent(d)'
  BY <1>2, <1>5, <1>8 DEF WayInv, Counted, Texts, Aiming, Noting, Silent
<1>10. Placed'
  <2>1. \A y, d \in Clients : ~ served[d] \/ ~ Alive(d)' \/ y = d => chan'[y][d] = <<>>
    BY <1>5 DEF WayInv, Placed
  <2> QED BY <1>2, <1>7, <2>1 DEF WayInv, Placed
<1>11. Lined'
  <2> SUFFICES ASSUME NEW y \in Clients, NEW d \in Clients
               PROVE  /\ Ordered(up'[y]) /\ Ordered(chan'[y][d])
                      /\ \A f \in ToSet(chan'[y][d]) : \A g \in ToSet(up'[y]) : Before(f, g)
                      /\ \A f \in Tried(d)' : \A g \in Way(y, d)' : Before(f, g)
    BY DEF Lined
  <2>1. Ordered(up'[y])
    BY <1>4, <1>5 DEF WayInv, Lined
  <2>2. Ordered(chan'[y][d])
    BY <1>5, <1>6 DEF WayInv, Lined
  <2> QED BY <1>7, <1>8, <2>1, <2>2 DEF WayInv, Lined
<1>12. \A d \in Clients : life'[d] = life[d] /\ (Alive(d)' => Alive(d))
  BY <1>2, <1>5
<1>13. \A h \in sent : h.from = c => Over(Writer(h))'
  BY <1>5 DEF Over, Writer
<1>14. ASSUME NEW y \in Clients, NEW d \in Clients, NEW h \in sent, y # d, Alive(d)', h.from = y,
              h.kind = "sealed", Tuned(y, d, Writer(h))'
       PROVE  Known(Way(y, d), Tried(d), h)'
  <2>1. d # c /\ Alive(d) /\ Tuned(y, d, Writer(h))
    BY <1>5, <1>7, <1>8, <1>14 DEF Tuned
  <2>2. Known(Way(y, d), Tried(d), h)
    BY <1>14, <2>1 DEF WayInv, Delivered
  <2>3. ASSUME h \in Way(y, d), h \notin Way(y, d)'
        PROVE  Over(Writer(h))' /\ \A g \in Way(y, d)' : Before(g, h)
    <3>1. y = c
      BY <1>7, <2>1, <2>3
    <3>2. h \in ToSet(up[c]) /\ h \notin ToSet(left) /\ chan'[c][d] = chan[c][d]
      BY <1>5, <2>1, <2>3, <3>1 DEF Way
    <3>3. ASSUME NEW g \in Way(y, d)' PROVE Before(g, h)
      BY <1>4, <1>5, <3>1, <3>2, <3>3 DEF Way, WayInv, Lined
    <3> QED BY <1>13, <1>14, <3>1, <3>3
  <2>4. PICK V : V = Way(y, d)'
    OBVIOUS
  <2>5. PICK T : T = Tried(d)
    OBVIOUS
  <2>6. PICK W : W = Way(y, d)
    OBVIOUS
  <2>7. /\ Known(W, T, h) /\ V \subseteq W
        /\ h \in W => h \in V \cup T \/ (Over(Writer(h))' /\ \A g \in V : Before(g, h))
    BY <1>7, <2>2, <2>3, <2>4, <2>5, <2>6
  <2>8. Known(V, T, h)'
    BY <1>3, <1>12, <2>7, KnownStays
  <2> QED BY <1>8, <2>4, <2>5, <2>8 DEF Known
<1>15. ASSUME NEW y \in Clients, NEW h \in sent, NEW f \in ToSet(up'[y]), h.kind = "sealed",
              f.kind = "init", Writer(f) = Writer(h)
       PROVE  Known(ToSet(up[y]), {}, h)'
  <2>1. Known(ToSet(up[y]), {}, h)
    BY <1>7, <1>15 DEF WayInv, Delivered
  <2>2. ASSUME h \in ToSet(up[y]), h \notin ToSet(up'[y])
        PROVE  Over(Writer(h))' /\ \A g \in ToSet(up'[y]) : Before(g, h)
    <3>1. y = c /\ h \in ToSet(up[c]) /\ h \notin ToSet(left)
      BY <1>5, <2>2
    <3>2. h.from = c
      BY <2>2, <3>1 DEF WayInv, Placed, Way
    <3> QED BY <1>4, <1>5, <1>13, <3>1, <3>2
  <2>3. PICK V : V = ToSet(up'[y])
    OBVIOUS
  <2>4. PICK W : W = ToSet(up[y])
    OBVIOUS
  <2>5. PICK T : T = {}
    OBVIOUS
  <2>6. /\ Known(W, T, h) /\ V \subseteq W
        /\ h \in W => h \in V \cup T \/ (Over(Writer(h))' /\ \A g \in V : Before(g, h))
    BY <1>7, <2>1, <2>2, <2>3, <2>4, <2>5
  <2>7. Known(V, T, h)'
    BY <1>3, <1>12, <2>6, KnownStays
  <2> QED BY <2>3, <2>5, <2>7 DEF Known
<1>16. Delivered'
  BY <1>2, <1>14, <1>15 DEF Delivered
<1> QED BY <1>9, <1>10, <1>11, <1>16 DEF WayInv

\* A client joins: nothing of the new run is there yet, and what is on its way to
\* the client is all that it can come to read.
LEMMA NewRun ==
    ASSUME ChatInv, WayInv, NEW c \in Clients, Connect(c)
    PROVE  /\ life[c] \in Nat /\ life' = [life EXCEPT ![c] = life[c] + 1]
           /\ life'[c] = life[c] + 1 /\ \A d \in Clients : d # c => life'[d] = life[d]
           /\ Run(c)' = <<c, life[c] + 1>>
           /\ phase[c] = "out" /\ session[c] = None
           /\ Alive(c)' /\ ~ Alive(c) /\ \A d \in Clients : d # c => (Alive(d)' <=> Alive(d))
           /\ \A d \in Clients : d # c => Run(d)' = Run(d) /\ Tried(d)' = Tried(d)
           /\ UNCHANGED <<session, served, up, chan, sent, seen>>
           /\ \A f \in sent : f.life \in Nat /\ f.life <= life[f.from] /\ f.from \in Clients
           /\ \A f \in sent : Writer(f) # <<c, life[c] + 1>>
           /\ \A e \in Notes(c) : e.life # life[c] + 1
           /\ \A x \in Clients : chan[x][c] = <<>>
           /\ Tried(c)' = {}
<1>1. /\ life' = [life EXCEPT ![c] = @ + 1] /\ phase' = [phase EXCEPT ![c] = "joining"]
      /\ phase[c] = "out" /\ ~ served[c] /\ UNCHANGED <<session, served, up, chan, sent, seen>>
  BY DEF Connect, net
<1>2. ChatTypeOK /\ life[c] \in Nat /\ session[c] = None /\ Noted(c)
  BY <1>1 DEF ChatInv, ChatTypeOK
<1>3. /\ life' = [life EXCEPT ![c] = life[c] + 1]
      /\ life'[c] = life[c] + 1 /\ \A d \in Clients : d # c => life'[d] = life[d]
      /\ Alive(c)' /\ ~ Alive(c) /\ \A d \in Clients : d # c => (Alive(d)' <=> Alive(d))
  BY <1>1, <1>2 DEF ChatTypeOK, Alive
<1>4. \A f \in sent : f.life \in Nat /\ f.life <= life[f.from] /\ f.from \in Clients
  BY DEF ChatInv, Written
<1>5. \A f \in sent : Writer(f) # <<c, life[c] + 1>>
  BY <1>2, <1>4 DEF Writer
<1>6. \A e \in Notes(c) : e.life # life[c] + 1
  <2>1. \A e \in Notes(c) : e.life <= life[c] /\ e.life \in Nat
    BY <1>2, NoteParts DEF Noted
  <2> QED BY <1>2, <2>1
<1>7. \A d \in Clients : Notes(d)' = Notes(d)
  BY <1>1 DEF Notes
<1>8. Tried(c)' = {} /\ \A d \in Clients : d # c => Run(d)' = Run(d) /\ Tried(d)' = Tried(d)
  BY <1>1, <1>3, <1>6, <1>7 DEF Tried, Run
<1>9. \A x \in Clients : chan[x][c] = <<>>
  BY <1>1 DEF WayInv, Placed
<1> QED BY <1>1, <1>2, <1>3, <1>4, <1>5, <1>6, <1>8, <1>9 DEF Run

LEMMA ConnectWay == ASSUME ChatInv, WayInv, NEW c \in Clients, Connect(c) PROVE WayInv'
<1> DEFINE new == <<c, life[c] + 1>>
<1>1. /\ life[c] \in Nat /\ life'[c] = life[c] + 1 /\ \A d \in Clients : d # c => life'[d] = life[d]
      /\ Run(c)' = new /\ session[c] = None
      /\ Alive(c)' /\ ~ Alive(c) /\ \A d \in Clients : d # c => (Alive(d)' <=> Alive(d))
      /\ \A d \in Clients : d # c => Run(d)' = Run(d) /\ Tried(d)' = Tried(d)
      /\ UNCHANGED <<session, served, up, chan, sent, seen>>
      /\ \A f \in sent : f.life \in Nat /\ f.life <= life[f.from] /\ f.from \in Clients
      /\ \A f \in sent : Writer(f) # new
      /\ \A e \in Notes(c) : e.life # life[c] + 1
      /\ \A x \in Clients : chan[x][c] = <<>>
      /\ Tried(c)' = {}
  BY NewRun
<1>2. ChatTypeOK /\ ChatTypeOK'
  BY ConnectInv DEF ChatInv
<1>3. /\ \A d \in Clients : Notes(d)' = Notes(d)
      /\ \A y, d \in Clients : Way(y, d)' = Way(y, d)
      /\ \A r, q : Started(r, q)' <=> Started(r, q)
  BY <1>1 DEF Notes, Way, Started
<1>4. /\ \A r : ~ Started(r, new)
      /\ \A x \in Clients : \A l : ~ Started(new, <<x, l>>)
  BY <1>1, <1>2, ByNotes, NoteParts
<1> HIDE DEF new
<1>5. Counted' /\ Noting' /\ Placed'
  BY <1>1, <1>3 DEF WayInv, Counted, Texts, Noting, Placed
<1>6. Aiming'
  <2>1. \A d \in Clients : life[d] \in Nat /\ life'[d] \in Nat /\ life[d] <= life'[d]
    <3>1. life \in [Clients -> Nat]
      BY <1>2 DEF ChatTypeOK
    <3> QED BY <1>1, <3>1
  <2>2. ASSUME NEW f \in sent, f.kind = "init" PROVE f.aim.life <= life'[f.aim.of]
    <3>1. /\ f.aim.of \in Clients /\ f.aim.life \in Nat /\ f.aim.life <= life[f.aim.of]
      BY <2>2 DEF WayInv, Aiming
    <3> QED BY <2>1, <3>1
  <2> QED BY <1>1, <2>2 DEF WayInv, Aiming
<1>7. \A d \in Clients : Silent(d)'
  BY <1>1, <1>3 DEF WayInv, Silent
<1>8. Lined'
  BY <1>1, <1>3 DEF WayInv, Lined
<1>9. \A d \in Clients : \/ life'[d] = life[d] /\ (Alive(d)' => Alive(d))
                         \/ life'[d] = life[d] + 1
  BY <1>1
<1>10. ASSUME NEW h \in sent, NEW W, NEW T, Known(W, T, h) PROVE Known(W, T, h)'
  BY <1>2, <1>9, <1>10, KnownStays
<1>11. ASSUME NEW y \in Clients, NEW d \in Clients, NEW h \in sent, y # d, Alive(d)', h.from = y,
              h.kind = "sealed", Tuned(y, d, Writer(h))'
       PROVE  Known(Way(y, d), Tried(d), h)'
  <2>1. CASE d # c
    <3>1. Tuned(y, d, Writer(h)) /\ Alive(d)
      BY <1>1, <1>3, <1>11, <2>1 DEF Tuned
    <3>2. Known(Way(y, d), Tried(d), h)
      BY <1>11, <3>1 DEF WayInv, Delivered
    <3> QED BY <1>1, <1>3, <1>10, <2>1, <3>2
  <2>2. CASE d = c
    <3>1. ~ Started(Writer(h), new) /\ ~ Started(new, Writer(h))
      BY <1>1, <1>4 DEF Writer
    <3>2. PICK f \in Way(y, c) : f.kind = "init" /\ Writer(f) = Writer(h)
      BY <1>1, <1>3, <1>11, <2>2, <3>1 DEF Tuned
    <3>3. ToSet(chan[y][c]) = {}
      BY <1>1 DEF ToSet
    <3>4. Way(y, c) = ToSet(up[y])
      BY <3>3 DEF Way
    <3>5. PICK T : T = {}
      OBVIOUS
    <3>6. Known(Way(y, c), T, h)
      BY <1>11, <3>2, <3>4, <3>5 DEF WayInv, Delivered
    <3>7. PICK W : W = Way(y, c)
      OBVIOUS
    <3>8. Known(W, T, h)'
      BY <1>10, <3>6, <3>7
    <3> QED BY <1>1, <1>3, <2>2, <3>5, <3>7, <3>8 DEF Known
  <2> QED BY <2>1, <2>2
<1>12. ASSUME NEW y \in Clients, NEW h \in sent, NEW f \in ToSet(up[y]), h.kind = "sealed",
              f.kind = "init", Writer(f) = Writer(h)
       PROVE  Known(ToSet(up[y]), {}, h)'
  <2>1. Known(ToSet(up[y]), {}, h)
    BY <1>12 DEF WayInv, Delivered
  <2>2. PICK T : T = {}
    OBVIOUS
  <2>3. PICK W : W = ToSet(up[y])
    OBVIOUS
  <2>4. Known(W, T, h)'
    BY <1>10, <2>1, <2>2, <2>3
  <2> QED BY <1>1, <2>2, <2>3, <2>4 DEF Known
<1>13. Delivered'
  BY <1>1, <1>11, <1>12 DEF Delivered
<1> QED BY <1>5, <1>6, <1>7, <1>8, <1>13 DEF WayInv

\* The session that an initiator makes.
LEMMA StartedAs ==
    ASSUME ChatInv, NEW c \in Clients, phase[c] = "chat", Starts(c)
    PROVE  LET s == SessionFor(c)
           IN  /\ s \in States(Key) /\ s # None /\ Own(c) \in Key /\ Theirs(c) \in Key
               /\ Secret(Own(c), Theirs(c)) \in Seq(SUBSET Key)
               /\ s.self = Own(c) /\ s.remote = Theirs(c)
               /\ s.root = Mix(Secret(Own(c), Theirs(c)), Own(c), Theirs(c))
               /\ s.send # None /\ s.send.at = 0 /\ s.nsend = 0 /\ s.recv = None
               /\ s.skipped = {} /\ s.prev = 0
<1> DEFINE own == Own(c)
           his == Theirs(c)
           first == Secret(own, his)
           root == Mix(first, own, his)
           s == SessionFor(c)
<1>1. own \in Key /\ his \in Key
  <2>1. life[c] \in Nat
    BY DEF ChatInv, ChatTypeOK
  <2> QED BY <2>1, SessionForHolds, KeyOfType DEF Own
<1>2. first \in Seq(SUBSET Key)
  <2> HIDE DEF own, his
  <2>1. {own} \in SUBSET Key /\ {his} \in SUBSET Key
    BY <1>1
  <2> QED BY <2>1 DEF Secret
<1> HIDE DEF own, his, first
<1>3. root \in Seq(SUBSET Key) /\ Chain(root) \in ChainKeys(Key) /\ Chain(root).at = 0
  BY <1>1, <1>2, MixParts
<1> HIDE DEF root
<1>4. s = [InitBob(root, own) EXCEPT !.remote = his, !.send = Chain(root)]
  BY DEF SessionFor, InitAlice, own, his, first, root
<1> HIDE DEF s
<1>5. /\ s \in States(Key) /\ s.root = root /\ s.send = Chain(root) /\ s.nsend = 0
      /\ s.recv = None /\ s.skipped = {} /\ s.self = own /\ s.remote = his /\ s.prev = 0
  BY <1>1, <1>3, <1>4 DEF InitBob, States
<1>6. s # None /\ s.send # None
  BY <1>3, <1>5, StateParts, ChatNoneAssumption
<1> QED BY <1>1, <1>2, <1>3, <1>5, <1>6 DEF s, own, his, first, root

\* The frames of a text come after all that its writer has sealed in this run.
LEMMA NewsParts ==
    ASSUME ChatInv, WayInv, NEW c \in Clients, phase[c] = "chat"
    PROVE  LET f == Text(c)
               new == ToSet(News(c))
           IN  /\ f.kind \in {"sealed", "clear"} /\ f.from = c /\ f.life = life[c]
               /\ f.id \in Nat /\ f.id = Texts(c) + 1
               /\ f \notin sent /\ \A g \in sent : g.from = c /\ g.kind # "init" => g.id < f.id
               /\ new = IF Starts(c) THEN {InitFrame(c), f} ELSE {f}
               /\ Starts(c) => session[c] = None
               /\ \A g \in new : Writer(g) = Run(c) /\ g.from = c
               /\ News(c) \in Seq(new) /\ Ordered(News(c))
               /\ \A g \in sent : \A e \in new : Before(g, e)
               /\ Starts(c) => \A g \in sent : Writer(g) = Run(c) => g.kind = "clear"
<1> DEFINE f == Text(c)
           new == ToSet(News(c))
<1>1. /\ f.kind \in {"sealed", "clear"} /\ f.from = c /\ f.life = life[c] /\ f.id = Texts(c) + 1
  BY DEF Text, Encrypted
<1>2. Texts(c) \in Nat /\ \A g \in sent : g.from = c /\ g.kind # "init" => g.id \in Nat /\ g.id <= Texts(c)
  <2>1. IsFiniteSet({g \in sent : g.from = c /\ g.kind # "init"})
    BY FS_Subset DEF WayInv, Counted
  <2>2. Texts(c) \in Nat
    BY <2>1, FS_CardinalityType DEF Texts
  <2> QED BY <2>2 DEF WayInv, Counted
<1>3. /\ f.id \in Nat /\ f \notin sent
      /\ \A g \in sent : g.from = c /\ g.kind # "init" => g.id < f.id
  BY <1>1, <1>2
<1>4. /\ new = IF Starts(c) THEN {InitFrame(c), f} ELSE {f}
      /\ News(c) \in Seq(new) /\ \A g \in new : g.from = c /\ g.life = life[c]
  BY TextWritten
<1>5. \A g \in new : Writer(g) = Run(c) /\ g.from = c
  BY <1>4 DEF Writer, Run
<1>6. /\ Starts(c) => session[c] = None
      /\ Starts(c) => \A g \in sent : Writer(g) = Run(c) => g.kind = "clear"
  BY DEF Starts, WayInv, Silent, Alive
<1>7. InitFrame(c).kind = "init"
  BY DEF InitFrame
<1>8. Ordered(News(c))
  <2>1. PICK e : e = InitFrame(c)
    OBVIOUS
  <2>2. PICK g : g = f
    OBVIOUS
  <2>3. e.kind = "init"
    BY <1>7, <2>1
  <2>4. Ordered(<<e, g>>) /\ Ordered(<<g>>)
    BY <2>3 DEF Ordered, Before
  <2> HIDE DEF f
  <2> QED BY <2>1, <2>2, <2>4 DEF News, f
<1> HIDE DEF f, new
<1>9. ASSUME NEW g \in sent, NEW e \in new PROVE Before(g, e)
  <2> SUFFICES ASSUME g.kind = "sealed", Writer(g) = Writer(e)
               PROVE  e.kind # "init" /\ (e.kind = "sealed" => g.id < e.id)
    BY DEF Before
  <2>1. Writer(g) = Run(c)
    BY <1>5
  <2>2. ~ Starts(c)
    BY <1>6, <2>1
  <2>3. e = f /\ g.from = c
    BY <1>4, <2>1, <2>2 DEF Writer, Run
  <2> QED BY <1>1, <1>3, <2>3
<1> QED BY <1>1, <1>3, <1>4, <1>5, <1>6, <1>8, <1>9 DEF f, new

\* A client writes a text.
LEMMA WriteWay == ASSUME ChatInv, WayInv, NEW c \in Clients, Write(c) PROVE WayInv'
<1> DEFINE f == Text(c)
           new == ToSet(News(c))
<1>1. /\ phase[c] = "chat" /\ session' = [session EXCEPT ![c] = Then(c)]
      /\ up' = [up EXCEPT ![c] = @ \o News(c)] /\ sent' = sent \cup new
      /\ UNCHANGED <<phase, life, files, served, chan, seen>>
  BY DEF Write, Then, News, Text
<1>2. ChatTypeOK /\ \A d \in Clients : up[d] \in Seq(sent)
  BY DEF ChatInv, ChatTypeOK
<1>3. /\ f.kind \in {"sealed", "clear"} /\ f.from = c /\ f.id \in Nat /\ f.id = Texts(c) + 1
      /\ f \notin sent
      /\ new = IF Starts(c) THEN {InitFrame(c), f} ELSE {f}
      /\ \A g \in new : Writer(g) = Run(c) /\ g.from = c
      /\ News(c) \in Seq(new) /\ Ordered(News(c))
      /\ \A g \in sent : \A e \in new : Before(g, e)
      /\ Starts(c) => \A g \in sent : Writer(g) = Run(c) => g.kind = "clear"
  BY <1>1, NewsParts
<1>4. InitFrame(c).kind = "init"
  BY DEF InitFrame
<1> HIDE DEF f, new
<1>5. /\ up'[c] = up[c] \o News(c) /\ \A y \in Clients : y # c => up'[y] = up[y]
      /\ session'[c] = Then(c) /\ \A d \in Clients : d # c => session'[d] = session[d]
  BY <1>1, <1>2 DEF ChatTypeOK
<1>6. /\ ToSet(up'[c]) = ToSet(up[c]) \cup new /\ ToSet(up[c]) \subseteq sent
      /\ Ordered(up'[c])
  <2>1. up[c] \in Seq(sent') /\ News(c) \in Seq(sent')
    BY <1>1, <1>2, <1>3, MoreOf
  <2>2. ToSet(up[c]) \subseteq sent
    BY <1>2, InSequence
  <2>3. PICK S : S = News(c)
    OBVIOUS
  <2>4. PICK T : T = up[c]
    OBVIOUS
  <2>5. /\ ToSet(T \o S) = ToSet(T) \cup ToSet(S)
        /\ Ordered(T) /\ Ordered(S)
              /\ (\A g \in ToSet(T) : \A e \in ToSet(S) : Before(g, e)) => Ordered(T \o S)
    BY <2>1, <2>3, <2>4, OneAfterOther
  <2>6. Ordered(T)
    BY <2>4 DEF WayInv, Lined
  <2> QED BY <1>3, <1>5, <2>2, <2>3, <2>4, <2>5, <2>6 DEF new
<1>7. \A d \in Clients : /\ Way(c, d)' = Way(c, d) \cup new
                         /\ \A y \in Clients : y # c => Way(y, d)' = Way(y, d)
  BY <1>1, <1>5, <1>6 DEF Way
<1>8. /\ \A d \in Clients : Run(d)' = Run(d) /\ Notes(d)' = Notes(d) /\ (Alive(d)' <=> Alive(d))
      /\ \A r, q : Started(r, q)' <=> Started(r, q)
      /\ \A w : Over(w)' <=> Over(w)
  BY <1>1 DEF Run, Notes, Alive, Started, Over
<1>9. \A d \in Clients : Tried(d)' = Tried(d)
  BY <1>1, <1>2, <1>8, NoteParts DEF Tried
<1>10. Counted'
  <2> DEFINE Of(d) == {g \in sent : g.from = d /\ g.kind # "init"}
             After1(d) == {g \in sent' : g.from = d /\ g.kind # "init"}
  <2>1. IsFiniteSet(sent) /\ IsFiniteSet(sent')
    <3>1. PICK i : i = InitFrame(c)
      OBVIOUS
    <3>2. IsFiniteSet(sent)
      BY DEF WayInv, Counted
    <3>3. IsFiniteSet(sent \cup {i})
      BY <3>2, FS_AddElement
    <3>4. IsFiniteSet((sent \cup {i}) \cup {f}) /\ IsFiniteSet(sent \cup {f})
      BY <3>2, <3>3, FS_AddElement
    <3>5. sent' = (sent \cup {i}) \cup {f} \/ sent' = sent \cup {f}
      BY <1>1, <1>3, <3>1
    <3> QED BY <3>2, <3>4, <3>5
  <2>2. \A d \in Clients : d # c => After1(d) = Of(d)
    BY <1>1, <1>3
  <2>3. After1(c) = Of(c) \cup {f} /\ f \notin Of(c)
    BY <1>1, <1>3, <1>4
  <2>4. IsFiniteSet(Of(c)) /\ IsFiniteSet(After1(c))
    BY <2>1, FS_Subset
  <2>5. \A d : Texts(d) = Cardinality(Of(d)) /\ Texts(d)' = Cardinality(After1(d))
    BY DEF Texts
  <2> HIDE DEF Of, After1
  <2>6. Texts(c)' = Texts(c) + 1 /\ Texts(c) \in Nat
    BY <2>3, <2>4, <2>5, FS_AddElement, FS_CardinalityType
  <2>7. \A d \in Clients : d # c => Texts(d)' = Texts(d)
    BY <2>2, <2>5
  <2>8. ASSUME NEW g \in sent', g.kind # "init" PROVE g.id \in Nat /\ g.id <= Texts(g.from)'
    <3>1. CASE g \in sent
      <4>1. g.id \in Nat /\ g.id <= Texts(g.from) /\ g.from \in Clients
        BY <2>8, <3>1 DEF WayInv, Counted, ChatInv, Written
      <4> QED BY <2>6, <2>7, <4>1
    <3>2. CASE g \notin sent
      <4>1. g = f
        BY <1>1, <1>3, <1>4, <2>8, <3>2
      <4> QED BY <1>3, <2>6, <4>1
    <3> QED BY <3>1, <3>2
  <2> QED BY <2>1, <2>8 DEF Counted
<1>11. Aiming'
  <2> SUFFICES ASSUME NEW g \in sent', g.kind = "init"
               PROVE  /\ g.key = KeyOf(g.from, g.life)
                      /\ g.aim.of \in Clients /\ g.aim.of # g.from
                      /\ g.aim.life \in Nat /\ g.aim.life <= life'[g.aim.of]
    BY DEF Aiming
  <2>1. CASE g \in sent
    BY <1>1, <2>1 DEF WayInv, Aiming
  <2>2. CASE g \notin sent
    <3>1. g = InitFrame(c) /\ Starts(c)
      BY <1>1, <1>3, <2>2
    <3>2. Target[c] \in Targets /\ Target[c] \in Clients /\ Target[c] # c
      BY <3>1, ChatAssumption DEF Starts, Targets
    <3>3. files[Target[c]] \in Nat /\ files[Target[c]] <= life[Target[c]]
      BY <1>2, <3>2 DEF ChatTypeOK
    <3>4. /\ g.key = Own(c) /\ g.from = c /\ g.life = life[c] /\ g.aim = Theirs(c)
      BY <3>1 DEF InitFrame
    <3>5. g.aim.of = Target[c] /\ g.aim.life = files[Target[c]]
      BY <3>4 DEF Theirs, KeyOf
    <3> QED BY <1>1, <3>2, <3>3, <3>4, <3>5 DEF Own
  <2> QED BY <2>1, <2>2
<1>12. Noting'
  BY <1>8 DEF WayInv, Noting
<1>13. Placed'
  BY <1>1, <1>3, <1>7, <1>8 DEF WayInv, Placed
<1>14. Lined'
  <2> SUFFICES ASSUME NEW y \in Clients, NEW d \in Clients
               PROVE  /\ Ordered(up'[y]) /\ Ordered(chan'[y][d])
                      /\ \A g \in ToSet(chan'[y][d]) : \A e \in ToSet(up'[y]) : Before(g, e)
                      /\ \A g \in Tried(d)' : \A e \in Way(y, d)' : Before(g, e)
    BY DEF Lined
  <2>1. chan[y][d] \in Seq(sent)
    BY <1>2 DEF ChatTypeOK
  <2>2. ToSet(chan[y][d]) \subseteq sent
    BY <2>1, InSequence
  <2>3. \A g \in ToSet(chan'[y][d]) : \A e \in ToSet(up'[y]) : Before(g, e)
    BY <1>1, <1>3, <1>5, <1>6, <2>2 DEF WayInv, Lined
  <2>4. Tried(d) \subseteq sent
    BY DEF Tried
  <2>5. \A g \in Tried(d)' : \A e \in Way(y, d)' : Before(g, e)
    BY <1>3, <1>7, <1>9, <2>4 DEF WayInv, Lined
  <2>6. Ordered(up'[y]) /\ Ordered(chan'[y][d])
    BY <1>1, <1>5, <1>6 DEF WayInv, Lined
  <2> QED BY <2>3, <2>5, <2>6
<1>15. ASSUME NEW d \in Clients PROVE Silent(d)'
  <2>1. CASE d # c
    BY <1>1, <1>3, <1>5, <1>8, <2>1 DEF WayInv, Silent, Run, Writer
  <2>2. CASE d = c
    <3> SUFFICES ASSUME Then(c) = None
                 PROVE  /\ \A g \in sent' : Writer(g) = Run(c) => g.kind = "clear"
                        /\ \A e \in Notes(c) : e.life # life[c]
      BY <1>1, <1>5, <1>8, <2>2 DEF Silent
    <3>1. Text(c).kind # "sealed" /\ SessionFor(c) = None
      BY <1>1, TextWritten DEF Then
    <3>2. ~ Starts(c) /\ session[c] = None
      BY <1>1, <3>1, StartedAs DEF SessionFor
    <3> QED BY <1>1, <1>3, <3>1, <3>2 DEF WayInv, Silent, Alive, f
  <2> QED BY <2>1, <2>2
<1>16. ASSUME NEW h \in sent, NEW W, NEW T, Known(W, T, h),
              NEW V, W \subseteq V, V \subseteq W \cup new
       PROVE  Known(V, T, h)'
  <2>1. Over(Writer(h)) => Writer(h) # Run(c)
    BY <1>1 DEF Over, Run, Alive
  <2>2. Over(Writer(h)) => \A g \in new : Before(g, h)
    BY <1>3, <2>1 DEF Before
  <2>3. Writer(h)' = Writer(h)
    BY DEF Writer
  <2> QED BY <1>8, <1>16, <2>2, <2>3 DEF Known
<1>17. ASSUME NEW y \in Clients, NEW d \in Clients, NEW h \in sent', y # d, Alive(d), h.from = y,
              h.kind = "sealed", Tuned(y, d, Writer(h))'
       PROVE  Known(Way(y, d), Tried(d), h)'
  <2>1. CASE h \notin sent
    <3>1. h \in new /\ y = c
      BY <1>1, <1>3, <1>17, <2>1
    <3> QED BY <1>7, <3>1 DEF Known
  <2>2. CASE h \in sent
    <3>1. Tuned(y, d, Writer(h))
      <4>1. CASE y # c
        BY <1>7, <1>8, <1>17, <4>1 DEF Tuned
      <4>2. CASE y = c
        <5>1. ~ \E i \in new : i.kind = "init" /\ Writer(i) = Writer(h)
          BY <1>3, <1>17, <2>2
        <5> QED BY <1>7, <1>8, <1>17, <4>2, <5>1 DEF Tuned
      <4> QED BY <4>1, <4>2
    <3>2. Known(Way(y, d), Tried(d), h)
      BY <1>17, <2>2, <3>1 DEF WayInv, Delivered
    <3>3. PICK W : W = Way(y, d)
      OBVIOUS
    <3>4. PICK T : T = Tried(d)
      OBVIOUS
    <3>5. PICK V : V = Way(y, d)'
      OBVIOUS
    <3>6. W \subseteq V /\ V \subseteq W \cup new
      BY <1>7, <3>3, <3>5
    <3>7. Known(V, T, h)'
      BY <1>16, <2>2, <3>2, <3>3, <3>4, <3>6
    <3> QED BY <1>9, <3>4, <3>5, <3>7 DEF Known
  <2> QED BY <2>1, <2>2
<1>18. ASSUME NEW y \in Clients, NEW h \in sent', NEW g \in ToSet(up'[y]), h.kind = "sealed",
              g.kind = "init", Writer(g) = Writer(h)
       PROVE  Known(ToSet(up[y]), {}, h)'
  <2>1. CASE h \notin sent
    <3>1. h \in new
      BY <1>1, <2>1
    <3>2. g.from = c
      BY <1>3, <1>18, <3>1 DEF Writer
    <3>3. y = c
      <4>1. g \in Way(y, c)'
        BY DEF Way
      <4> QED BY <1>13, <3>2, <4>1 DEF Placed
    <3> QED BY <1>6, <3>1, <3>3 DEF Known
  <2>2. CASE h \in sent
    <3>1. g \in ToSet(up[y])
      BY <1>3, <1>5, <1>6, <1>18, <2>2
    <3>2. PICK W : W = ToSet(up[y])
      OBVIOUS
    <3>3. PICK T : T = {}
      OBVIOUS
    <3>4. Known(W, T, h)
      BY <1>18, <2>2, <3>1, <3>2, <3>3 DEF WayInv, Delivered
    <3>5. PICK V : V = ToSet(up'[y])
      OBVIOUS
    <3>6. W \subseteq V /\ V \subseteq W \cup new
      BY <1>5, <1>6, <3>2, <3>5
    <3>7. Known(V, T, h)'
      BY <1>16, <2>2, <3>4, <3>6
    <3> QED BY <3>3, <3>5, <3>7 DEF Known
  <2> QED BY <2>1, <2>2
<1>19. Delivered'
  BY <1>8, <1>17, <1>18 DEF Delivered
<1> QED BY <1>10, <1>11, <1>12, <1>13, <1>14, <1>15, <1>19 DEF WayInv

\* What reading a frame changes.
LEMMA ReadParts ==
    ASSUME ChatInv, WayInv, NEW c \in Clients, NEW x \in Clients, Read(c, x)
    PROVE  LET m == Head(chan[x][c])
               responds == session[c] = None /\ m.kind = "init"
               opens == session[c] # None /\ m.kind = "sealed"
               d == Decrypt(session[c], m)
           IN  /\ m \in sent /\ m.from = x /\ x # c /\ m \in Way(x, c) /\ phase[c] = "chat"
               /\ session' = [session EXCEPT ![c] = session'[c]]
               /\ \A y \in Clients : y # c => session'[y] = session[y]
               /\ responds => session'[c] = InitBob(Secret(m.key, Own(c)), Own(c))
               /\ opens => session'[c] = d.state
               /\ ~ responds /\ ~ opens => session'[c] = session[c]
               /\ \A y \in Clients : \A e : e \in Notes(y)' <=>
                     \/ e \in Notes(y)
                     \/ /\ y = c /\ (responds \/ opens)
                        /\ e = [life |-> life[c], m |-> m,
                                how |-> IF responds THEN "session"
                                        ELSE IF d.key = m.key THEN "opened" ELSE "failed"]
               /\ UNCHANGED <<phase, life, served, up, sent>>
               /\ chan' = [chan EXCEPT ![x][c] = Tail(@)] /\ chan[x][c] # <<>>
<1> DEFINE m == Head(chan[x][c])
           responds == session[c] = None /\ m.kind = "init"
           opens == session[c] # None /\ m.kind = "sealed"
           d == Decrypt(session[c], m)
           r == TryDecrypt(c, m)
           e == [life |-> life[c], m |-> m, how |-> r.how]
<1>1. /\ phase[c] = "chat" /\ chan[x][c] # <<>>
      /\ session' = [session EXCEPT ![c] = r.session]
      /\ seen' = IF r.how \in Hows THEN [seen EXCEPT ![c] = Append(@, e)] ELSE seen
      /\ chan' = [chan EXCEPT ![x][c] = Tail(@)]
      /\ UNCHANGED <<phase, life, files, served, up, sent>>
  BY DEF Read
<1>2. ChatTypeOK /\ chan[x][c] \in Seq(sent) /\ seen[c] \in Seq(Note(sent)) /\ life[c] \in Nat
  BY DEF ChatInv, ChatTypeOK, Note
<1>3. /\ m \in sent /\ m \in Way(x, c) /\ x # c /\ m.from = x
  <2>1. m \in sent /\ m \in ToSet(chan[x][c])
    BY <1>1, <1>2, FirstOff
  <2>2. m \in Way(x, c)
    BY <2>1 DEF Way
  <2> QED BY <1>1, <2>1, <2>2 DEF WayInv, Placed
<1>4. /\ responds => /\ r.session = InitBob(Secret(m.key, Own(c)), Own(c)) /\ r.how = "session"
      /\ opens => r.session = d.state /\ r.how = IF d.key = m.key THEN "opened" ELSE "failed"
      /\ ~ responds /\ ~ opens => r.session = session[c] /\ r.how \notin Hows
  BY DEF TryDecrypt, Respond, Open, Hows
<1> HIDE DEF m, r, d
<1>5. /\ session'[c] = r.session
      /\ \A y \in Clients : y # c => session'[y] = session[y] /\ seen'[y] = seen[y]
      /\ seen'[c] = IF r.how \in Hows THEN Append(seen[c], e) ELSE seen[c]
  BY <1>1, <1>2 DEF ChatTypeOK
<1>6. responds \/ opens <=> r.how \in Hows
  BY <1>4 DEF Hows
<1>7. r.how \in Hows => e \in Note(sent)
  BY <1>2, <1>3 DEF Note
<1> HIDE DEF e
<1>8. r.how \in Hows => ToSet(Append(seen[c], e)) = ToSet(seen[c]) \cup {e}
  BY <1>2, <1>7, OneMore
<1>9. \A y \in Clients : Notes(y)' = IF y = c /\ r.how \in Hows THEN Notes(y) \cup {e} ELSE Notes(y)
  BY <1>5, <1>8 DEF Notes
<1>10. responds \/ opens =>
          e = [life |-> life[c], m |-> m, how |-> IF responds THEN "session"
                                        ELSE IF d.key = m.key THEN "opened" ELSE "failed"]
  BY <1>4 DEF e
<1> DEFINE n == [life |-> life[c], m |-> m,
                 how |-> IF responds THEN "session"
                         ELSE IF d.key = m.key THEN "opened" ELSE "failed"]
<1>11. responds \/ opens => e = n
  BY <1>10
<1> HIDE DEF n, responds, opens
<1>12. \A y \in Clients : \A g : g \in Notes(y)' <=>
           g \in Notes(y) \/ (y = c /\ (responds \/ opens) /\ g = n)
  BY <1>6, <1>9, <1>11
<1>13. /\ responds => session'[c] = InitBob(Secret(m.key, Own(c)), Own(c))
       /\ opens => session'[c] = d.state
       /\ ~ responds /\ ~ opens => session'[c] = session[c]
  BY <1>4, <1>5
<1>14. session' = [session EXCEPT ![c] = session'[c]]
  BY <1>1, <1>5
<1> QED BY <1>1, <1>3, <1>5, <1>12, <1>13, <1>14 DEF m, d, n, responds, opens

LEMMA ByNotesThen ==
    ASSUME ChatTypeOK', NEW c \in Clients, NEW l, NEW r
    PROVE  /\ Started(r, <<c, l>>)' <=> \E e \in Notes(c)' :
                 /\ e.life = l /\ e.how = "session" /\ Writer(e.m) = r /\ e.m.aim = KeyOf(c, l)
           /\ Crossed(<<c, l>>, r)' <=> \E e \in Notes(c)' :
                 /\ e.life = l /\ e.how \in {"opened", "failed"} /\ Writer(e.m) # r
<1>1. seen'[c] \in Seq(Note(sent'))
  BY DEF ChatTypeOK, Note
<1>2. \A e : e \in Notes(c)' <=> \E i \in 1 .. Len(seen'[c]) : e = seen'[c][i]
  BY <1>1, InSequence DEF Notes
<1>3. <<c, l>>[1] = c /\ <<c, l>>[2] = l
  OBVIOUS
<1> QED BY <1>2, <1>3 DEF Started, Crossed

LEMMA ReadNotes ==
    ASSUME ChatInv, WayInv, NEW c \in Clients, NEW x \in Clients, Read(c, x)
    PROVE  LET m == Head(chan[x][c])
               responds == session[c] = None /\ m.kind = "init"
               opens == session[c] # None /\ m.kind = "sealed"
           IN  /\ \A y \in Clients : Run(y)' = Run(y) /\ (Alive(y)' <=> Alive(y))
               /\ Tried(c)' = IF opens THEN Tried(c) \cup {m} ELSE Tried(c)
               /\ \A y \in Clients : y # c => Tried(y)' = Tried(y)
               /\ \A y \in Clients : \A l, r :
                     /\ Started(r, <<y, l>>)' <=>
                           \/ Started(r, <<y, l>>)
                           \/ responds /\ <<y, l>> = Run(c) /\ r = Writer(m) /\ m.aim = Own(c)
                     /\ Crossed(<<y, l>>, r)' <=>
                           \/ Crossed(<<y, l>>, r)
                           \/ opens /\ <<y, l>> = Run(c) /\ Writer(m) # r
<1> DEFINE m == Head(chan[x][c])
           responds == session[c] = None /\ m.kind = "init"
           opens == session[c] # None /\ m.kind = "sealed"
           d == Decrypt(session[c], m)
           how == IF responds THEN "session" ELSE IF d.key = m.key THEN "opened" ELSE "failed"
           n == [life |-> life[c], m |-> m, how |-> how]
<1>1. /\ m \in sent /\ UNCHANGED <<phase, life, sent>>
      /\ \A y \in Clients : \A e : e \in Notes(y)' <=>
                     \/ e \in Notes(y)
                     \/ y = c /\ (responds \/ opens) /\ e = n
  BY ReadParts
<1>2. /\ responds => how = "session" /\ ~ opens
      /\ opens => how \in {"opened", "failed"} /\ how # "session" /\ ~ responds
  OBVIOUS
<1>3. n.life = life[c] /\ n.m = m /\ n.how = how
  OBVIOUS
<1>4. ChatTypeOK /\ ChatTypeOK'
  BY ReadInv DEF ChatInv
<1> HIDE DEF n, how, responds, opens, m
<1>5. \A y \in Clients : Run(y)' = Run(y) /\ (Alive(y)' <=> Alive(y))
  BY <1>1 DEF Run, Alive
<1>6. Tried(c)' = IF opens THEN Tried(c) \cup {m} ELSE Tried(c)
  BY <1>1, <1>2, <1>3 DEF Tried
<1>7. \A y \in Clients : y # c => Tried(y)' = Tried(y)
  BY <1>1 DEF Tried
<1>8. ASSUME NEW y \in Clients, NEW l, NEW r
      PROVE  Started(r, <<y, l>>)' <=>
                           \/ Started(r, <<y, l>>)
                           \/ responds /\ <<y, l>> = Run(c) /\ r = Writer(m) /\ m.aim = Own(c)
  <2>1. Started(r, <<y, l>>) <=> \E e \in Notes(y) :
                 /\ e.life = l /\ e.how = "session" /\ Writer(e.m) = r /\ e.m.aim = KeyOf(y, l)
    BY <1>4, ByNotes
  <2>2. Started(r, <<y, l>>)' <=> \E e \in Notes(y)' :
                 /\ e.life = l /\ e.how = "session" /\ Writer(e.m) = r /\ e.m.aim = KeyOf(y, l)
    BY <1>4, ByNotesThen
  <2>3. <<y, l>> = Run(c) <=> y = c /\ l = life[c]
    BY DEF Run
  <2> QED BY <1>1, <1>2, <1>3, <2>1, <2>2, <2>3 DEF Own
<1>9. ASSUME NEW y \in Clients, NEW l, NEW r
      PROVE  Crossed(<<y, l>>, r)' <=>
                           \/ Crossed(<<y, l>>, r)
                           \/ opens /\ <<y, l>> = Run(c) /\ Writer(m) # r
  <2>1. Crossed(<<y, l>>, r) <=> \E e \in Notes(y) :
                 /\ e.life = l /\ e.how \in {"opened", "failed"} /\ Writer(e.m) # r
    BY <1>4, ByNotes
  <2>2. Crossed(<<y, l>>, r)' <=> \E e \in Notes(y)' :
                 /\ e.life = l /\ e.how \in {"opened", "failed"} /\ Writer(e.m) # r
    BY <1>4, ByNotesThen
  <2>3. <<y, l>> = Run(c) <=> y = c /\ l = life[c]
    BY DEF Run
  <2> QED BY <1>1, <1>2, <1>3, <2>1, <2>2, <2>3
<1> QED BY <1>5, <1>6, <1>7, <1>8, <1>9 DEF responds, opens, m

\* What the first frame of a session makes is a session, and what a text leaves is one.
LEMMA RespondsAs ==
    ASSUME NEW k \in Key, NEW own \in Key
    PROVE  LET t == InitBob(Secret(k, own), own)
           IN  /\ t \in States(Key) /\ t # None /\ t.self = own /\ t.remote = None
               /\ t.root = Secret(k, own) /\ Secret(k, own) \in Seq(SUBSET Key)
               /\ t.send = None /\ t.recv = None /\ t.skipped = {} /\ t.nsend = 0 /\ t.prev = 0
               /\ t.nrecv = 0
<1> DEFINE first == Secret(k, own)
           t == InitBob(first, own)
<1>1. first \in Seq(SUBSET Key)
  <2>1. {k} \in SUBSET Key /\ {own} \in SUBSET Key
    OBVIOUS
  <2> QED BY <2>1 DEF Secret
<1> HIDE DEF first
<1>2. /\ t \in States(Key) /\ t.self = own /\ t.remote = None /\ t.root = first
      /\ t.send = None /\ t.recv = None /\ t.skipped = {} /\ t.nsend = 0 /\ t.prev = 0
      /\ t.nrecv = 0
  BY <1>1 DEF InitBob, States
<1>3. t # None
  BY <1>2, StateParts
<1> QED BY <1>1, <1>2, <1>3 DEF first

LEMMA StillThere ==
    ASSUME ChatInv, WayInv, NEW c \in Clients, NEW x \in Clients, Read(c, x)
    PROVE  LET m == Head(chan[x][c])
               responds == session[c] = None /\ m.kind = "init"
           IN  /\ session'[c] = None <=> session[c] = None /\ ~ responds
               /\ responds => m.key \in Key /\ Own(c) \in Key
<1> DEFINE m == Head(chan[x][c])
           responds == session[c] = None /\ m.kind = "init"
           opens == session[c] # None /\ m.kind = "sealed"
           s == session[c]
<1>1. /\ m \in sent
      /\ responds => session'[c] = InitBob(Secret(m.key, Own(c)), Own(c))
      /\ opens => session'[c] = Decrypt(s, m).state
      /\ ~ responds /\ ~ opens => session'[c] = s
  BY ReadParts
<1> HIDE DEF m
<1>2. Written(m) /\ Holds(c, s) /\ life[c] \in Nat
  BY <1>1 DEF ChatInv, ChatTypeOK
<1>3. Own(c) \in Key
  BY <1>2, KeyOfType DEF Own
<1>4. responds => m.key \in Key
  BY <1>2 DEF Written
<1>5. responds => session'[c] # None
  <2>1. SUFFICES ASSUME responds PROVE session'[c] # None
    OBVIOUS
  <2>2. PICK k \in Key : k = m.key
    BY <1>4, <2>1
  <2>3. PICK own \in Key : own = Own(c)
    BY <1>3
  <2>4. InitBob(Secret(k, own), own) # None
    BY RespondsAs
  <2> QED BY <1>1, <2>1, <2>2, <2>3, <2>4
<1>6. opens => session'[c] # None
  <2>1. SUFFICES ASSUME opens PROVE session'[c] # None
    OBVIOUS
  <2>2. Sound(s) /\ m.dh \in Key /\ m.prev \in Nat /\ m.n \in Nat
    BY <1>2, <2>1 DEF Holds, Written
  <2>3. Sound(Decrypt(s, m).state)
    BY <2>2, DecryptOn
  <2> QED BY <1>1, <2>1, <2>3, StateParts DEF Sound
<1> HIDE DEF s
<1>7. session'[c] = None <=> session[c] = None /\ ~ responds
  BY <1>1, <1>5, <1>6 DEF s
<1> QED BY <1>3, <1>4, <1>7 DEF m

\* A client reads a frame.
LEMMA ReadWay == ASSUME ChatInv, WayInv, NEW c \in Clients, NEW x \in Clients, Read(c, x) PROVE WayInv'
<1> DEFINE m == Head(chan[x][c])
           rest == Tail(chan[x][c])
           responds == session[c] = None /\ m.kind = "init"
           opens == session[c] # None /\ m.kind = "sealed"
           n == [life |-> life[c], m |-> m,
                 how |-> IF responds THEN "session"
                         ELSE IF Decrypt(session[c], m).key = m.key THEN "opened" ELSE "failed"]
<1>1. /\ m \in sent /\ m.from = x /\ x # c /\ m \in Way(x, c) /\ phase[c] = "chat"
      /\ \A y \in Clients : y # c => session'[y] = session[y]
      /\ \A y \in Clients : \A e : e \in Notes(y)' <=>
                     \/ e \in Notes(y)
                     \/ y = c /\ (responds \/ opens) /\ e = n
      /\ UNCHANGED <<phase, life, served, up, sent>>
      /\ chan' = [chan EXCEPT ![x][c] = rest] /\ chan[x][c] # <<>>
  BY ReadParts
<1>2. /\ ChatTypeOK /\ ChatTypeOK' /\ chan \in [Clients -> [Clients -> Seq(sent)]]
  <2>1. ChatTypeOK /\ ChatTypeOK'
    BY ReadInv DEF ChatInv
  <2> QED BY <2>1 DEF ChatTypeOK
<1>3. /\ \A y \in Clients : Run(y)' = Run(y) /\ (Alive(y)' <=> Alive(y))
      /\ Tried(c)' = IF opens THEN Tried(c) \cup {m} ELSE Tried(c)
      /\ \A y \in Clients : y # c => Tried(y)' = Tried(y)
      /\ \A y \in Clients : \A l, r :
                     /\ Started(r, <<y, l>>)' <=>
                           \/ Started(r, <<y, l>>)
                           \/ responds /\ <<y, l>> = Run(c) /\ r = Writer(m) /\ m.aim = Own(c)
  BY ReadNotes
<1>4. session'[c] = None <=> session[c] = None /\ ~ responds
  BY StillThere
<1>5. /\ rest \in Seq(sent) /\ ToSet(chan[x][c]) = {m} \cup ToSet(rest)
      /\ Ordered(rest) /\ \A g \in ToSet(rest) : Before(m, g)
  BY <1>1, <1>2, FirstOff DEF WayInv, Lined
<1>n. n.m = m /\ (n.how = "session" <=> responds)
  OBVIOUS
<1> HIDE DEF m, rest, responds, opens, n
<1>p. /\ \A y \in Clients : \A e \in Notes(y)' :
            e \in Notes(y) \/ (y = c /\ (responds \/ opens) /\ e = n)
      /\ ~ responds /\ ~ opens => Notes(c)' = Notes(c)
      /\ \A y \in Clients : y # c => Notes(y)' = Notes(y)
  BY <1>1
<1>6. \A y, d \in Clients : chan'[y][d] = IF y = x /\ d = c THEN rest ELSE chan[y][d]
  BY <1>1, <1>2
<1>7. /\ Way(x, c) = Way(x, c)' \cup {m}
      /\ \A y, d \in Clients : ~ (y = x /\ d = c) => Way(y, d)' = Way(y, d)
      /\ \A g \in Way(x, c)' : Before(m, g)
  <2>1. \A g \in ToSet(up[x]) : Before(m, g)
    BY <1>5 DEF WayInv, Lined
  <2> QED BY <1>1, <1>5, <1>6, <2>1 DEF Way
<1>8. Counted' /\ Aiming'
  BY <1>1 DEF WayInv, Counted, Texts, Aiming
<1>9. Noting'
  <2> SUFFICES ASSUME NEW y \in Clients, NEW e \in Notes(y)'
               PROVE  e.m.kind = (IF e.how = "session" THEN "init" ELSE "sealed") /\ e.m.from # y
    BY DEF Noting
  <2>1. CASE e \in Notes(y)
    BY <2>1 DEF WayInv, Noting
  <2>2. CASE y = c /\ (responds \/ opens) /\ e = n
    BY <1>1, <1>n, <2>2 DEF responds, opens
  <2> QED BY <1>p, <2>1, <2>2
<1>10. Placed'
  <2>1. \A y, d \in Clients : ~ served[d] \/ ~ Alive(d) \/ y = d => chan'[y][d] = <<>>
    BY <1>1, <1>6 DEF WayInv, Placed
  <2>2. \A y, d \in Clients : Way(y, d)' \subseteq Way(y, d)
    BY <1>7
  <2> QED BY <1>1, <1>3, <2>1, <2>2 DEF WayInv, Placed
<1>11. Lined'
  <2> SUFFICES ASSUME NEW y \in Clients, NEW d \in Clients
               PROVE  /\ Ordered(up'[y]) /\ Ordered(chan'[y][d])
                      /\ \A g \in ToSet(chan'[y][d]) : \A e \in ToSet(up'[y]) : Before(g, e)
                      /\ \A g \in Tried(d)' : \A e \in Way(y, d)' : Before(g, e)
    BY DEF Lined
  <2>1. Ordered(up'[y]) /\ Ordered(chan'[y][d])
    BY <1>1, <1>5, <1>6 DEF WayInv, Lined
  <2>2. \A g \in ToSet(chan'[y][d]) : \A e \in ToSet(up'[y]) : Before(g, e)
    BY <1>1, <1>5, <1>6 DEF WayInv, Lined
  <2>3. ASSUME NEW g \in Tried(d)', NEW e \in Way(y, d)' PROVE Before(g, e)
    <3>1. e \in Way(y, d)
      BY <1>7
    <3>2. CASE g \in Tried(d)
      BY <3>1, <3>2 DEF WayInv, Lined
    <3>3. CASE d = c /\ g = m /\ y = x
      BY <1>7, <3>3
    <3>4. CASE d = c /\ g = m /\ y # x
      <4>1. e.from = y
        BY <3>1 DEF WayInv, Placed
      <4>2. Writer(g) # Writer(e)
        BY <1>1, <3>4, <4>1 DEF Writer
      <4> QED BY <4>2 DEF Before
    <3> QED BY <1>3, <3>2, <3>3, <3>4
  <2> QED BY <2>1, <2>2, <2>3
<1>12. ASSUME NEW d \in Clients PROVE Silent(d)'
  <2>1. d # c => Notes(d)' = Notes(d) /\ session'[d] = session[d]
    BY <1>1, <1>p
  <2>2. session'[c] = None => session[c] = None /\ Notes(c)' = Notes(c)
    BY <1>4, <1>p DEF opens
  <2> QED BY <1>1, <1>3, <2>1, <2>2 DEF WayInv, Silent
<1>13. ASSUME NEW y \in Clients, NEW d \in Clients, NEW h \in sent, y # d, Alive(d), h.from = y,
              h.kind = "sealed", Tuned(y, d, Writer(h))'
       PROVE  Known(Way(y, d), Tried(d), h)'
  <2>1. /\ Started(Writer(h), Run(d))' => \/ Started(Writer(h), Run(d))
                                          \/ d = c /\ responds /\ Writer(h) = Writer(m)
        /\ Started(Run(d), Writer(h))' => \/ Started(Run(d), Writer(h))
                                          \/ Writer(h) = Run(c) /\ responds
    BY <1>3, <1>13 DEF Run, Writer
  <2>2. Tuned(y, d, Writer(h))
    <3>1. responds /\ Writer(h) = Writer(m) => y = x
      BY <1>1, <1>13 DEF Writer
    <3>2. ~ (responds /\ Writer(h) = Run(c))
      BY <1>1, <1>13 DEF WayInv, Silent, Alive, responds
    <3>3. Way(y, d)' \subseteq Way(y, d)
      BY <1>7
    <3>4. d = c /\ responds /\ Writer(h) = Writer(m) =>
             m \in Way(y, d) /\ m.kind = "init" /\ Writer(m) = Writer(h)
      BY <1>1, <3>1 DEF responds
    <3>5. CASE \E f \in Way(y, d)' : f.kind = "init" /\ Writer(f) = Writer(h)
      BY <3>3, <3>5 DEF Tuned
    <3>6. CASE Started(Writer(h), Run(d))'
      BY <2>1, <3>4, <3>6 DEF Tuned
    <3>7. CASE Started(Run(d), Writer(h))'
      BY <2>1, <3>2, <3>7 DEF Tuned
    <3> QED BY <1>13, <3>5, <3>6, <3>7 DEF Tuned, Writer
  <2>3. Known(Way(y, d), Tried(d), h)
    BY <1>13, <2>2 DEF WayInv, Delivered
  <2>4. ~ (h = m /\ d = c /\ ~ opens)
    <3> SUFFICES ASSUME h = m, d = c, ~ opens PROVE FALSE
      OBVIOUS
    <3>1. session[c] = None /\ ~ responds /\ y = x
      BY <1>1, <1>13 DEF opens, responds
    <3>2. ~ Started(Writer(h), Run(c)) /\ ~ Started(Run(c), Writer(h))
      BY <1>2, <1>13, <3>1, NotYet DEF Writer, WayInv
    <3>3. ~ Started(Writer(h), Run(c))' /\ ~ Started(Run(c), Writer(h))'
      BY <2>1, <3>1, <3>2
    <3>4. \A f \in Way(y, d)' : ~ (f.kind = "init" /\ Writer(f) = Writer(h))
      BY <1>7, <1>13, <3>1 DEF Before
    <3> QED BY <1>13, <3>3, <3>4 DEF Tuned, Writer
  <2>5. PICK W : W = Way(y, d)
    OBVIOUS
  <2>6. PICK V : V = Way(y, d)'
    OBVIOUS
  <2>7. PICK T : T = Tried(d)
    OBVIOUS
  <2>8. PICK U : U = Tried(d)'
    OBVIOUS
  <2>9. V \subseteq W /\ T \subseteq U /\ (h \in W => h \in V \cup U) /\ Known(W, T, h)
    BY <1>3, <1>7, <2>3, <2>4, <2>5, <2>6, <2>7, <2>8
  <2>10. Known(V, U, h)'
    BY <1>1, <1>2, <1>3, <2>9, KnownStays
  <2> QED BY <2>6, <2>8, <2>10 DEF Known
<1>14. ASSUME NEW h \in sent, NEW W, NEW T, Known(W, T, h) PROVE Known(W, T, h)'
  <2>1. \A w : Over(w)' <=> Over(w)
    BY <1>1 DEF Over, Alive
  <2> QED BY <1>14, <2>1 DEF Known, Writer
<1>15. ASSUME NEW y \in Clients, NEW h \in sent, NEW f \in ToSet(up[y]), h.kind = "sealed",
              f.kind = "init", Writer(f) = Writer(h)
       PROVE  Known(ToSet(up[y]), {}, h)'
  <2>1. PICK W : W = ToSet(up[y])
    OBVIOUS
  <2>2. PICK T : T = {}
    OBVIOUS
  <2>3. Known(W, T, h)
    BY <1>15, <2>1, <2>2 DEF WayInv, Delivered
  <2>4. Known(W, T, h)'
    BY <1>14, <2>3
  <2> QED BY <1>1, <2>1, <2>2, <2>4 DEF Known
<1>16. Delivered'
  BY <1>1, <1>3, <1>13, <1>15 DEF Delivered
<1> QED BY <1>8, <1>9, <1>10, <1>11, <1>12, <1>16 DEF WayInv

\* At first there is nothing on its way.
LEMMA InitWay == ChatInit => WayInv
<1> SUFFICES ASSUME ChatInit PROVE WayInv
  OBVIOUS
<1>1. /\ sent = {} /\ \A c \in Clients : /\ ~ Alive(c) /\ up[c] = <<>> /\ seen[c] = <<>>
                                         /\ \A x \in Clients : chan[x][c] = <<>>
  BY DEF ChatInit, Alive
<1>2. ToSet(<<>>) = {} /\ Ordered(<<>>)
  BY DEF ToSet, Ordered
<1>3. \A c \in Clients : Notes(c) = {} /\ Tried(c) = {} /\ \A x \in Clients : Way(x, c) = {}
  BY <1>1, <1>2 DEF Notes, Tried, Way
<1>4. Counted
  BY <1>1, FS_EmptySet DEF Counted
<1> QED BY <1>1, <1>2, <1>3, <1>4 DEF WayInv, Aiming, Noting, Placed, Lined, Delivered, Silent

LEMMA NextWay == ASSUME ChatInv, WayInv, [ChatNext]_chatVars PROVE WayInv'
<1>1. ASSUME NEW c \in Clients, Connect(c) PROVE WayInv'
  BY <1>1, ConnectWay
<1>2. ASSUME NEW c \in Clients, Serve(c) \/ Enter(c) \/ Dismiss(c) PROVE WayInv'
  BY <1>2, QuietWay
<1>3. ASSUME NEW c \in Clients, Leave(c) PROVE WayInv'
  BY <1>3, LeaveWay
<1>4. ASSUME NEW c \in Clients, Route(c) PROVE WayInv'
  BY <1>4, RouteWay
<1>5. ASSUME NEW c \in Clients, Write(c) PROVE WayInv'
  BY <1>5, WriteWay
<1>6. ASSUME NEW c \in Clients, NEW x \in Clients, Read(c, x) PROVE WayInv'
  BY <1>6, ReadWay
<1>7. CASE UNCHANGED chatVars
  <2>1. /\ UNCHANGED <<life, session, up, chan, sent, seen, served>>
        /\ \A d \in Clients : Alive(d)' <=> Alive(d)
    BY <1>7 DEF chatVars, net, Alive
  <2>2. \A f \in sent : f.from \in Clients
    BY DEF ChatInv, Written
  <2>3. Placed'
    BY <2>1 DEF Placed, WayInv, Way
  <2>4. Counted' /\ Aiming' /\ Noting' /\ Lined' /\ Delivered' /\ \A d \in Clients : Silent(d)'
    BY <2>1, <2>2, WayApart
  <2> QED BY <2>3, <2>4 DEF WayInv
<1> QED BY <1>1, <1>2, <1>3, <1>4, <1>5, <1>6, <1>7 DEF ChatNext
-----------------------------------------------------------------------------
(* Two runs that have to do with each other alone. *)

\* Run w has started a session with run r.
Aimed(w, r) == \E f \in sent : f.kind = "init" /\ Writer(f) = w /\ f.aim = KeyOf(r[1], r[2])

\* The session of c, or the one that it is going to have with run w.
View(c, w) == IF session[c] # None THEN session[c]
              ELSE InitBob(Secret(KeyOf(w[1], w[2]), Own(c)), Own(c))
Toward(c, w) == IF session[c] = None THEN Aimed(w, Run(c))
                ELSE Started(w, Run(c)) \/ Started(Run(c), w)
Alone(r, w) == ~ Crossed(r, w) /\ ~ Crossed(w, r)

\* c expects what run l of x has sealed, and x, if that run lasts, seals what c expects.
Met(c, x, l) ==
    LET t == View(c, <<x, l>>)
        F == Unread(c, <<x, l>>)
    IN  /\ Ready(t, F)
        /\ l = life[x] /\ session[x] # None => Sends(session[x], t, F)

\* Runs that have to do with each other alone understand each other.
Understood == \A c, x \in Clients : \A l \in Nat :
    c # x /\ Alive(c) /\ Toward(c, <<x, l>>) /\ Alone(Run(c), <<x, l>>) => Met(c, x, l)

\* Where nothing of it changes the two still do.
LEMMA StillMet ==
    ASSUME Understood, NEW c \in Clients, NEW x \in Clients, NEW l \in Nat, c # x, Alive(c),
           Toward(c, <<x, l>>), Alone(Run(c), <<x, l>>),
           View(c, <<x, l>>)' = View(c, <<x, l>>), Unread(c, <<x, l>>)' = Unread(c, <<x, l>>),
           l = life'[x] /\ session'[x] # None => l = life[x] /\ session'[x] = session[x]
    PROVE  Met(c, x, l)'
<1> DEFINE t == View(c, <<x, l>>)
           F == Unread(c, <<x, l>>)
<1>1. /\ Ready(t, F)
      /\ l = life[x] /\ session[x] # None => Sends(session[x], t, F)
  BY DEF Understood, Met
<1>2. PICK u : u = t
  OBVIOUS
<1>3. PICK G : G = F
  OBVIOUS
<1>4. t' = u /\ F' = G
  BY <1>2, <1>3
<1>5. Met(c, x, l)' <=> /\ Ready(t', F')
                        /\ l = life'[x] /\ session'[x] # None => Sends(session'[x], t', F')
  BY DEF Met
<1> HIDE DEF t, F
<1> QED BY <1>1, <1>2, <1>3, <1>4, <1>5

\* When the sessions, the frames and the notes stay, and who is there.
LEMMA UnderstoodApart ==
    ASSUME Understood, UNCHANGED <<life, session, sent, seen>>,
           \A c \in Clients : Alive(c)' => Alive(c)
    PROVE  Understood'
<1> SUFFICES ASSUME NEW c \in Clients, NEW x \in Clients, NEW l \in Nat, c # x, Alive(c)',
                    Toward(c, <<x, l>>)', Alone(Run(c), <<x, l>>)'
             PROVE  Met(c, x, l)'
  BY DEF Understood
<1>1. /\ Run(c)' = Run(c) /\ Notes(c)' = Notes(c) /\ Own(c)' = Own(c)
      /\ \A r, q : Started(r, q)' <=> Started(r, q)
      /\ \A r, q : Crossed(r, q)' <=> Crossed(r, q)
  BY DEF Run, Notes, Own, Started, Crossed
<1>2. Toward(c, <<x, l>>) /\ Alone(Run(c), <<x, l>>)
  BY <1>1 DEF Toward, Alone, Aimed
<1>3. View(c, <<x, l>>)' = View(c, <<x, l>>) /\ Unread(c, <<x, l>>)' = Unread(c, <<x, l>>)
  BY <1>1 DEF View, Unread, SealedBy, Tried
<1> QED BY <1>2, <1>3, StillMet

\* The texts of a run are texts, each with a key of its own.
LEMMA UnreadParts ==
    ASSUME ChatInv, WayInv, NEW c \in Clients, NEW w
    PROVE  /\ \A f \in Unread(c, w) : f \in sent /\ f.kind = "sealed" /\ Writer(f) = w /\ Texty(f)
           /\ \A f, g \in Unread(c, w) : f.key = g.key => f = g
<1>1. \A f \in sent : Written(f) /\ (f.kind = "sealed" => f.id \in Nat)
  BY DEF ChatInv, WayInv, Counted
<1>2. \A f \in Unread(c, w) : f \in sent /\ f.kind = "sealed" /\ Writer(f) = w
  BY DEF Unread, SealedBy
<1>3. \A f \in Unread(c, w) : Texty(f)
  BY <1>1, <1>2 DEF Written, Texty
<1> QED BY <1>2, <1>3 DEF ChatInv, KeysUnique

\* What a client has of a run is a state, and before it has answered the first one.
LEMMA ViewParts ==
    ASSUME ChatInv, NEW c \in Clients, NEW x \in Clients, NEW l \in Nat
    PROVE  LET t == View(c, <<x, l>>)
           IN  /\ t \in States(Key) /\ t # None
               /\ session[c] # None => t = session[c]
               /\ session[c] = None => /\ t.self = Own(c) /\ t.remote = None /\ t.skipped = {}
                                       /\ t.root = Secret(KeyOf(x, l), Own(c)) /\ t.send = None
                                       /\ t.recv = None /\ t.nsend = 0
<1>1. life[c] \in Nat /\ session[c] \in States(Key) \cup {None}
  BY DEF ChatInv, ChatTypeOK
<1>2. PICK k \in Key : k = KeyOf(x, l)
  BY KeyOfType
<1>3. PICK own \in Key : own = Own(c)
  BY <1>1, KeyOfType DEF Own
<1>4. PICK t : t = InitBob(Secret(k, own), own)
  OBVIOUS
<1>5. /\ t \in States(Key) /\ t # None /\ t.self = own /\ t.remote = None
      /\ t.root = Secret(k, own) /\ t.send = None /\ t.recv = None /\ t.skipped = {}
      /\ t.nsend = 0
  BY <1>4, RespondsAs
<1>6. <<x, l>>[1] = x /\ <<x, l>>[2] = l
  OBVIOUS
<1>7. View(c, <<x, l>>) = IF session[c] # None THEN session[c] ELSE t
  BY <1>2, <1>3, <1>4, <1>6 DEF View
<1>8. session[c] # None => session[c] \in States(Key)
  BY <1>1
<1> QED BY <1>2, <1>3, <1>5, <1>7, <1>8

\* A client connects: with its new keys nobody has to do yet.
LEMMA ConnectMeets ==
    ASSUME ChatInv, WayInv, Understood, NEW c \in Clients, Connect(c)
    PROVE  Understood'
<1> SUFFICES ASSUME NEW d \in Clients, NEW x \in Clients, NEW l \in Nat, d # x, Alive(d)',
                    Toward(d, <<x, l>>)', Alone(Run(d), <<x, l>>)'
             PROVE  Met(d, x, l)'
  BY DEF Understood
<1>1. /\ life[c] \in Nat /\ life'[c] = life[c] + 1 /\ \A y \in Clients : y # c => life'[y] = life[y]
      /\ Run(c)' = <<c, life[c] + 1>> /\ session[c] = None
      /\ \A y \in Clients : y # c => (Alive(y)' <=> Alive(y))
      /\ \A y \in Clients : y # c => Run(y)' = Run(y) /\ Tried(y)' = Tried(y)
      /\ UNCHANGED <<session, sent, seen>>
  BY NewRun
<1>2. \A r, q : (Started(r, q)' <=> Started(r, q)) /\ (Crossed(r, q)' <=> Crossed(r, q))
  BY <1>1 DEF Started, Crossed
<1>3. CASE d = c
  <2>1. Aimed(<<x, l>>, Run(c))'
    BY <1>1, <1>3 DEF Toward
  <2>2. PICK f \in sent : f.kind = "init" /\ f.aim = KeyOf(c, life[c] + 1)
    BY <1>1, <2>1 DEF Aimed
  <2>3. f.aim.of = c /\ f.aim.life = life[c] + 1
    BY <2>2 DEF KeyOf
  <2> QED BY <1>1, <2>2, <2>3 DEF WayInv, Aiming
<1>4. CASE d # c
  <2>1. Alive(d) /\ Own(d)' = Own(d) /\ session'[d] = session[d] /\ Run(d)' = Run(d)
    BY <1>1, <1>4 DEF Own
  <2>2. Toward(d, <<x, l>>) /\ Alone(Run(d), <<x, l>>)
    BY <1>1, <1>2, <2>1 DEF Toward, Alone, Aimed
  <2>3. View(d, <<x, l>>)' = View(d, <<x, l>>) /\ Unread(d, <<x, l>>)' = Unread(d, <<x, l>>)
    BY <1>1, <1>4, <2>1 DEF View, Unread, SealedBy
  <2>4. l = life'[x] /\ session'[x] # None => l = life[x] /\ session'[x] = session[x]
    BY <1>1
  <2> QED BY <2>1, <2>2, <2>3, <2>4, StillMet
<1> QED BY <1>3, <1>4

\* A client leaves.
LEMMA LeaveMeets ==
    ASSUME ChatInv, WayInv, Understood, NEW c \in Clients, Leave(c)
    PROVE  Understood'
<1> SUFFICES ASSUME NEW d \in Clients, NEW x \in Clients, NEW l \in Nat, d # x, Alive(d)',
                    Toward(d, <<x, l>>)', Alone(Run(d), <<x, l>>)'
             PROVE  Met(d, x, l)'
  BY DEF Understood
<1>1. /\ phase' = [phase EXCEPT ![c] = "out"] /\ session' = [session EXCEPT ![c] = None]
      /\ UNCHANGED <<life, sent, seen>>
  BY DEF Leave
<1>2. /\ phase \in [Clients -> {"out", "joining", "chat"}]
      /\ session \in [Clients -> States(Key) \cup {None}]
  BY DEF ChatInv, ChatTypeOK
<1>3. /\ ~ Alive(c)' /\ session'[c] = None
      /\ \A y \in Clients : y # c => (Alive(y)' <=> Alive(y)) /\ session'[y] = session[y]
  BY <1>1, <1>2 DEF Alive
<1>4. /\ d # c /\ Alive(d) /\ session'[d] = session[d]
      /\ Run(d)' = Run(d) /\ Own(d)' = Own(d) /\ Tried(d)' = Tried(d)
      /\ \A r, q : (Started(r, q)' <=> Started(r, q)) /\ (Crossed(r, q)' <=> Crossed(r, q))
  BY <1>1, <1>3 DEF Run, Own, Tried, Notes, Started, Crossed
<1>5. Toward(d, <<x, l>>) /\ Alone(Run(d), <<x, l>>)
  BY <1>1, <1>4 DEF Toward, Alone, Aimed
<1>6. View(d, <<x, l>>)' = View(d, <<x, l>>) /\ Unread(d, <<x, l>>)' = Unread(d, <<x, l>>)
  BY <1>1, <1>4 DEF View, Unread, SealedBy
<1>7. l = life'[x] /\ session'[x] # None => l = life[x] /\ session'[x] = session[x]
  BY <1>1, <1>3
<1> QED BY <1>4, <1>5, <1>6, <1>7, StillMet

\* What a state expects, and what another one seals for it, does not depend on what
\* it seals itself.
LEMMA SealedMeets ==
    ASSUME NEW t \in States(Key), t.send # None, NEW F
    PROVE  /\ Ready(t, F) => Ready(Sealed(t), F)
           /\ \A s : Sends(s, t, F) => Sends(s, Sealed(t), F)
<1> DEFINE u == Sealed(t)
<1>1. /\ u.send # None /\ u.self = t.self /\ u.remote = t.remote /\ u.root = t.root
      /\ u.recv = t.recv /\ u.nrecv = t.nrecv /\ u.skipped = t.skipped
  <2>1. t.send \in ChainKeys(Key) /\ t.nsend \in Nat
    BY StateParts
  <2>2. After(t.send, 1) # None
    BY <2>1, ChainParts
  <2>3. u = [t EXCEPT !.send = After(t.send, 1), !.nsend = t.nsend + 1]
    BY DEF Sealed
  <2>4. PICK n \in Nat : n = t.nsend + 1
    BY <2>1
  <2>5. u = [t EXCEPT !.send = After(t.send, 1), !.nsend = n]
    BY <2>3, <2>4
  <2> HIDE DEF u
  <2> QED BY <2>2, <2>5 DEF States
<1> HIDE DEF u
<1>2. \A f : /\ Present(u, f) <=> Present(t, f)
             /\ Coming(u, f) <=> Coming(t, f)
  BY <1>1 DEF Present, Coming
<1>3. \A s : /\ Leads(s, u) <=> Leads(s, t)
             /\ Leads(u, s) <=> Leads(t, s)
             /\ LeadSent(s, u, F) <=> LeadSent(s, t, F)
             /\ LagSent(s, u, F) <=> LagSent(s, t, F)
  BY <1>1, <1>2 DEF Leads, LeadSent, LagSent
<1>4. Ready(t, F) => Ready(u, F)
  BY <1>1, <1>2 DEF Ready
<1>5. \A s : Sends(s, t, F) => Sends(s, u, F)
  BY <1>3 DEF Sends
<1> QED BY <1>4, <1>5 DEF u

\* What one text changes.
LEMMA WriteParts ==
    ASSUME ChatInv, WayInv, NEW c \in Clients, Write(c)
    PROVE  LET f == Text(c)
           IN  /\ phase[c] = "chat" /\ Alive(c) /\ UNCHANGED <<life, seen>>
               /\ session'[c] = Then(c) /\ \A d \in Clients : d # c => session'[d] = session[d]
               /\ \A d \in Clients : /\ Run(d)' = Run(d) /\ Own(d)' = Own(d)
                                     /\ (Alive(d)' <=> Alive(d)) /\ Tried(d)' = Tried(d)
               /\ \A r, q : (Started(r, q)' <=> Started(r, q)) /\ (Crossed(r, q)' <=> Crossed(r, q))
               /\ \A w, r : Aimed(w, r)' <=>
                     \/ Aimed(w, r)
                     \/ Starts(c) /\ w = Run(c) /\ Theirs(c) = KeyOf(r[1], r[2])
               /\ \A w : SealedBy(w)' = IF w = Run(c) /\ f.kind = "sealed"
                                        THEN SealedBy(w) \cup {f} ELSE SealedBy(w)
               /\ \A d \in Clients : f \notin Tried(d)
               /\ f.kind = "sealed" =>
                     /\ Texty(f) /\ f.dh = SessionFor(c).self /\ f.prev = SessionFor(c).prev
                     /\ f.n = SessionFor(c).nsend /\ f.key = SessionFor(c).send
                     /\ SessionFor(c) # None /\ Sound(SessionFor(c)) /\ SessionFor(c).send # None
                     /\ Then(c) = Sealed(SessionFor(c))
               /\ f.kind # "sealed" => /\ Then(c) = SessionFor(c)
                                       /\ SessionFor(c) = None \/ SessionFor(c).send = None
               /\ \A d \in Clients : \A g \in Unread(d, Run(c)) : g.id < f.id
<1> DEFINE f == Text(c)
           new == ToSet(News(c))
<1>1. /\ phase[c] = "chat" /\ session' = [session EXCEPT ![c] = Then(c)]
      /\ sent' = sent \cup new /\ UNCHANGED <<phase, life, seen>>
  BY DEF Write, Then, News, Text
<1>2. ChatTypeOK /\ session \in [Clients -> States(Key) \cup {None}]
  BY DEF ChatInv, ChatTypeOK
<1>3. /\ f.kind \in {"sealed", "clear"} /\ f.from = c /\ f.id \in Nat /\ f \notin sent
      /\ \A g \in sent : g.from = c /\ g.kind # "init" => g.id < f.id
      /\ new = IF Starts(c) THEN {InitFrame(c), f} ELSE {f}
      /\ \A g \in new : Writer(g) = Run(c)
  BY <1>1, NewsParts
<1>4. /\ \A g \in new : Written(g)
      /\ f.kind = "sealed" =>
            /\ SessionFor(c) # None /\ Sound(SessionFor(c)) /\ SessionFor(c).send # None
  BY <1>1, TextWritten
<1>5. /\ f.kind = "sealed" => /\ f.dh = SessionFor(c).self /\ f.prev = SessionFor(c).prev
                              /\ f.n = SessionFor(c).nsend /\ f.key = SessionFor(c).send
                              /\ Then(c) = Sealed(SessionFor(c))
      /\ f.kind # "sealed" => /\ Then(c) = SessionFor(c)
                              /\ SessionFor(c) = None \/ SessionFor(c).send = None
  BY DEF Text, Encrypted, Then
<1>6. InitFrame(c).kind = "init" /\ InitFrame(c).aim = Theirs(c)
  BY DEF InitFrame
<1> HIDE DEF f, new
<1>7. f.kind = "sealed" => Texty(f)
  <2>1. f \in new
    BY <1>3
  <2> QED BY <1>3, <1>4, <2>1 DEF Written, Texty
<1>8. session'[c] = Then(c) /\ \A d \in Clients : d # c => session'[d] = session[d]
  BY <1>1, <1>2
<1>9. /\ \A d \in Clients : /\ Run(d)' = Run(d) /\ Own(d)' = Own(d) /\ Notes(d)' = Notes(d)
                            /\ (Alive(d)' <=> Alive(d))
      /\ \A r, q : (Started(r, q)' <=> Started(r, q)) /\ (Crossed(r, q)' <=> Crossed(r, q))
      /\ Alive(c)
  BY <1>1 DEF Run, Own, Notes, Alive, Started, Crossed
<1>10. \A d \in Clients : Tried(d)' = Tried(d) /\ f \notin Tried(d)
  BY <1>1, <1>2, <1>3, <1>9, NoteParts DEF Tried
<1>11. ASSUME NEW w, NEW r
       PROVE  Aimed(w, r)' <=> \/ Aimed(w, r)
                               \/ Starts(c) /\ w = Run(c) /\ Theirs(c) = KeyOf(r[1], r[2])
  <2>1. Aimed(w, r)' <=> \E g \in sent' : g.kind = "init" /\ Writer(g) = w /\ g.aim = KeyOf(r[1], r[2])
    BY DEF Aimed
  <2>2. Aimed(w, r) <=> \E g \in sent : g.kind = "init" /\ Writer(g) = w /\ g.aim = KeyOf(r[1], r[2])
    BY DEF Aimed
  <2>3. \A g : g \in new /\ g.kind = "init" <=> Starts(c) /\ g = InitFrame(c)
    BY <1>3, <1>6
  <2>4. Starts(c) => Writer(InitFrame(c)) = Run(c)
    BY <1>3
  <2> QED BY <1>1, <1>6, <2>1, <2>2, <2>3, <2>4
<1>12. ASSUME NEW w
       PROVE  SealedBy(w)' = IF w = Run(c) /\ f.kind = "sealed" THEN SealedBy(w) \cup {f} ELSE SealedBy(w)
  <2>1. \A g : g \in new /\ g.kind = "sealed" <=> f.kind = "sealed" /\ g = f
    BY <1>3, <1>6
  <2>2. Writer(f) = Run(c)
    BY <1>3
  <2> QED BY <1>1, <2>1, <2>2 DEF SealedBy
<1>13. ASSUME NEW d \in Clients, NEW g \in Unread(d, Run(c)) PROVE g.id < f.id
  <2>1. g \in sent /\ g.kind = "sealed" /\ g.from = c
    BY DEF Unread, SealedBy, Writer, Run
  <2> QED BY <1>3, <2>1
<1> QED BY <1>1, <1>4, <1>5, <1>7, <1>8, <1>9, <1>10, <1>11, <1>12, <1>13 DEF f

\* The first text of an initiator, for the one whose keys it has: it is a turn ahead.
LEMMA StartMeets ==
    ASSUME ChatInv, WayInv, NEW c \in Clients, Write(c), Starts(c),
           NEW d \in Clients, session[d] = None, Theirs(c) = Own(d)
    PROVE  LET t == View(d, Run(c))
               s == SessionFor(c)
           IN  \A F : F = {} => Ready(t, F) /\ Sends(s, t, F)
<1> DEFINE t == View(d, Run(c))
           s == SessionFor(c)
<1>1. life[c] \in Nat /\ phase[c] = "chat" /\ None \notin Key
  BY WriteParts, ChatNoneAssumption DEF ChatInv, ChatTypeOK
<1>2. Run(c) = <<c, life[c]>> /\ KeyOf(c, life[c]) = Own(c)
  BY DEF Run, Own
<1>3. /\ t.self = Own(d) /\ t.remote = None /\ t.skipped = {} /\ t.send = None
      /\ t.root = Secret(Own(c), Own(d)) /\ t.recv = None
  BY <1>1, <1>2, ViewParts
<1>4. /\ Own(c) \in Key /\ s.self = Own(c) /\ s.remote = Own(d)
      /\ s.root = Mix(Secret(Own(c), Own(d)), Own(c), Own(d))
      /\ s.send # None /\ s.send.at = 0 /\ s.nsend = 0 /\ s.recv = None /\ s.skipped = {}
      /\ s.prev = 0
  BY <1>1, StartedAs
<1> HIDE DEF s, t
<1>5. Mix(Secret(Own(c), Own(d)), Own(c), Own(d)) = Mix(Secret(Own(c), Own(d)), Own(d), Own(c))
  BY DEF Mix
<1>6. Leads(s, t)
  BY <1>1, <1>3, <1>4, <1>5 DEF Leads
<1>7. ASSUME NEW F, F = {} PROVE Ready(t, F) /\ LeadSent(s, t, F)
  BY <1>3, <1>4, <1>7 DEF Ready, LeadSent
<1> QED BY <1>4, <1>6, <1>7 DEF Sends, s, t

\* A client writes: its text is the last one that the other expects.
LEMMA WriteMeets ==
    ASSUME ChatInv, WayInv, Understood, NEW c \in Clients, Write(c)
    PROVE  Understood'
<1> SUFFICES ASSUME NEW d \in Clients, NEW x \in Clients, NEW l \in Nat, d # x, Alive(d)',
                    Toward(d, <<x, l>>)', Alone(Run(d), <<x, l>>)'
             PROVE  Met(d, x, l)'
  BY DEF Understood
<1> DEFINE f == Text(c)
           w == <<x, l>>
<1>1. /\ phase[c] = "chat" /\ Alive(c) /\ UNCHANGED <<life, seen>>
      /\ session'[c] = Then(c) /\ \A y \in Clients : y # c => session'[y] = session[y]
      /\ \A y \in Clients : /\ Run(y)' = Run(y) /\ Own(y)' = Own(y)
                            /\ (Alive(y)' <=> Alive(y)) /\ Tried(y)' = Tried(y)
      /\ \A r, q : (Started(r, q)' <=> Started(r, q)) /\ (Crossed(r, q)' <=> Crossed(r, q))
      /\ \A y : SealedBy(y)' = IF y = Run(c) /\ f.kind = "sealed"
                               THEN SealedBy(y) \cup {f} ELSE SealedBy(y)
      /\ f \notin Tried(d)
      /\ f.kind = "sealed" =>
            /\ Texty(f) /\ f.dh = SessionFor(c).self /\ f.prev = SessionFor(c).prev
            /\ f.n = SessionFor(c).nsend /\ f.key = SessionFor(c).send
            /\ SessionFor(c) # None /\ Sound(SessionFor(c)) /\ SessionFor(c).send # None
            /\ Then(c) = Sealed(SessionFor(c))
      /\ f.kind # "sealed" => /\ Then(c) = SessionFor(c)
                              /\ SessionFor(c) = None \/ SessionFor(c).send = None
      /\ \A g \in Unread(d, Run(c)) : g.id < f.id
  BY WriteParts
<1>2. \A y, r : Aimed(y, r)' <=> \/ Aimed(y, r)
                                 \/ Starts(c) /\ y = Run(c) /\ Theirs(c) = KeyOf(r[1], r[2])
  BY WriteParts
<1>3. Alive(d) /\ Alone(Run(d), w) /\ life[c] \in Nat /\ session[c] \in States(Key) \cup {None}
  BY <1>1 DEF Alone, ChatInv, ChatTypeOK
<1>4. ~ Starts(c) => SessionFor(c) = session[c]
  BY DEF SessionFor
<1>5. Starts(c) => session[c] = None
  BY DEF Starts
<1>6. Run(c) = <<c, life[c]>> /\ (w = Run(c) <=> x = c /\ l = life[c])
  BY DEF Run
<1> HIDE DEF f
<1>7. CASE d # c /\ w # Run(c)
  <2>1. Toward(d, w) /\ session'[d] = session[d]
    BY <1>1, <1>2, <1>7 DEF Toward
  <2>2. View(d, w)' = View(d, w) /\ Unread(d, w)' = Unread(d, w)
    BY <1>1, <1>7, <2>1 DEF View, Unread
  <2>3. l = life'[x] /\ session'[x] # None => l = life[x] /\ session'[x] = session[x]
    BY <1>1, <1>6, <1>7
  <2> QED BY <1>3, <2>1, <2>2, <2>3, StillMet
<1>8. CASE d = c
  <2>1. w # Run(c) /\ Unread(c, w)' = Unread(c, w) /\ session'[x] = session[x]
    BY <1>1, <1>6, <1>8 DEF Unread
  <2>2. CASE session[c] = None
    <3>1. ~ Started(w, Run(c)) /\ ~ Started(Run(c), w)
      BY <1>1, <2>2, NotYet DEF ChatInv, WayInv
    <3>2. session'[c] = None
      BY <1>1, <1>8, <3>1 DEF Toward
    <3>3. Toward(c, w)
      BY <1>1, <1>2, <1>8, <2>1, <2>2, <3>2 DEF Toward
    <3>4. View(c, w)' = View(c, w)
      BY <1>1, <2>2, <3>2 DEF View
    <3> QED BY <1>1, <1>3, <1>8, <2>1, <3>3, <3>4, StillMet
  <2>3. CASE session[c] # None
    <3>1. SessionFor(c) = session[c] /\ session[c] \in States(Key)
      BY <1>3, <1>4, <1>5, <2>3
    <3>2. /\ session'[c] = session[c] \/ (session[c].send # None /\ session'[c] = Sealed(session[c]))
      BY <1>1, <3>1
    <3>3. session'[c] # None
      <4>1. ASSUME session[c].send # None PROVE Sealed(session[c]) # None
        <5>1. Sound(session[c])
          BY <2>3 DEF ChatInv, Holds
        <5>2. Sealed(session[c]) \in States(Key)
          BY <4>1, <5>1, SealedStep DEF Sound
        <5> QED BY <5>2, StateParts
      <4> QED BY <2>3, <3>2, <4>1
    <3>4. Toward(c, w)
      BY <1>1, <1>8, <2>3, <3>3 DEF Toward
    <3>5. PICK F : F = Unread(c, w)
      OBVIOUS
    <3>6. View(c, w) = session[c] /\ View(c, w)' = session'[c]
      BY <2>3, <3>3 DEF View
    <3>7. /\ Ready(session[c], F)
          /\ l = life[x] /\ session[x] # None => Sends(session[x], session[c], F)
      BY <1>3, <1>8, <3>4, <3>5, <3>6 DEF Understood, Met
    <3>8. /\ Ready(session'[c], F)
          /\ l = life[x] /\ session[x] # None => Sends(session[x], session'[c], F)
      BY <3>1, <3>2, <3>7, SealedMeets
    <3>9. PICK t : t = View(c, w)'
      OBVIOUS
    <3>10. Unread(c, w)' = F
      BY <2>1, <3>5
    <3>11. Met(c, x, l)' <=> /\ Ready(View(c, w)', Unread(c, w)')
                             /\ l = life'[x] /\ session'[x] # None
                                => Sends(session'[x], View(c, w)', Unread(c, w)')
      BY DEF Met
    <3> HIDE DEF w
    <3> QED BY <1>1, <1>8, <2>1, <3>6, <3>8, <3>10, <3>11
  <2> QED BY <2>2, <2>3
<1>9. CASE d # c /\ w = Run(c)
  <2> DEFINE F == Unread(d, w)
             t == View(d, w)
  <2>1. /\ session'[d] = session[d] /\ View(d, w)' = View(d, w)
        /\ Unread(d, w)' = IF f.kind = "sealed" THEN F \cup {f} ELSE F
    BY <1>1, <1>9 DEF View, Unread
  <2>2. t \in States(Key) /\ \A g \in F : Texty(g)
    BY <1>9, ViewParts, UnreadParts
  <2>3. CASE f.kind # "sealed"
    <3>1. session'[c] = session[c] /\ ~ Starts(c)
      <4>1. Starts(c) => SessionFor(c) # None /\ SessionFor(c).send # None
        BY <1>1, StartedAs
      <4> QED BY <1>1, <1>4, <2>3, <4>1
    <3>2. Toward(d, w)
      BY <1>1, <1>2, <1>9, <2>1, <3>1 DEF Toward
    <3> QED BY <1>1, <1>3, <1>6, <1>9, <2>1, <2>3, <3>1, <3>2, StillMet
  <2>4. CASE f.kind = "sealed"
    <3> DEFINE s == SessionFor(c)
    <3>1. /\ s \in States(Key) /\ (s.send # None => s.send.root = s.root)
          /\ (s.recv # None => s.send # None) /\ s.send # None
      BY <1>1, <2>4 DEF Sound
    <3>2. Ready(t, F) /\ Sends(s, t, F)
      <4>1. CASE ~ Starts(c)
        <5>1. Toward(d, w) /\ s = session[c] /\ session[c] # None
          BY <1>1, <1>2, <1>4, <1>9, <2>1, <2>4, <4>1 DEF Toward
        <5> QED BY <1>3, <1>6, <1>9, <5>1 DEF Understood, Met
      <4>2. CASE Starts(c)
        <5>1. /\ SealedBy(Run(c)) = {} /\ ~ Started(Run(d), Run(c)) /\ ~ Started(Run(c), Run(d))
              /\ \A g \in sent : Writer(g) = Run(c) => g.kind = "clear"
          <6>1. ChatTypeOK /\ Noting /\ Silent(c) /\ session[c] = None
            BY <1>5, <4>2 DEF ChatInv, WayInv
          <6>2. /\ \A r : ~ Started(r, Run(c))
                /\ \A y \in Clients : \A k : ~ Started(Run(c), <<y, k>>)
                /\ SealedBy(Run(c)) = {}
                /\ \A g \in sent : Writer(g) = Run(c) => g.kind = "clear"
            BY <1>1, <6>1, NotYet
          <6> QED BY <6>2 DEF Run
        <5>2. session[d] = None /\ Aimed(Run(c), Run(d))'
          BY <1>1, <1>9, <2>1, <5>1 DEF Toward
        <5>3. ~ Aimed(Run(c), Run(d))
          BY <5>1 DEF Aimed
        <5>4. Theirs(c) = KeyOf(Run(d)[1], Run(d)[2])
          <6>1. PICK q : q = Run(c)
            OBVIOUS
          <6>2. PICK r : r = Run(d)
            OBVIOUS
          <6>3. Run(c)' = q /\ Run(d)' = r
            BY <1>1, <6>1, <6>2
          <6>4. Aimed(q, r)'
            BY <5>2, <6>3 DEF Aimed
          <6>5. ~ Aimed(q, r)
            BY <5>3, <6>1, <6>2
          <6> QED BY <1>2, <6>2, <6>4, <6>5
        <5>5. Theirs(c) = Own(d)
          BY <5>4 DEF Run, Own
        <5>6. F = {}
          BY <1>9, <5>1 DEF Unread
        <5> QED BY <1>9, <4>2, <5>2, <5>5, <5>6, StartMeets
      <4> QED BY <4>1, <4>2
    <3>3. PICK G : G = F
      OBVIOUS
    <3>4. PICK u : u = t
      OBVIOUS
    <3>5. PICK r : r = s
      OBVIOUS
    <3>6. \A g \in G : g.id < f.id
      BY <1>1, <1>9, <3>3
    <3>7. Ready(u, G \cup {f}) /\ Sends(Sealed(r), u, G \cup {f})
      BY <1>1, <2>2, <2>4, <3>1, <3>2, <3>3, <3>4, <3>5, <3>6, ReadySealed
    <3>8. session'[c] = Sealed(r) /\ View(d, w)' = u /\ Unread(d, w)' = G \cup {f}
      BY <1>1, <2>1, <2>4, <3>3, <3>4, <3>5
    <3>9. Met(d, x, l)' <=> /\ Ready(View(d, w)', Unread(d, w)')
                            /\ l = life'[x] /\ session'[x] # None
                               => Sends(session'[x], View(d, w)', Unread(d, w)')
      BY DEF Met
    <3> HIDE DEF w, F, t, s
    <3>10. x = c
      BY <1>6, <1>9
    <3> QED BY <3>7, <3>8, <3>9, <3>10
  <2> QED BY <2>3, <2>4
<1> QED BY <1>7, <1>8, <1>9

\* The text that a client tries is the first of those it has not tried, and opens
\* if it understands the writer.
LEMMA FirstOpens ==
    ASSUME ChatInv, WayInv, Understood, NEW c \in Clients, NEW x \in Clients, Read(c, x),
           session[c] # None, Head(chan[x][c]).kind = "sealed",
           Toward(c, Writer(Head(chan[x][c]))), Alone(Run(c), Writer(Head(chan[x][c])))
    PROVE  LET m == Head(chan[x][c])
               F == Unread(c, Writer(m))
               t == session[c]
               d == Decrypt(t, m)
           IN  /\ m \in F /\ d.key = m.key /\ Ready(d.state, F \ {m})
               /\ \A s \in States(Key) : Sends(s, t, F) => Sends(s, d.state, F \ {m})
               /\ \A s \in States(Key) : \A G :
                     Sends(s, t, F) /\ Sends(t, s, G) => Sends(d.state, s, G)
<1> DEFINE m == Head(chan[x][c])
           w == Writer(m)
           F == Unread(c, w)
           t == session[c]
<1>1. /\ m \in sent /\ m.from = x /\ x # c /\ m \in Way(x, c) /\ phase[c] = "chat"
      /\ chan[x][c] # <<>>
  BY ReadParts
<1>2. /\ chan[x][c] \in Seq(sent) /\ t \in States(Key)
  BY DEF ChatInv, ChatTypeOK
<1>3. /\ ToSet(chan[x][c]) = {m} \cup ToSet(Tail(chan[x][c]))
      /\ \A g \in ToSet(Tail(chan[x][c])) : Before(m, g)
  BY <1>1, <1>2, FirstOff DEF WayInv, Lined
<1>4. m.life \in Nat /\ w = <<x, m.life>> /\ m.kind = "sealed" /\ Alive(c) /\ m.id \in Nat
  BY <1>1 DEF ChatInv, Written, Writer, Alive, WayInv, Counted
<1>5. Toward(c, w) /\ Alone(Run(c), w)
  OBVIOUS
<1> HIDE DEF m
<1>6. /\ \A g \in ToSet(up[x]) : Before(m, g)
      /\ \A f \in Tried(c) : \A g \in Way(x, c) : Before(f, g)
  <2>1. m \in ToSet(chan[x][c])
    BY <1>3
  <2> QED BY <2>1 DEF WayInv, Lined
<1>7. m \in F
  <2>1. m \in Tried(c) => m.id < m.id
    BY <1>1, <1>4, <1>6 DEF Before
  <2>2. m \notin Tried(c)
    BY <1>4, <2>1
  <2> QED BY <1>1, <1>4, <2>2 DEF Unread, SealedBy
<1>8. ASSUME NEW h \in F PROVE m.id <= h.id
  <2>1. h \in sent /\ h.kind = "sealed" /\ Writer(h) = w /\ h \notin Tried(c) /\ h.from = x
    BY <1>4 DEF Unread, SealedBy, Writer
  <2>2. Tuned(x, c, Writer(h))
    BY <1>5, <2>1 DEF Toward, Tuned
  <2>3. Known(Way(x, c), Tried(c), h)
    BY <1>1, <1>4, <2>1, <2>2 DEF WayInv, Delivered
  <2>4. h = m \/ Before(m, h)
    BY <1>1, <1>3, <1>6, <2>1, <2>3 DEF Known, Way
  <2>5. h.id \in Nat
    BY <2>1 DEF WayInv, Counted
  <2> QED BY <1>4, <2>1, <2>4, <2>5 DEF Before
<1>9. Ready(t, F)
  <2>1. View(c, w) = t
    BY DEF View
  <2>2. Met(c, x, m.life)
    BY <1>1, <1>4, <1>5 DEF Understood
  <2> QED BY <1>4, <2>1, <2>2 DEF Met
<1>10. (\A f \in F : Texty(f)) /\ (\A f, g \in F : f.key = g.key => f = g)
  BY UnreadParts
<1> HIDE DEF F, t, w
<1>11. /\ Decrypt(t, m).key = m.key /\ Ready(Decrypt(t, m).state, F \ {m})
       /\ \A s \in States(Key) : Sends(s, t, F) => Sends(s, Decrypt(t, m).state, F \ {m})
       /\ \A s \in States(Key) : \A G :
              Sends(s, t, F) /\ Sends(t, s, G) => Sends(Decrypt(t, m).state, s, G)
  BY <1>2, <1>7, <1>8, <1>9, <1>10, Opens
<1> QED BY <1>7, <1>11 DEF m, w, F, t

\* The frame makes a session: whoever it is with expects nothing yet.
LEMMA RespondMeets ==
    ASSUME ChatInv, WayInv, Understood, NEW c \in Clients, NEW x \in Clients, Read(c, x),
           session[c] = None, Head(chan[x][c]).kind = "init",
           NEW d \in Clients, NEW y \in Clients, NEW l \in Nat, d # y, Alive(d)',
           Toward(d, <<y, l>>)', Alone(Run(d), <<y, l>>)'
    PROVE  Met(d, y, l)'
<1> DEFINE m == Head(chan[x][c])
           w == <<y, l>>
<1>1. /\ m \in sent /\ m.from = x /\ x # c /\ Alive(c) /\ m.kind = "init"
      /\ \A z \in Clients : z # c => session'[z] = session[z]
      /\ session'[c] = InitBob(Secret(m.key, Own(c)), Own(c))
      /\ UNCHANGED <<phase, life, sent>>
  BY ReadParts DEF Alive
<1>2. /\ \A z \in Clients : Run(z)' = Run(z) /\ (Alive(z)' <=> Alive(z))
      /\ \A z \in Clients : Tried(z)' = Tried(z)
      /\ \A z \in Clients : \A k, r :
            /\ Started(r, <<z, k>>)' <=>
                  \/ Started(r, <<z, k>>)
                  \/ <<z, k>> = Run(c) /\ r = Writer(m) /\ m.aim = Own(c)
            /\ Crossed(<<z, k>>, r)' <=> Crossed(<<z, k>>, r)
  BY ReadNotes
<1>3. session'[c] # None
  BY StillThere
<1>4. /\ m.key = KeyOf(m.from, m.life) /\ m.life \in Nat /\ Writer(m) = <<x, m.life>>
      /\ \A z \in Clients : life[z] \in Nat /\ Run(z) = <<z, life[z]>> /\ Own(z)' = Own(z)
  BY <1>1 DEF WayInv, Aiming, ChatInv, ChatTypeOK, Written, Run, Own, Writer
<1> HIDE DEF m
<1>5. /\ \A r : ~ Started(r, Run(c))
      /\ \A z \in Clients : \A k : ~ Started(Run(c), <<z, k>>)
      /\ SealedBy(Run(c)) = {}
      /\ \A r : ~ Aimed(Run(c), r)
  <2>1. /\ \A r : ~ Started(r, Run(c))
        /\ \A z \in Clients : \A k : ~ Started(Run(c), <<z, k>>)
        /\ SealedBy(Run(c)) = {}
        /\ \A g \in sent : Writer(g) = Run(c) => g.kind = "clear"
    BY <1>1, NotYet DEF ChatInv, WayInv
  <2> QED BY <2>1 DEF Aimed
<1>6. \A q, r : Aimed(q, r)' <=> Aimed(q, r)
  BY <1>1 DEF Aimed
<1>7. PICK r : r = Run(d)
  OBVIOUS
<1>8. Run(d)' = r /\ r = <<d, life[d]>> /\ Alive(d)
  BY <1>2, <1>4, <1>7
<1>9. Alone(r, w)
  BY <1>2, <1>8 DEF Alone
<1>10. Unread(d, w)' = Unread(d, w)
  BY <1>1, <1>2 DEF Unread, SealedBy
<1>11. IF session'[d] = None THEN Aimed(w, r) ELSE Started(w, r)' \/ Started(r, w)'
  <2>1. Aimed(w, Run(d))' <=> Aimed(w, r)'
    BY <1>8 DEF Aimed
  <2> QED BY <1>6, <1>8, <2>1 DEF Toward
<1>12. CASE d # c /\ Toward(d, w)
  <2>1. w # Run(c)
    <3>1. Aimed(w, r) \/ Started(w, r) \/ Started(r, w)
      BY <1>7, <1>12 DEF Toward
    <3> QED BY <1>5, <1>8, <3>1
  <2>2. View(d, w)' = View(d, w)
    BY <1>1, <1>4, <1>12 DEF View
  <2>3. l = life'[y] /\ session'[y] # None => l = life[y] /\ session'[y] = session[y]
    BY <1>1, <1>4, <2>1
  <2> QED BY <1>7, <1>8, <1>9, <1>10, <1>12, <2>2, <2>3, StillMet
<1>13. CASE d # c /\ ~ Toward(d, w)
  <2>1. session[d] # None /\ w = Run(c) /\ r = Writer(m) /\ m.aim = Own(c)
    <3>1. session'[d] = session[d]
      BY <1>1, <1>13
    <3>2. session[d] # None /\ (Started(w, r)' \/ Started(r, w)') /\ ~ Started(w, r) /\ ~ Started(r, w)
      BY <1>7, <1>11, <1>13, <3>1 DEF Toward
    <3>3. ~ Started(w, r)'
      BY <1>2, <1>4, <1>8, <1>13, <3>2
    <3> QED BY <1>2, <3>2, <3>3
  <2>2. d = x /\ m.life = life[d] /\ y = c /\ l = life[c]
    BY <1>4, <1>8, <2>1
  <2> DEFINE s == session[d]
             t == View(c, <<d, life[d]>>)
  <2>3. session'[c] = t
    BY <1>1, <1>4, <2>2 DEF View
  <2>4. /\ t.send = None /\ t.skipped = {} /\ t.nsend = 0
    BY <1>4, ViewParts
  <2>5. Sends(s, t, Unread(c, <<d, life[d]>>))
    <3>1. Aimed(r, Run(c))
      BY <1>1, <1>4, <2>1 DEF Aimed, Own
    <3>2. Toward(c, <<d, life[d]>>)
      BY <1>8, <3>1 DEF Toward
    <3>3. Alone(Run(c), <<d, life[d]>>)
      BY <1>8, <1>9, <2>1 DEF Alone
    <3>4. Met(c, d, life[d])
      BY <1>1, <1>4, <1>13, <3>2, <3>3 DEF Understood
    <3> QED BY <2>1, <3>4 DEF Met
  <2> HIDE DEF s, t
  <2>6. Leads(s, t) /\ s.skipped = {} /\ s.recv = None
    BY <2>4, <2>5 DEF Sends, Leads
  <2>7. ASSUME NEW F, F = {} PROVE Ready(s, F) /\ LagSent(t, s, F)
    BY <2>4, <2>6, <2>7 DEF Ready, LagSent
  <2>8. ASSUME NEW F, F = {} PROVE Ready(s, F) /\ Sends(t, s, F)
    BY <2>4, <2>6, <2>7, <2>8 DEF Sends
  <2>9. Unread(d, w) = {}
    BY <1>5, <2>1 DEF Unread
  <2>10. View(d, w)' = s
    BY <1>1, <1>13, <2>1 DEF View, s
  <2>11. Met(d, y, l)' <=> /\ Ready(View(d, w)', Unread(d, w)')
                           /\ l = life'[y] /\ session'[y] # None
                              => Sends(session'[y], View(d, w)', Unread(d, w)')
    BY DEF Met
  <2> HIDE DEF w
  <2> QED BY <1>10, <2>2, <2>3, <2>8, <2>9, <2>10, <2>11
<1>14. CASE d = c
  <2>1. w = Writer(m) /\ m.aim = Own(c)
    <3>1. Started(w, r)' \/ Started(r, w)'
      BY <1>3, <1>11, <1>14
    <3>2. ~ Started(w, r) /\ ~ Started(r, w) /\ w # Run(c)
      BY <1>4, <1>5, <1>7, <1>14
    <3> QED BY <1>2, <1>8, <3>1, <3>2
  <2>2. y = x /\ l = m.life
    BY <1>4, <2>1
  <2>3. Toward(c, w)
    <3>1. Aimed(w, Run(c))
      BY <1>1, <1>4, <2>1 DEF Aimed, Own
    <3> QED BY <3>1 DEF Toward
  <2>4. View(c, w)' = View(c, w)
    BY <1>1, <1>3, <1>4, <2>2 DEF View
  <2> QED BY <1>1, <1>7, <1>8, <1>9, <1>10, <1>14, <2>2, <2>3, <2>4, StillMet
<1> QED BY <1>12, <1>13, <1>14

\* A text opens for its reader, and the writer's texts that the reader has not
\* tried are one less.
LEMMA OpenMeets ==
    ASSUME ChatInv, WayInv, Understood, NEW c \in Clients, NEW x \in Clients, Read(c, x),
           session[c] # None, Head(chan[x][c]).kind = "sealed",
           NEW d \in Clients, NEW y \in Clients, NEW l \in Nat, d # y, Alive(d)',
           Toward(d, <<y, l>>)', Alone(Run(d), <<y, l>>)'
    PROVE  Met(d, y, l)'
<1> DEFINE m == Head(chan[x][c])
           w == <<y, l>>
           t == session[c]
           then == Decrypt(t, m).state
<1>1. /\ m \in sent /\ m.from = x /\ x # c /\ m.kind = "sealed"
      /\ \A z \in Clients : z # c => session'[z] = session[z]
      /\ session'[c] = then
      /\ UNCHANGED <<life, sent>>
  BY ReadParts
<1>2. /\ \A z \in Clients : Run(z)' = Run(z) /\ (Alive(z)' <=> Alive(z))
      /\ Tried(c)' = Tried(c) \cup {m}
      /\ \A z \in Clients : z # c => Tried(z)' = Tried(z)
      /\ \A z \in Clients : \A k, r :
            /\ Started(r, <<z, k>>)' <=> Started(r, <<z, k>>)
            /\ Crossed(<<z, k>>, r)' <=> \/ Crossed(<<z, k>>, r)
                                         \/ <<z, k>> = Run(c) /\ Writer(m) # r
  BY ReadNotes
<1>3. session'[c] # None
  BY StillThere
<1>4. /\ m.life \in Nat /\ Writer(m) = <<x, m.life>>
      /\ \A z \in Clients : life[z] \in Nat /\ Run(z) = <<z, life[z]>> /\ Own(z)' = Own(z)
      /\ \A z \in Clients : session[z] \in States(Key) \cup {None}
  BY <1>1 DEF ChatInv, ChatTypeOK, Written, Run, Own, Writer
<1>5. /\ Toward(c, Writer(m)) /\ Alone(Run(c), Writer(m)) =>
            LET F == Unread(c, Writer(m))
            IN  /\ m \in F /\ Ready(then, F \ {m})
                /\ \A s \in States(Key) : Sends(s, t, F) => Sends(s, then, F \ {m})
                /\ \A s \in States(Key) : \A G :
                      Sends(s, t, F) /\ Sends(t, s, G) => Sends(then, s, G)
  BY FirstOpens
<1> HIDE DEF m, then
<1>6. \A q, r : Aimed(q, r)' <=> Aimed(q, r)
  BY <1>1 DEF Aimed
<1>7. PICK r : r = Run(d)
  OBVIOUS
<1>8. Run(d)' = r /\ r = <<d, life[d]>> /\ Alive(d)
  BY <1>2, <1>4, <1>7
<1>9. /\ ~ Crossed(r, w) /\ ~ Crossed(w, r) /\ Alone(Run(d), w)
      /\ d = c => Writer(m) = w
      /\ w = Run(c) => Writer(m) = r
  <2>1. ~ Crossed(r, w)' /\ ~ Crossed(w, r)'
    BY <1>8 DEF Alone
  <2>2. /\ Crossed(r, w)' <=> Crossed(r, w) \/ (r = Run(c) /\ Writer(m) # w)
        /\ Crossed(w, r)' <=> Crossed(w, r) \/ (w = Run(c) /\ Writer(m) # r)
    BY <1>2, <1>8
  <2> QED BY <1>7, <2>1, <2>2 DEF Alone
<1>10. Toward(d, w)
  <2>1. session'[d] = None <=> session[d] = None
    BY <1>1, <1>3
  <2>2. Aimed(w, Run(d))' => Aimed(w, r)'
    BY <1>8 DEF Aimed
  <2>3. session'[d] # None => Started(w, r)' \/ Started(r, w)'
    BY <1>8 DEF Toward
  <2>4. session'[d] # None => Started(w, r) \/ Started(r, w)
    BY <1>2, <1>8, <2>3
  <2>5. session'[d] = None => Aimed(w, r)
    BY <1>6, <2>2 DEF Toward
  <2> QED BY <1>7, <2>1, <2>4, <2>5 DEF Toward
<1>11. Met(d, y, l)' <=> /\ Ready(View(d, w)', Unread(d, w)')
                         /\ l = life'[y] /\ session'[y] # None
                            => Sends(session'[y], View(d, w)', Unread(d, w)')
  BY DEF Met
<1>12. CASE d # c /\ w # Run(c)
  <2>1. View(d, w)' = View(d, w) /\ Unread(d, w)' = Unread(d, w)
    BY <1>1, <1>2, <1>4, <1>12 DEF View, Unread, SealedBy
  <2>2. l = life'[y] /\ session'[y] # None => l = life[y] /\ session'[y] = session[y]
    BY <1>1, <1>4, <1>12
  <2> QED BY <1>8, <1>9, <1>10, <2>1, <2>2, StillMet
<1>13. CASE d = c
  <2> DEFINE F == Unread(c, w)
  <2>1. Writer(m) = w /\ y = x /\ l = m.life
    BY <1>4, <1>9, <1>13
  <2>2. /\ Ready(then, F \ {m})
        /\ \A s \in States(Key) : Sends(s, t, F) => Sends(s, then, F \ {m})
    BY <1>5, <1>9, <1>10, <1>13, <2>1
  <2>3. l = life[y] /\ session[y] # None => Sends(session[y], t, F)
    <3>1. Met(c, y, l)
      BY <1>8, <1>9, <1>10, <1>13 DEF Understood
    <3>2. View(c, w) = t
      BY DEF View
    <3> QED BY <3>1, <3>2 DEF Met
  <2>4. View(d, w)' = then
    BY <1>1, <1>3, <1>13 DEF View
  <2>5. Unread(d, w)' = F \ {m}
    BY <1>1, <1>2, <1>13 DEF Unread, SealedBy
  <2>6. session'[y] = session[y] /\ life'[y] = life[y]
    BY <1>1, <2>1
  <2>7. PICK G : G = F \ {m}
    OBVIOUS
  <2>8. l = life[y] /\ session[y] # None => Sends(session[y], then, G)
    BY <1>4, <2>2, <2>3, <2>7
  <2> HIDE DEF F, w
  <2> QED BY <1>11, <2>2, <2>4, <2>5, <2>6, <2>7, <2>8
<1>14. CASE d # c /\ w = Run(c)
  <2> DEFINE F == Unread(c, r)
             G == Unread(d, w)
             s == session[d]
  <2>1. Writer(m) = r /\ d = x /\ y = c /\ l = life[c]
    BY <1>4, <1>8, <1>9, <1>14
  <2>2. s # None
    <3>1. ChatTypeOK /\ Noting /\ Silent(d)
      BY DEF ChatInv, WayInv
    <3>2. s = None => \A f \in sent : Writer(f) = Run(d) => f.kind = "clear"
      BY <1>8, <3>1, NotYet
    <3> QED BY <1>1, <1>7, <2>1, <3>2
  <2>3. s \in States(Key)
    BY <1>4, <2>2
  <2>4. Toward(c, r)
    BY <1>7, <1>10, <1>14, <2>2 DEF Toward
  <2>5. Alone(Run(c), r)
    BY <1>9, <1>14 DEF Alone
  <2>6. Alive(c)
    BY ReadParts DEF Alive
  <2>7. Sends(s, t, F)
    <3>1. Met(c, d, life[d])
      BY <1>4, <1>8, <1>14, <2>4, <2>5, <2>6 DEF Understood
    <3>2. View(c, r) = t
      BY DEF View
    <3> QED BY <1>8, <2>2, <3>1, <3>2 DEF Met
  <2>8. Ready(s, G) /\ Sends(t, s, G)
    <3>1. Met(d, y, l)
      BY <1>8, <1>9, <1>10 DEF Understood
    <3>2. View(d, w) = s
      BY <2>2 DEF View
    <3> QED BY <2>1, <3>1, <3>2 DEF Met
  <2>9. Sends(then, s, G)
    BY <1>5, <2>1, <2>3, <2>4, <2>5, <2>7, <2>8
  <2>10. View(d, w)' = s
    BY <1>1, <1>14, <2>2 DEF View
  <2>11. Unread(d, w)' = G
    BY <1>1, <1>2, <1>14 DEF Unread, SealedBy
  <2> HIDE DEF G, w, s
  <2> QED BY <1>1, <1>11, <2>1, <2>8, <2>9, <2>10, <2>11
<1> QED BY <1>12, <1>13, <1>14

\* A client reads.
LEMMA ReadMeets ==
    ASSUME ChatInv, WayInv, Understood, NEW c \in Clients, NEW x \in Clients, Read(c, x)
    PROVE  Understood'
<1> DEFINE m == Head(chan[x][c])
           responds == session[c] = None /\ m.kind = "init"
           opens == session[c] # None /\ m.kind = "sealed"
<1>1. CASE responds
  BY <1>1, RespondMeets DEF Understood
<1>2. CASE opens
  BY <1>2, OpenMeets DEF Understood
<1>3. CASE ~ responds /\ ~ opens
  <2>1. /\ session' = [session EXCEPT ![c] = session[c]] /\ UNCHANGED <<phase, life, sent>>
        /\ \A y \in Clients : \A e : e \in Notes(y)' <=> e \in Notes(y)
    BY <1>3, ReadParts
  <2>2. session' = session
    BY <2>1 DEF ChatInv, ChatTypeOK
  <2>3. ~ (session[c] = None /\ Head(chan[x][c]).kind = "init") /\ ~ (session[c] # None /\ Head(chan[x][c]).kind = "sealed")
    BY <1>3
  <2>4. seen' = seen
    BY <2>3 DEF Read, TryDecrypt, Respond, Open, Hows
  <2>5. \A d \in Clients : Alive(d)' => Alive(d)
    BY <2>1 DEF Alive
  <2> QED BY <2>1, <2>2, <2>4, <2>5, UnderstoodApart
<1> QED BY <1>1, <1>2, <1>3

\* No step comes between two runs that have to do with each other alone.
LEMMA NextMeets ==
    ASSUME ChatInv, WayInv, Understood, [ChatNext]_chatVars
    PROVE  Understood'
<1>1. ASSUME NEW c \in Clients, Connect(c) PROVE Understood'
  BY <1>1, ConnectMeets
<1>2. ASSUME NEW c \in Clients, Serve(c) \/ Enter(c) \/ Dismiss(c) \/ Route(c) PROVE Understood'
  <2>1. UNCHANGED <<life, session, sent, seen>>
    BY <1>2 DEF Serve, Enter, Dismiss, Route, net
  <2>2. \A d \in Clients : Alive(d)' => Alive(d)
    BY <1>2 DEF Serve, Enter, Dismiss, Route, Alive, ChatInv, ChatTypeOK
  <2> QED BY <2>1, <2>2, UnderstoodApart
<1>3. ASSUME NEW c \in Clients, Leave(c) PROVE Understood'
  BY <1>3, LeaveMeets
<1>4. ASSUME NEW c \in Clients, Write(c) PROVE Understood'
  BY <1>4, WriteMeets
<1>5. ASSUME NEW c \in Clients, NEW x \in Clients, Read(c, x) PROVE Understood'
  BY <1>5, ReadMeets
<1>6. CASE UNCHANGED chatVars
  <2>1. UNCHANGED <<life, session, sent, seen>> /\ \A d \in Clients : Alive(d)' => Alive(d)
    BY <1>6 DEF chatVars, Alive
  <2> QED BY <2>1, UnderstoodApart
<1> QED BY <1>1, <1>2, <1>3, <1>4, <1>5, <1>6 DEF ChatNext

\* A text that c has tried, and why it may have failed.
Excused(c, e) == LET w == Writer(e.m)
                     r == Reader(c, e)
                 IN  e.how = "failed" => \/ ~ Started(w, r) /\ ~ Started(r, w)
                                         \/ Crossed(r, w) \/ Crossed(w, r)

LEMMA ByExcuses ==
    ASSUME ChatTypeOK
    PROVE  FailsOnlyBecause <=> \A c \in Clients : \A e \in Notes(c) : Excused(c, e)
BY NoteParts DEF FailsOnlyBecause, Excused

\* Reading is what tries a text, and no later note takes the excuse away.
LEMMA ReadExcused ==
    ASSUME ChatInv, WayInv, Understood, NEW c \in Clients, NEW x \in Clients, Read(c, x),
           NEW y \in Clients, NEW e \in Notes(y)', e \in Notes(y) => Excused(y, e)
    PROVE  Excused(y, e)'
<1> DEFINE m == Head(chan[x][c])
           responds == session[c] = None /\ m.kind = "init"
           opens == session[c] # None /\ m.kind = "sealed"
           key == Decrypt(session[c], m).key
<1>1. /\ m \in sent /\ phase[c] = "chat"
      /\ \/ e \in Notes(y)
         \/ /\ y = c /\ (responds \/ opens)
            /\ e = [life |-> life[c], m |-> m,
                    how |-> IF responds THEN "session"
                            ELSE IF key = m.key THEN "opened" ELSE "failed"]
  BY ReadParts
<1>2. \A z \in Clients : \A k, q :
            /\ Started(q, <<z, k>>)' <=>
                  \/ Started(q, <<z, k>>)
                  \/ responds /\ <<z, k>> = Run(c) /\ q = Writer(m) /\ m.aim = Own(c)
            /\ Crossed(<<z, k>>, q)' <=>
                  \/ Crossed(<<z, k>>, q)
                  \/ opens /\ <<z, k>> = Run(c) /\ Writer(m) # q
  BY ReadNotes
<1>3. \A f \in sent : f.from \in Clients
  BY DEF ChatInv, Written
<1>4. Alive(c) /\ Silent(c)
  BY <1>1 DEF Alive, WayInv
<1>5. opens /\ Toward(c, Writer(m)) /\ Alone(Run(c), Writer(m)) => key = m.key
  BY FirstOpens
<1> HIDE DEF m, key
<1> SUFFICES ASSUME e.how = "failed",
                    Started(Writer(e.m), Reader(y, e))' \/ Started(Reader(y, e), Writer(e.m))',
                    ~ Crossed(Reader(y, e), Writer(e.m))', ~ Crossed(Writer(e.m), Reader(y, e))'
             PROVE  FALSE
  BY DEF Excused
<1> DEFINE w == Writer(e.m)
           r == Reader(y, e)
<1>6. w = <<e.m.from, e.m.life>> /\ r = <<y, e.life>>
  BY DEF Writer, Reader
<1>7. e.m \in sent
  <2>1. ChatTypeOK
    BY DEF ChatInv
  <2> QED BY <1>1, <2>1, NoteParts
<1>8. /\ Started(w, r) \/ Started(r, w) \/ (responds /\ (r = Run(c) \/ w = Run(c)))
      /\ ~ Crossed(r, w) /\ ~ Crossed(w, r)
  BY <1>2, <1>3, <1>6, <1>7
<1>9. CASE e \in Notes(y)
  <2>1. responds /\ (r = Run(c) \/ w = Run(c))
    BY <1>8, <1>9 DEF Excused
  <2>2. e.m.kind = "sealed"
    BY <1>9 DEF WayInv, Noting
  <2>3. r = Run(c) => y = c /\ e.life = life[c]
    BY <1>6 DEF Run
  <2> QED BY <1>4, <1>7, <1>9, <2>1, <2>2, <2>3 DEF Silent
<1>10. CASE e \notin Notes(y)
  <2>1. y = c /\ opens /\ ~ responds /\ e.m = m /\ e.life = life[c] /\ key # m.key
    BY <1>1, <1>10
  <2>2. r = Run(c) /\ w = Writer(m)
    BY <1>6, <2>1 DEF Run
  <2>3. Toward(c, Writer(m)) /\ Alone(Run(c), Writer(m))
    BY <1>8, <2>1, <2>2 DEF Toward, Alone
  <2> QED BY <1>5, <2>1, <2>3
<1> QED BY <1>9, <1>10

LEMMA NextExcused ==
    ASSUME ChatInv, WayInv, Understood, FailsOnlyBecause, [ChatNext]_chatVars
    PROVE  FailsOnlyBecause'
<1>1. ASSUME NEW c \in Clients, NEW x \in Clients, Read(c, x) PROVE FailsOnlyBecause'
  <2>1. ChatTypeOK /\ ChatTypeOK'
    BY <1>1, ReadInv DEF ChatInv
  <2>2. \A y \in Clients : \A e \in Notes(y) : Excused(y, e)
    BY <2>1, ByExcuses
  <2>3. \A y \in Clients : \A e \in Notes(y)' : Excused(y, e)'
    BY <1>1, <2>2, ReadExcused
  <2>4. FailsOnlyBecause' <=> \A y \in Clients : \A e \in Notes(y)' : Excused(y, e)'
    <3>1. \A y \in Clients : \A e : e \in Notes(y)' <=> \E i \in 1 .. Len(seen'[y]) : e = seen'[y][i]
      <4>1. ASSUME NEW y \in Clients
            PROVE  \A e : e \in Notes(y)' <=> \E i \in 1 .. Len(seen'[y]) : e = seen'[y][i]
        <5>1. seen'[y] \in Seq(Note(sent'))
          BY <2>1 DEF ChatTypeOK, Note
        <5>2. PICK S : S = seen'[y]
          OBVIOUS
        <5>3. PICK X : X = Note(sent')
          OBVIOUS
        <5>4. \A e : e \in ToSet(S) <=> \E i \in 1 .. Len(S) : e = S[i]
          BY <5>1, <5>2, <5>3, InSequence
        <5>5. Notes(y)' = ToSet(S)
          BY <5>2 DEF Notes
        <5> QED BY <5>2, <5>4, <5>5
      <4> QED BY <4>1
    <3> QED BY <3>1 DEF FailsOnlyBecause, Excused
  <2> QED BY <2>3, <2>4
<1>2. CASE UNCHANGED seen
  <2>1. \A r, q : (Started(r, q)' <=> Started(r, q)) /\ (Crossed(r, q)' <=> Crossed(r, q))
    BY <1>2 DEF Started, Crossed
  <2> QED BY <1>2, <2>1 DEF FailsOnlyBecause
<1>3. ASSUME NEW c \in Clients, \/ Connect(c) \/ Serve(c) \/ Enter(c)
                                \/ Leave(c) \/ Dismiss(c) \/ Route(c) \/ Write(c)
      PROVE  UNCHANGED seen
  BY <1>3 DEF Connect, Serve, Enter, Leave, Dismiss, Route, Write
<1>4. UNCHANGED chatVars => UNCHANGED seen
  BY DEF chatVars
<1> QED BY <1>1, <1>2, <1>3, <1>4 DEF ChatNext

\* At first nobody is there.
LEMMA InitExcused == ChatInit => Understood /\ FailsOnlyBecause
<1> SUFFICES ASSUME ChatInit PROVE Understood /\ FailsOnlyBecause
  OBVIOUS
<1>1. \A c \in Clients : ~ Alive(c) /\ seen[c] = <<>>
  BY DEF ChatInit, Alive
<1> QED BY <1>1 DEF Understood, FailsOnlyBecause

\* A text fails to open only for want of a session with its writer, or because one of
\* the two has put a third one's text through its session before: as long as nobody
\* else interferes the two understand each other (try_decrypt, encrypt_msg).
THEOREM FailuresExplained == ChatSpec => []FailsOnlyBecause
<1>1. ChatInit => WayInv /\ Understood /\ FailsOnlyBecause
  BY InitWay, InitExcused
<1>2. /\ ChatInv /\ WayInv /\ Understood /\ FailsOnlyBecause /\ [ChatNext]_chatVars
      => WayInv' /\ Understood' /\ FailsOnlyBecause'
  BY NextWay, NextMeets, NextExcused
<1>3. ChatSpec => []ChatInv
  BY ChatAlways
<1> QED BY <1>1, <1>2, <1>3, PTL DEF ChatSpec
=============================================================================

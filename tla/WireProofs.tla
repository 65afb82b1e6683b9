----------------------------- MODULE WireProofs -----------------------------
(***************************************************************************)
(* Proofs about a connection, for all lengths and limits, any payloads and  *)
(* any number of frames, opened straight or through the proxy: whatever is   *)
(* between the ends are whole frames in the order in which they were sent,  *)
(* cut off at most at the end.  So the ends implement Pipe, and an end that *)
(* closes never does so over what it has read.                              *)
(***************************************************************************)
EXTENDS Tunnel, SequenceTheorems, FiniteSetTheorems, TLAPS

\* A frame on the wire, from its prefix to its last byte.
FrameLen(w) == PrefixLen + 1 + w.len

\* The numbers of the frames of one direction: 0 is the handshake message.
No(w) == IF w.kind \in {"init", "resp"} THEN 0 ELSE w.frame.id

\* Nonces taken by the first k of the frames s.
Nonces(s, k) == Cardinality({i \in 1 .. k : s[i].size # 0})

\* What end d writes for the number k, when s are the frames it has sent.
Nth(d, s, k) == IF k = 0 THEN Handshake(IF d = Client THEN "init" ELSE "resp")
                ELSE WireFrame(s[k], s[k].size, Nonces(s, k - 1))

\* A byte of one of them.
Genuine(d, s, b) == \E k \in 0 .. Len(s) : \E i \in 1 .. FrameLen(Nth(d, s, k)) :
                       b = [of |-> Nth(d, s, k), at |-> i]

\* Around every byte are the other bytes of its frame, as far as there are any;
\* the next frame has the next number; the first byte is the first of number n.
Block(S) == \A i \in 1 .. Len(S) : \A k \in 1 .. FrameLen(S[i].of) :
               LET j == i - S[i].at + k
               IN  j \in 1 .. Len(S) => S[j] = [of |-> S[i].of, at |-> k]

Rising(S) == \A i \in 1 .. Len(S) - 1 :
                S[i].at = FrameLen(S[i].of)
                => S[i + 1].at = 1 /\ No(S[i + 1].of) = No(S[i].of) + 1

Starting(S, n) == Len(S) > 0 => S[1].at = 1 /\ No(S[1].of) = n

\* S are frames of d from number n on, the last of them perhaps cut off.
Carries(d, s, S, n) == /\ \A i \in 1 .. Len(S) : Genuine(d, s, S[i])
                       /\ Block(S) /\ Rising(S) /\ Starting(S, n)

\* They end where number m begins.
Whole(S, n, m) == IF Len(S) = 0 THEN n = m
                  ELSE LET b == S[Len(S)]
                       IN  b.at = FrameLen(b.of) /\ No(b.of) + 1 = m

\* S begins with T; T is S without its first m bytes; T is S and the frame w.
Begins(T, S) == /\ Len(S) \in Nat /\ Len(T) \in 0 .. Len(S)
                /\ \A i \in 1 .. Len(T) : T[i] = S[i]

Follows(T, S, m) == /\ Len(S) \in Nat /\ m <= Len(S) /\ Len(T) = Len(S) - m
                    /\ \A i \in 1 .. Len(T) : T[i] = S[i + m]

Extends(T, S, w) == /\ Begins(S, T) /\ Len(T) = Len(S) + FrameLen(w)
                    /\ \A i \in 1 .. FrameLen(w) : T[Len(S) + i] = [of |-> w, at |-> i]

\* The frames that d has sent: each has its place as number, and fits the cipher.
Numbered(d, s) == /\ s \in Seq(Frame)
                  /\ \A i \in 1 .. Len(s) : /\ s[i].from = d /\ s[i].id = i
                                            /\ s[i].size = 0 \/ Fits(s[i].size)
-----------------------------------------------------------------------------
(* Lemmas about bytes *)

\* The constants, one by one.
LEMMA Limits ==
    /\ PrefixLen \in Nat \ {0} /\ MaxFrame \in Nat \ {0}
    /\ ReadMax \in Nat \ {0} /\ SockCap \in Nat \ {0}
    /\ Tag \in Nat /\ NoiseMax \in Nat /\ Payload \subseteq Nat
<1>1. {PrefixLen, MaxFrame, ReadMax, SockCap} \subseteq Nat \ {0}
  BY WireAssumption
<1>2. {Tag, NoiseMax} \cup Payload \subseteq Nat
  BY WireAssumption
<1>3. Tag \in Nat /\ NoiseMax \in Nat /\ Payload \subseteq Nat
  BY <1>2, Zenon
<1> QED BY <1>1, <1>3

\* The number of nonces is a number, and grows with every frame that has a
\* payload.
LEMMA NoncesNat == ASSUME NEW s, NEW k \in Nat PROVE Nonces(s, k) \in 0 .. k
<1> DEFINE N == {i \in 1 .. k : s[i].size # 0}
<1>1. IsFiniteSet(1 .. k) /\ Cardinality(1 .. k) = k
  BY FS_Interval
<1>2. IsFiniteSet(N) /\ Cardinality(N) <= Cardinality(1 .. k)
  BY <1>1, FS_Subset
<1>3. Cardinality(N) \in Nat
  BY <1>2, FS_CardinalityType
<1> HIDE DEF N
<1>4. Cardinality(N) \in 0 .. k
  BY <1>1, <1>2, <1>3
<1> QED BY <1>4 DEF Nonces, N

LEMMA NoncesNext ==
    ASSUME NEW s, NEW k \in Nat
    PROVE  Nonces(s, k + 1) = IF s[k + 1].size = 0 THEN Nonces(s, k) ELSE Nonces(s, k) + 1
<1> DEFINE N == {i \in 1 .. k : s[i].size # 0}
           M == {i \in 1 .. k + 1 : s[i].size # 0}
<1>1. IsFiniteSet(N)
  <2>1. IsFiniteSet(1 .. k) /\ N \in SUBSET (1 .. k)
    BY FS_Interval
  <2> QED BY <2>1, FS_Subset
<1>2. CASE s[k + 1].size = 0
  <2>1. M = N
    BY <1>2
  <2> QED BY <1>2, <2>1 DEF Nonces
<1>3. CASE s[k + 1].size # 0
  <2>1. M = N \cup {k + 1} /\ k + 1 \notin N
    BY <1>3
  <2> HIDE DEF M, N
  <2>2. Cardinality(M) = Cardinality(N) + 1
    BY <1>1, <2>1, FS_AddElement
  <2> QED BY <1>3, <2>2 DEF Nonces, M, N
<1> QED BY <1>2, <1>3

\* They depend on the frames counted only.
LEMMA NoncesSame ==
    ASSUME NEW s, NEW t, NEW k \in Nat, \A i \in 1 .. k : t[i] = s[i]
    PROVE  Nonces(t, k) = Nonces(s, k)
<1>1. {i \in 1 .. k : t[i].size # 0} = {i \in 1 .. k : s[i].size # 0}
  OBVIOUS
<1> QED BY <1>1 DEF Nonces

\* What number k looks like.
LEMMA NthForm ==
    ASSUME NEW d \in End, NEW s, Numbered(d, s), NEW k \in 0 .. Len(s)
    PROVE  /\ Nth(d, s, k).len \in Nat
           /\ FrameLen(Nth(d, s, k)) \in Nat
           /\ FrameLen(Nth(d, s, k)) > PrefixLen
           /\ No(Nth(d, s, k)) = k
<1> DEFINE w == Nth(d, s, k)
<1>1. w.len \in Nat /\ No(w) = k
  <2>1. CASE k = 0
    BY <2>1 DEF Nth, Handshake, No
  <2>2. CASE k # 0
    <3>1. k \in 1 .. Len(s)
      BY <2>2
    <3>2. s[k].id = k /\ s[k].size \in Nat
      <4>1. s[k] \in Frame
        BY <3>1, ElementOfSeq DEF Numbered
      <4> QED BY <3>1, <4>1, Limits DEF Numbered, Frame
    <3>3. w = WireFrame(s[k], s[k].size, Nonces(s, k - 1))
      BY <2>2 DEF Nth
    <3> HIDE DEF w
    <3>4. CASE s[k].size = 0
      BY <3>2, <3>3, <3>4 DEF WireFrame, No
    <3>5. CASE s[k].size # 0
      <4>1. s[k].size + Tag \in Nat
        BY <3>2, Limits
      <4> QED BY <3>2, <3>3, <3>5, <4>1 DEF WireFrame, No
    <3> QED BY <3>4, <3>5
  <2> QED BY <2>1, <2>2
<1> HIDE DEF w
<1>2. FrameLen(w) \in Nat /\ FrameLen(w) > PrefixLen
  BY <1>1, Limits DEF FrameLen
<1> QED BY <1>1, <1>2 DEF w

\* What a genuine byte looks like.
LEMMA GenuineForm ==
    ASSUME NEW d \in End, NEW s, Numbered(d, s), NEW b, Genuine(d, s, b)
    PROVE  /\ b.of.len \in Nat /\ FrameLen(b.of) \in Nat /\ FrameLen(b.of) > PrefixLen
           /\ b.at \in 1 .. FrameLen(b.of)
           /\ No(b.of) \in 0 .. Len(s)
           /\ b.of = Nth(d, s, No(b.of))
<1>1. PICK k \in 0 .. Len(s) : \E i \in 1 .. FrameLen(Nth(d, s, k)) :
                                  b = [of |-> Nth(d, s, k), at |-> i]
  BY DEF Genuine
<1>2. b.of = Nth(d, s, k) /\ b.at \in 1 .. FrameLen(Nth(d, s, k))
  BY <1>1
<1> QED BY <1>2, NthForm

\* What has been sent stays genuine when more is sent.
LEMMA GenuineKept ==
    ASSUME NEW d \in End, NEW s, NEW t, Begins(s, t), NEW b, Genuine(d, s, b)
    PROVE  Genuine(d, t, b)
<1> USE DEF Begins
<1>1. PICK k \in 0 .. Len(s) : \E i \in 1 .. FrameLen(Nth(d, s, k)) :
                                  b = [of |-> Nth(d, s, k), at |-> i]
  BY DEF Genuine
<1>2. Nth(d, t, k) = Nth(d, s, k)
  <2>1. CASE k = 0
    BY <2>1 DEF Nth
  <2>2. CASE k # 0
    <3>1. k - 1 \in Nat /\ k \in 1 .. Len(s) /\ \A j \in 1 .. k - 1 : t[j] = s[j]
      BY <2>2
    <3>2. Nonces(t, k - 1) = Nonces(s, k - 1)
      BY <3>1, NoncesSame
    <3>3. t[k] = s[k]
      BY <3>1
    <3> QED BY <2>2, <3>2, <3>3 DEF Nth
  <2> QED BY <2>1, <2>2
<1>3. k \in 0 .. Len(t)
  OBVIOUS
<1> QED BY <1>1, <1>2, <1>3 DEF Genuine
-----------------------------------------------------------------------------
(* Lemmas about streams *)

\* What is cut off at its end stays in order.
LEMMA CarriesPrefix ==
    ASSUME NEW d \in End, NEW s, NEW n, NEW S, NEW T, Numbered(d, s),
           Begins(T, S), Carries(d, s, S, n)
    PROVE  Carries(d, s, T, n)
<1>1. /\ Len(S) \in Nat /\ Len(T) \in 0 .. Len(S)
      /\ \A i \in 1 .. Len(T) : i \in 1 .. Len(S) /\ T[i] = S[i]
  BY DEF Begins
<1>2. \A i \in 1 .. Len(T) : Genuine(d, s, T[i])
  BY <1>1 DEF Carries
<1>3. Block(T)
  BY <1>1 DEF Carries, Block
<1>4. Rising(T)
  <2>1. \A i \in 1 .. Len(T) - 1 : i \in 1 .. Len(S) - 1 /\ T[i] = S[i] /\ T[i + 1] = S[i + 1]
    BY <1>1
  <2> QED BY <2>1 DEF Carries, Rising
<1>5. Starting(T, n)
  BY <1>1 DEF Carries, Starting
<1> QED BY <1>2, <1>3, <1>4, <1>5 DEF Carries

\* What has been sent is carried on when more is sent.
LEMMA CarriesKept ==
    ASSUME NEW d \in End, NEW s, NEW t, NEW S, NEW n, Begins(s, t),
           Carries(d, s, S, n)
    PROVE  Carries(d, t, S, n)
BY GenuineKept DEF Carries

\* Places in a stream, as numbers.
LEMMA Shifted == \A i, m, a, k \in Int : (i - a + k) + m = (i + m) - a + k
OBVIOUS

LEMMA LastPlace ==
    ASSUME NEW i \in Nat, NEW a \in Nat, NEW n \in Nat, NEW k \in 1 .. n, NEW l \in Nat,
           a > 0, i <= l, ~ i - a + k <= l
    PROVE  /\ l - i + a \in 1 .. n /\ l - i + a < k
           /\ i - a + (l - i + a) = l
OBVIOUS

\* What genuine bytes are, all over a stream.
LEMMA CarriesForm ==
    ASSUME NEW d \in End, NEW s, NEW n, NEW S, Numbered(d, s), Carries(d, s, S, n)
    PROVE  \A i \in 1 .. Len(S) :
              /\ FrameLen(S[i].of) \in Nat /\ FrameLen(S[i].of) > PrefixLen
              /\ S[i].at \in 1 .. FrameLen(S[i].of)
              /\ No(S[i].of) \in 0 .. Len(s)
BY GenuineForm DEF Carries

\* The bytes of the first frame are where they belong.
LEMMA FirstFrame ==
    ASSUME NEW d \in End, NEW s, NEW n, NEW S, Numbered(d, s), Len(S) \in Nat \ {0},
           Carries(d, s, S, n)
    PROVE  \A k \in 1 .. FrameLen(S[1].of) :
              k <= Len(S) => S[k] = [of |-> S[1].of, at |-> k]
<1>1. 1 \in 1 .. Len(S) /\ S[1].at = 1
  BY DEF Carries, Starting
<1>2. FrameLen(S[1].of) \in Nat
  BY <1>1, CarriesForm
<1>3. \A k \in 1 .. FrameLen(S[1].of) : 1 - S[1].at + k = k
  BY <1>1, <1>2
<1>4. Block(S)
  BY DEF Carries
<1> QED BY <1>1, <1>3, <1>4 DEF Block

\* The first frame is taken off the stream: it goes on with the next one.
LEMMA FrameTaken ==
    ASSUME NEW d \in End, NEW s, NEW n \in Nat, NEW S, NEW T, Numbered(d, s),
           Len(S) > 0, Carries(d, s, S, n),
           NEW m, m = FrameLen(S[1].of), Follows(T, S, m)
    PROVE  /\ Carries(d, s, T, n + 1)
           /\ \A l \in Nat : Whole(S, n, l) => Whole(T, n + 1, l)
<1> USE DEF Follows
<1>1. m \in Nat \ {0} /\ Len(T) \in Nat
  BY CarriesForm, Limits
<1>2. \A i \in 1 .. Len(T) : i + m \in 1 .. Len(S) /\ T[i] = S[i + m]
  BY <1>1
<1>3. /\ \A i \in 1 .. Len(S) : /\ FrameLen(S[i].of) \in Nat
                                 /\ S[i].at \in 1 .. FrameLen(S[i].of)
      /\ Block(S) /\ Rising(S)
  BY CarriesForm DEF Carries
<1>4. S[m] = [of |-> S[1].of, at |-> m] /\ No(S[1].of) = n
  <2>1. m \in 1 .. FrameLen(S[1].of)
    BY <1>1
  <2>2. S[m] = [of |-> S[1].of, at |-> m]
    BY <2>1, FirstFrame
  <2> QED BY <2>2 DEF Carries, Starting
<1>5. S[m].at = FrameLen(S[m].of) /\ No(S[m].of) = n
  BY <1>4
<1>6. \A i \in 1 .. Len(T) : Genuine(d, s, T[i])
  BY <1>2 DEF Carries
<1>7. Block(T)
  <2> SUFFICES ASSUME NEW i \in 1 .. Len(T), NEW k \in 1 .. FrameLen(T[i].of),
                      i - T[i].at + k \in 1 .. Len(T)
               PROVE  T[i - T[i].at + k] = [of |-> T[i].of, at |-> k]
    BY DEF Block
  <2>1. /\ i + m \in 1 .. Len(S) /\ T[i] = S[i + m]
        /\ T[i].at \in Nat /\ k \in Nat
    BY <1>2, <1>3
  <2> DEFINE j == i - T[i].at + k
  <2>2. j + m = (i + m) - S[i + m].at + k /\ j + m \in 1 .. Len(S)
    <3>1. j \in 1 .. Len(T)
      OBVIOUS
    <3>2. j + m \in 1 .. Len(S)
      BY <1>2, <3>1
    <3>3. j + m = (i + m) - T[i].at + k
      <4> DEFINE a == T[i].at
      <4>1. i \in Int /\ m \in Int /\ a \in Int /\ k \in Int
        BY <1>1, <2>1
      <4> HIDE DEF a
      <4>2. (i - a + k) + m = (i + m) - a + k
        BY <4>1, Shifted
      <4> QED BY <4>2 DEF a
    <3> QED BY <2>1, <3>2, <3>3
  <2>3. S[(i + m) - S[i + m].at + k] = [of |-> S[i + m].of, at |-> k]
    BY <1>3, <2>1, <2>2 DEF Block
  <2> QED BY <1>2, <2>1, <2>2, <2>3
<1>8. Rising(T)
  <2> SUFFICES ASSUME NEW i \in 1 .. Len(T) - 1, T[i].at = FrameLen(T[i].of)
               PROVE  T[i + 1].at = 1 /\ No(T[i + 1].of) = No(T[i].of) + 1
    BY DEF Rising
  <2>1. /\ i + m \in 1 .. Len(S) - 1 /\ T[i] = S[i + m]
        /\ T[i + 1] = S[(i + m) + 1]
    <3>1. i + 1 \in 1 .. Len(T) /\ i \in 1 .. Len(T) /\ (i + 1) + m = (i + m) + 1
      BY <1>1
    <3>2. T[i] = S[i + m] /\ T[i + 1] = S[(i + m) + 1]
      BY <1>2, <3>1
    <3>3. i + m \in 1 .. Len(S) - 1
      BY <1>1
    <3> QED BY <3>2, <3>3
  <2> QED BY <1>3, <2>1 DEF Rising
<1>9. Starting(T, n + 1)
  <2> SUFFICES ASSUME Len(T) > 0 PROVE T[1].at = 1 /\ No(T[1].of) = n + 1
    BY DEF Starting
  <2>1. m \in 1 .. Len(S) - 1 /\ T[1] = S[m + 1]
    BY <1>1, <1>2
  <2> QED BY <1>3, <1>5, <2>1 DEF Rising
<1>10. ASSUME NEW l \in Nat, Whole(S, n, l) PROVE Whole(T, n + 1, l)
  <2>1. S[Len(S)].at = FrameLen(S[Len(S)].of) /\ No(S[Len(S)].of) + 1 = l
    BY <1>10 DEF Whole
  <2>2. CASE Len(T) = 0
    <3>1. Len(S) = m
      BY <1>1, <2>2
    <3> QED BY <1>5, <2>1, <2>2, <3>1 DEF Whole
  <2>3. CASE Len(T) # 0
    <3>1. Len(T) \in 1 .. Len(T) /\ Len(T) + m = Len(S)
      BY <1>1, <2>3
    <3>2. T[Len(T)] = S[Len(S)]
      BY <1>2, <3>1
    <3> QED BY <2>1, <2>3, <3>2 DEF Whole
  <2> QED BY <2>2, <2>3
<1> QED BY <1>6, <1>7, <1>8, <1>9, <1>10 DEF Carries

\* The next frame is put at the end of the stream.
LEMMA FrameAdded ==
    ASSUME NEW d \in End, NEW s, NEW n \in Nat, NEW l \in 0 .. Len(s), NEW S, NEW T,
           Numbered(d, s), Carries(d, s, S, n), Whole(S, n, l),
           NEW w, w = Nth(d, s, l), Extends(T, S, w)
    PROVE  Carries(d, s, T, n) /\ Whole(T, n, l + 1)
<1> USE DEF Extends, Begins
<1> DEFINE m == FrameLen(w)
<1>1. m \in Nat \ {0} /\ No(w) = l /\ Len(T) \in Nat \ {0} /\ Len(s) \in Nat
  BY NthForm, Limits, LenProperties DEF Numbered
<1>2. \A i \in 1 .. Len(T) : /\ ~ i <= Len(S) => i - Len(S) \in 1 .. m
                             /\ T[i] = IF i <= Len(S) THEN S[i]
                                       ELSE [of |-> w, at |-> i - Len(S)]
  <2> SUFFICES ASSUME NEW i \in 1 .. Len(T)
               PROVE /\ ~ i <= Len(S) => i - Len(S) \in 1 .. m
                     /\ T[i] = IF i <= Len(S) THEN S[i]
                               ELSE [of |-> w, at |-> i - Len(S)]
    OBVIOUS
  <2>1. CASE i <= Len(S)
    BY <2>1
  <2>2. CASE ~ i <= Len(S)
    <3>1. i - Len(S) \in 1 .. m /\ Len(S) + (i - Len(S)) = i
      BY <1>1, <2>2
    <3> QED BY <2>2, <3>1
  <2> QED BY <2>1, <2>2
<1>3. /\ \A i \in 1 .. Len(S) : /\ FrameLen(S[i].of) \in Nat
                                 /\ S[i].at \in 1 .. FrameLen(S[i].of)
                                 /\ No(S[i].of) \in Nat
      /\ Block(S) /\ Rising(S) /\ Starting(S, n)
  BY CarriesForm DEF Carries
<1> HIDE DEF m
<1>4. \A i \in 1 .. Len(T) : Genuine(d, s, T[i])
  <2> SUFFICES ASSUME NEW i \in 1 .. Len(T) PROVE Genuine(d, s, T[i])
    OBVIOUS
  <2>1. CASE i <= Len(S)
    BY <1>2, <2>1 DEF Carries
  <2>2. CASE ~ i <= Len(S)
    BY <1>2, <2>2 DEF Genuine, m
  <2> QED BY <2>1, <2>2
<1>5. Block(T)
  <2> SUFFICES ASSUME NEW i \in 1 .. Len(T), NEW k \in 1 .. FrameLen(T[i].of),
                      i - T[i].at + k \in 1 .. Len(T)
               PROVE  T[i - T[i].at + k] = [of |-> T[i].of, at |-> k]
    BY DEF Block
  <2> DEFINE j == i - T[i].at + k
  <2>1. CASE i <= Len(S)
    <3>1. i \in 1 .. Len(S) /\ T[i] = S[i]
      BY <1>2, <2>1
    <3>2. j <= Len(S)
      \* The frame of byte i is all there: the last byte of S is in it, or after it.
      <4> SUFFICES ASSUME ~ j <= Len(S) PROVE FALSE
        OBVIOUS
      <4> DEFINE L == Len(S)
                 x == L - i + S[i].at
      <4>1. /\ S[i].at \in Nat /\ S[i].at > 0 /\ FrameLen(S[i].of) \in Nat
            /\ k \in 1 .. FrameLen(S[i].of) /\ j = i - S[i].at + k
            /\ L \in Nat /\ i <= L /\ i \in Nat
        <5>1. FrameLen(S[i].of) \in Nat /\ S[i].at \in 1 .. FrameLen(S[i].of)
          BY <1>3, <3>1, Zenon
        <5>2. k \in 1 .. FrameLen(S[i].of) /\ j = i - S[i].at + k
          BY <3>1, Zenon
        <5> QED BY <3>1, <5>1, <5>2
      <4>2. x \in 1 .. FrameLen(S[i].of) /\ i - S[i].at + x = L /\ x < k
        <5> DEFINE a == S[i].at
                   n1 == FrameLen(S[i].of)
        <5>1. /\ ~ i - a + k <= L /\ a \in Nat /\ a > 0 /\ n1 \in Nat
              /\ k \in 1 .. n1 /\ L \in Nat /\ i <= L /\ i \in Nat
          BY <4>1
        <5> HIDE DEF a, n1, L
        <5>2. L - i + a \in 1 .. n1 /\ i - a + (L - i + a) = L /\ L - i + a < k
          BY <5>1, LastPlace
        <5> QED BY <5>2 DEF a, n1
      <4> HIDE DEF x
      <4>3. S[L] = [of |-> S[i].of, at |-> x]
        <5>1. L \in 1 .. Len(S)
          BY <4>1, <3>1
        <5>2. S[i - S[i].at + x] = [of |-> S[i].of, at |-> x]
          BY <1>3, <3>1, <4>2, <5>1 DEF Block
        <5> QED BY <4>2, <5>2
      <4>4. S[L].at = FrameLen(S[L].of)
        BY <3>1 DEF Whole
      <4> QED BY <4>1, <4>2, <4>3, <4>4
    <3>3. j \in 1 .. Len(S) /\ T[j] = S[j]
      <4>1. j \in 1 .. Len(T)
        OBVIOUS
      <4> HIDE DEF j
      <4>2. j \in 1 .. Len(S)
        BY <3>2, <4>1
      <4> QED BY <1>2, <3>2, <4>1, <4>2
    <3> QED BY <1>3, <3>1, <3>3 DEF Block
  <2>2. CASE ~ i <= Len(S)
    <3>1. T[i] = [of |-> w, at |-> i - Len(S)] /\ i - Len(S) \in 1 .. m
      BY <1>2, <2>2
    <3>2. k \in 1 .. m /\ j = Len(S) + k
      BY <1>1, <3>1 DEF m
    <3> QED BY <1>1, <3>1, <3>2 DEF m
  <2> QED BY <2>1, <2>2
<1>6. Rising(T)
  <2> SUFFICES ASSUME NEW i \in 1 .. Len(T) - 1, T[i].at = FrameLen(T[i].of)
               PROVE  T[i + 1].at = 1 /\ No(T[i + 1].of) = No(T[i].of) + 1
    BY DEF Rising
  <2>1. CASE i < Len(S)
    <3>1. i \in 1 .. Len(S) - 1 /\ T[i] = S[i] /\ T[i + 1] = S[i + 1]
      BY <1>2, <2>1
    <3> QED BY <1>3, <3>1 DEF Rising
  <2>2. CASE i = Len(S)
    <3>1. T[i] = S[Len(S)] /\ Len(S) # 0
      BY <1>2, <2>2
    <3>2. No(T[i].of) + 1 = l
      BY <3>1 DEF Whole
    <3>3. T[i + 1] = [of |-> w, at |-> 1]
      BY <1>1, <2>2 DEF m
    <3> QED BY <1>1, <3>2, <3>3
  <2>3. CASE i > Len(S)
    <3>1. T[i] = [of |-> w, at |-> i - Len(S)] /\ i - Len(S) < m
      <4>1. i \in 1 .. Len(T) /\ ~ i <= Len(S)
        BY <2>3
      <4>2. T[i] = [of |-> w, at |-> i - Len(S)]
        BY <1>2, <4>1
      <4> QED BY <1>1, <4>2 DEF m
    <3>2. T[i].at < FrameLen(T[i].of)
      BY <3>1 DEF m
    <3>3. T[i].at \in Nat /\ FrameLen(T[i].of) \in Nat
      BY <1>1, <2>3, <3>1 DEF m
    <3> QED BY <3>2, <3>3
  <2> QED BY <2>1, <2>2, <2>3
<1>7. Starting(T, n)
  <2>1. CASE Len(S) = 0
    <3>1. T[1] = [of |-> w, at |-> 1] /\ n = l
      BY <1>1, <2>1 DEF m, Whole
    <3> QED BY <1>1, <3>1 DEF Starting
  <2>2. CASE Len(S) # 0
    <3>1. T[1] = S[1]
      BY <2>2
    <3> QED BY <1>3, <2>2, <3>1 DEF Starting
  <2> QED BY <2>1, <2>2
<1>8. Whole(T, n, l + 1)
  <2>1. T[Len(T)] = [of |-> w, at |-> m]
    BY <1>1 DEF m
  <2> QED BY <1>1, <2>1 DEF Whole, m
<1> QED BY <1>4, <1>5, <1>6, <1>7, <1>8 DEF Carries
-----------------------------------------------------------------------------
(* Lemmas about what is read, on its way and still to be written: one stream *)

\* Its length, and where its bytes are.
LEMMA Joined ==
    ASSUME NEW X, NEW B \in Seq(X), NEW F \in Seq(X), NEW R \in Seq(X)
    PROVE  /\ B \o F \o R \in Seq(X)
           /\ Len(B \o F \o R) = Len(B) + Len(F) + Len(R)
           /\ \A i \in 1 .. Len(B) + Len(F) + Len(R) :
                 (B \o F \o R)[i] = IF i <= Len(B) THEN B[i]
                                   ELSE IF i <= Len(B) + Len(F) THEN F[i - Len(B)]
                                   ELSE R[i - (Len(B) + Len(F))]
<1>1. Len(B) \in Nat /\ Len(F) \in Nat /\ Len(R) \in Nat
  BY LenProperties
<1>2. /\ B \o F \in Seq(X) /\ Len(B \o F) = Len(B) + Len(F)
      /\ \A i \in 1 .. Len(B) + Len(F) :
            (B \o F)[i] = IF i <= Len(B) THEN B[i] ELSE F[i - Len(B)]
  BY ConcatProperties
<1> DEFINE C == B \o F
<1>3. /\ C \in Seq(X) /\ Len(C) = Len(B) + Len(F)
      /\ \A i \in 1 .. Len(B) + Len(F) :
            C[i] = IF i <= Len(B) THEN B[i] ELSE F[i - Len(B)]
  BY <1>2
<1> HIDE DEF C
<1>4. /\ C \o R \in Seq(X) /\ Len(C \o R) = Len(C) + Len(R)
      /\ \A i \in 1 .. Len(C) + Len(R) :
            (C \o R)[i] = IF i <= Len(C) THEN C[i] ELSE R[i - Len(C)]
  <2>1. C \in Seq(X) /\ R \in Seq(X)
    BY <1>3
  <2> QED BY <2>1, ConcatProperties, Zenon
<1>5. \A i \in 1 .. Len(B) + Len(F) + Len(R) :
         (C \o R)[i] = IF i <= Len(B) THEN B[i]
                       ELSE IF i <= Len(B) + Len(F) THEN F[i - Len(B)]
                       ELSE R[i - (Len(B) + Len(F))]
  <2> SUFFICES ASSUME NEW i \in 1 .. Len(B) + Len(F) + Len(R)
               PROVE (C \o R)[i] = IF i <= Len(B) THEN B[i]
                       ELSE IF i <= Len(B) + Len(F) THEN F[i - Len(B)]
                       ELSE R[i - (Len(B) + Len(F))]
    OBVIOUS
  <2>1. (C \o R)[i] = IF i <= Len(B) + Len(F) THEN C[i] ELSE R[i - (Len(B) + Len(F))]
    BY <1>3, <1>4
  <2>2. i <= Len(B) => i <= Len(B) + Len(F)
    BY <1>1
  <2>3. i <= Len(B) + Len(F) => C[i] = IF i <= Len(B) THEN B[i] ELSE F[i - Len(B)]
    BY <1>1, <1>3
  <2> QED BY <2>1, <2>2, <2>3
<1> QED BY <1>1, <1>3, <1>4, <1>5 DEF C

\* The two parts of a sequence.
LEMMA Parts ==
    ASSUME NEW X, NEW R \in Seq(X), NEW k \in 0 .. Len(R)
    PROVE  /\ SubSeq(R, 1, k) \in Seq(X) /\ Len(SubSeq(R, 1, k)) = k
           /\ \A i \in 1 .. k : SubSeq(R, 1, k)[i] = R[i]
           /\ SubSeq(R, k + 1, Len(R)) \in Seq(X)
           /\ Len(SubSeq(R, k + 1, Len(R))) = Len(R) - k
           /\ \A i \in 1 .. Len(R) - k : SubSeq(R, k + 1, Len(R))[i] = R[i + k]
           /\ SubSeq(R, 1, k) \o SubSeq(R, k + 1, Len(R)) = R
<1>1. Len(R) \in Nat /\ \A i \in 1 .. Len(R) : R[i] \in X
  BY LenProperties, ElementOfSeq
<1>2. /\ SubSeq(R, 1, k) \in Seq(X) /\ Len(SubSeq(R, 1, k)) = k
      /\ \A i \in 1 .. k : SubSeq(R, 1, k)[i] = R[i]
  <2>1. \A i \in 1 .. k : R[i] \in X
    BY <1>1
  <2>2. /\ SubSeq(R, 1, k) \in Seq(X)
        /\ Len(SubSeq(R, 1, k)) = IF 1 <= k THEN k - 1 + 1 ELSE 0
        /\ \A i \in 1 .. k - 1 + 1 : SubSeq(R, 1, k)[i] = R[1 + i - 1]
    BY <1>1, <2>1, SubSeqProperties
  <2>3. k - 1 + 1 = k /\ \A i \in 1 .. k : 1 + i - 1 = i
    BY <1>1
  <2> QED BY <1>1, <2>2, <2>3
<1>3. /\ SubSeq(R, k + 1, Len(R)) \in Seq(X)
      /\ Len(SubSeq(R, k + 1, Len(R))) = Len(R) - k
      /\ \A i \in 1 .. Len(R) - k : SubSeq(R, k + 1, Len(R))[i] = R[i + k]
  <2>1. \A i \in k + 1 .. Len(R) : R[i] \in X
    BY <1>1
  <2>2. k + 1 \in Int /\ Len(R) \in Int
    BY <1>1
  <2>3. /\ SubSeq(R, k + 1, Len(R)) \in Seq(X)
        /\ Len(SubSeq(R, k + 1, Len(R))) =
              IF k + 1 <= Len(R) THEN Len(R) - (k + 1) + 1 ELSE 0
        /\ \A i \in 1 .. Len(R) - (k + 1) + 1 :
              SubSeq(R, k + 1, Len(R))[i] = R[(k + 1) + i - 1]
    BY <2>1, <2>2, SubSeqProperties
  <2>4. /\ Len(R) - (k + 1) + 1 = Len(R) - k /\ \A i \in Int : (k + 1) + i - 1 = i + k
        /\ ~ k + 1 <= Len(R) => Len(R) - k = 0
    BY <1>1
  <2>5. ASSUME NEW i \in 1 .. Len(R) - k PROVE SubSeq(R, k + 1, Len(R))[i] = R[i + k]
    <3>1. i \in Int /\ i \in 1 .. Len(R) - (k + 1) + 1
      <4> DEFINE n == Len(R)
      <4>1. n \in Nat /\ k \in Nat /\ i \in 1 .. n - k
        BY <1>1
      <4> HIDE DEF n
      <4>2. i \in Int /\ i \in 1 .. n - (k + 1) + 1
        BY <4>1
      <4> QED BY <4>2 DEF n
    <3>2. SubSeq(R, k + 1, Len(R))[i] = R[(k + 1) + i - 1]
      BY <2>3, <3>1, Zenon
    <3> QED BY <2>4, <3>1, <3>2, Zenon
  <2>6. Len(SubSeq(R, k + 1, Len(R))) = Len(R) - k
    BY <2>3, <2>4
  <2> QED BY <2>3, <2>5, <2>6, Zenon
<1>4. SubSeq(R, 1, k) \o SubSeq(R, k + 1, Len(R)) = R
  <2>1. 1 \in 1 .. Len(R) + 1 /\ k \in 1 - 1 .. Len(R) /\ Len(R) \in k .. Len(R)
    BY <1>1
  <2>2. SubSeq(R, 1, k) \o SubSeq(R, k + 1, Len(R)) = SubSeq(R, 1, Len(R))
    BY <2>1, ConcatAdjacentSubSeq
  <2> QED BY <2>2, SubSeqFull
<1> QED BY <1>2, <1>3, <1>4

\* One sequence behind another, as the provers had better see it.
Cat(s, t) == s \o t

LEMMA CatSeq ==
    ASSUME NEW X, NEW s \in Seq(X), NEW t \in Seq(X)
    PROVE  Cat(s, t) \in Seq(X)
BY ConcatProperties DEF Cat

LEMMA CatAssociative ==
    ASSUME NEW X, NEW s \in Seq(X), NEW t \in Seq(X), NEW u \in Seq(X)
    PROVE  Cat(Cat(s, t), u) = Cat(s, Cat(t, u))
BY ConcatAssociative DEF Cat

\* Bytes that are written, and bytes that are read, stay where they are.
LEMMA Written ==
    ASSUME NEW X, NEW B \in Seq(X), NEW F \in Seq(X), NEW R \in Seq(X),
           NEW k \in 0 .. Len(R)
    PROVE  Cat(Cat(B, Cat(F, SubSeq(R, 1, k))), SubSeq(R, k + 1, Len(R))) = Cat(Cat(B, F), R)
<1> DEFINE P1 == SubSeq(R, 1, k)
           P2 == SubSeq(R, k + 1, Len(R))
<1>1. P1 \in Seq(X) /\ P2 \in Seq(X)
  BY Parts
<1>2. P1 \o P2 = R
  BY Parts
<1> HIDE DEF P1, P2
<1>3. Cat(Cat(B, Cat(F, P1)), P2) = Cat(Cat(B, F), Cat(P1, P2))
  BY <1>1, CatAssociative, CatSeq
<1> QED BY <1>2, <1>3 DEF P1, P2, Cat

LEMMA HasRead ==
    ASSUME NEW X, NEW B \in Seq(X), NEW F \in Seq(X), NEW R, NEW k \in 0 .. Len(F)
    PROVE  Cat(Cat(Cat(B, SubSeq(F, 1, k)), SubSeq(F, k + 1, Len(F))), R) = Cat(Cat(B, F), R)
<1> DEFINE P1 == SubSeq(F, 1, k)
           P2 == SubSeq(F, k + 1, Len(F))
<1>1. P1 \in Seq(X) /\ P2 \in Seq(X)
  BY Parts
<1>2. P1 \o P2 = F
  BY Parts
<1> HIDE DEF P1, P2
<1>3. Cat(Cat(B, P1), P2) = Cat(B, Cat(P1, P2))
  BY <1>1, CatAssociative
<1> QED BY <1>2, <1>3 DEF P1, P2, Cat

\* Bytes that are lost leave the beginning of the stream.
LEMMA LostPart ==
    ASSUME NEW X, NEW B \in Seq(X), NEW F \in Seq(X), NEW R \in Seq(X), NEW P1 \in Seq(X),
           Begins(P1, F)
    PROVE  Begins(B \o P1 \o <<>>, B \o F \o R)
<1> USE DEF Begins
<1> DEFINE C == B \o P1
           T == C \o <<>>
           S == B \o F \o R
<1>1. C \in Seq(X) /\ Len(C) = Len(B) + Len(P1)
  BY ConcatProperties
<1>2. \A i \in 1 .. Len(B) + Len(P1) : C[i] = IF i <= Len(B) THEN B[i] ELSE P1[i - Len(B)]
  BY ConcatProperties
<1>3. Len(B) \in Nat /\ Len(F) \in Nat /\ Len(R) \in Nat /\ Len(P1) \in Nat
  BY LenProperties
<1> HIDE DEF C
<1>4. T = C
  BY <1>1, ConcatEmptySeq
<1>5. /\ Len(S) = Len(B) + Len(F) + Len(R)
      /\ \A i \in 1 .. Len(B) + Len(F) + Len(R) :
            S[i] = IF i <= Len(B) THEN B[i] ELSE IF i <= Len(B) + Len(F) THEN F[i - Len(B)]
                   ELSE R[i - (Len(B) + Len(F))]
  BY Joined
<1> HIDE DEF T, S
<1>6. Len(T) \in 0 .. Len(S) /\ Len(T) = Len(B) + Len(P1)
  BY <1>1, <1>3, <1>4, <1>5
<1>7. ASSUME NEW i \in 1 .. Len(T) PROVE T[i] = S[i]
  <2>1. /\ i \in 1 .. Len(B) + Len(P1) /\ i \in 1 .. Len(B) + Len(F) + Len(R)
        /\ i <= Len(B) + Len(P1) /\ i <= Len(B) + Len(F)
    BY <1>3, <1>6
  <2>2. CASE i <= Len(B)
    BY <1>2, <1>4, <1>5, <2>1, <2>2
  <2>3. CASE ~ i <= Len(B)
    <3>1. T[i] = P1[i - Len(B)] /\ S[i] = F[i - Len(B)]
      BY <1>2, <1>4, <1>5, <2>1, <2>3
    <3>2. i - Len(B) \in 1 .. Len(P1)
      BY <1>3, <2>1, <2>3
    <3> QED BY <3>1, <3>2
  <2> QED BY <2>2, <2>3
<1> QED BY <1>6, <1>7 DEF T, S, C

LEMMA Lost ==
    ASSUME NEW X, NEW B \in Seq(X), NEW F \in Seq(X), NEW R \in Seq(X),
           NEW k \in 0 .. Len(F)
    PROVE  Begins(B \o SubSeq(F, 1, k) \o <<>>, B \o F \o R)
<1>1. SubSeq(F, 1, k) \in Seq(X) /\ Begins(SubSeq(F, 1, k), F)
  BY Parts, LenProperties DEF Begins
<1> QED BY <1>1, LostPart

\* What is taken off the buffer is taken off the stream.
LEMMA TakenOff ==
    ASSUME NEW X, NEW B \in Seq(X), NEW F \in Seq(X), NEW R \in Seq(X),
           NEW m \in 0 .. Len(B)
    PROVE  Follows(SubSeq(B, m + 1, Len(B)) \o F \o R, B \o F \o R, m)
<1> DEFINE P2 == SubSeq(B, m + 1, Len(B))
           T == P2 \o F \o R
           S == B \o F \o R
<1>1. /\ P2 \in Seq(X) /\ Len(P2) = Len(B) - m
      /\ \A i \in 1 .. Len(B) - m : P2[i] = B[i + m]
  BY Parts
<1>2. Len(B) \in Nat /\ Len(F) \in Nat /\ Len(R) \in Nat
  BY LenProperties
<1> HIDE DEF P2
<1>3. /\ Len(T) = Len(P2) + Len(F) + Len(R)
      /\ \A i \in 1 .. Len(P2) + Len(F) + Len(R) :
            T[i] = IF i <= Len(P2) THEN P2[i]
                   ELSE IF i <= Len(P2) + Len(F) THEN F[i - Len(P2)]
                   ELSE R[i - (Len(P2) + Len(F))]
  <2>1. P2 \in Seq(X)
    BY <1>1
  <2> QED BY <2>1, Joined
<1>4. /\ Len(S) = Len(B) + Len(F) + Len(R)
      /\ \A i \in 1 .. Len(B) + Len(F) + Len(R) :
            S[i] = IF i <= Len(B) THEN B[i] ELSE IF i <= Len(B) + Len(F) THEN F[i - Len(B)]
                   ELSE R[i - (Len(B) + Len(F))]
  BY Joined
<1> HIDE DEF T, S
<1>5. Len(S) \in Nat /\ m <= Len(S) /\ Len(T) = Len(S) - m
  BY <1>1, <1>2, <1>3, <1>4
<1>6. ASSUME NEW i \in 1 .. Len(T) PROVE T[i] = S[i + m]
  <2>1. /\ i \in 1 .. Len(P2) + Len(F) + Len(R) /\ i + m \in 1 .. Len(B) + Len(F) + Len(R)
        /\ i <= Len(P2) <=> i + m <= Len(B)
        /\ i <= Len(P2) + Len(F) <=> i + m <= Len(B) + Len(F)
        /\ i - Len(P2) = (i + m) - Len(B)
        /\ i - (Len(P2) + Len(F)) = (i + m) - (Len(B) + Len(F))
    BY <1>1, <1>2, <1>3
  <2>2. CASE i <= Len(P2)
    <3>1. T[i] = P2[i] /\ S[i + m] = B[i + m]
      BY <1>3, <1>4, <2>1, <2>2
    <3>2. i \in 1 .. Len(B) - m
      BY <1>1, <1>2, <2>2
    <3> QED BY <1>1, <3>1, <3>2
  <2>3. CASE ~ i <= Len(P2)
    BY <1>3, <1>4, <2>1, <2>3
  <2> QED BY <2>2, <2>3
<1>7. Follows(T, S, m)
  BY <1>5, <1>6 DEF Follows
<1> QED BY <1>7 DEF P2, T, S

\* What is to be written comes behind all that was written.
LEMMA Put ==
    ASSUME NEW X, NEW B \in Seq(X), NEW F \in Seq(X), NEW w, FrameLen(w) \in Nat,
           Encoded(w) \in Seq(X)
    PROVE  Extends(B \o F \o Encoded(w), B \o F \o <<>>, w)
<1> DEFINE C == B \o F
           R == Encoded(w)
<1>1. C \in Seq(X) /\ Len(C) \in Nat /\ R \in Seq(X)
  BY ConcatProperties, LenProperties
<1>2. Len(R) = FrameLen(w) /\ \A i \in 1 .. FrameLen(w) : R[i] = [of |-> w, at |-> i]
  BY DEF Encoded, FrameLen
<1> HIDE DEF C, R
<1>3. C \o <<>> = C
  BY <1>1, ConcatEmptySeq
<1>4. /\ Len(C \o R) = Len(C) + Len(R)
      /\ \A i \in 1 .. Len(C) + Len(R) :
            (C \o R)[i] = IF i <= Len(C) THEN C[i] ELSE R[i - Len(C)]
  BY <1>1, ConcatProperties
<1>5. Begins(C, C \o R)
  BY <1>1, <1>2, <1>4 DEF Begins
<1>6. ASSUME NEW i \in 1 .. FrameLen(w) PROVE (C \o R)[Len(C) + i] = [of |-> w, at |-> i]
  <2>1. /\ Len(C) + i \in 1 .. Len(C) + Len(R) /\ ~ Len(C) + i <= Len(C)
        /\ (Len(C) + i) - Len(C) = i
    BY <1>1, <1>2
  <2> QED BY <1>2, <1>4, <2>1
<1>7. Extends(C \o R, C, w)
  BY <1>2, <1>4, <1>5, <1>6 DEF Extends
<1> QED BY <1>3, <1>7 DEF C, R
-----------------------------------------------------------------------------
(* The invariant *)

\* Everything a byte can belong to.
Wires == {Handshake("init"), Handshake("resp")}
         \cup {WireFrame(f, f.size, m) : f \in Frame, m \in Nat}

WireByte == [of : Wires \cup Methods \cup Replies, at : Nat]

Stages == {"greet", "method", "chosen", "reply", "replied", "drain", "tunnel",
           "failed"}

Reasons == {"open", "quit", "lost", "malformed", "refused", "oversize", "no_tunnel"}

Types ==
    /\ phase \in [End -> {"hello", "waiting", "up", "closed"}]
    /\ why \in [End -> Reasons]
    /\ rest \in [End -> Seq(WireByte)] /\ flight \in [End -> Seq(WireByte)]
    /\ buf \in [End -> Seq(WireByte)]
    /\ nout \in [End -> Nat] /\ nin \in [End -> Nat]
    /\ sent \in [End -> Seq(Frame)] /\ got \in [End -> Seq(Frame)]
    /\ cut \in BOOLEAN /\ stage \in Stages

\* What end e has sent and got, and how it counts nonces.
Counted(e) ==
    /\ Numbered(e, sent[e]) /\ Begins(got[e], sent[Other(e)])
    /\ Len(sent[e]) <= MaxFrames[e]
    /\ nout[e] = Nonces(sent[e], Len(sent[e]))
    /\ nin[e] = Nonces(sent[Other(e)], Len(got[e]))
    /\ phase[e] \in {"hello", "waiting"} => Len(got[e]) = 0 /\ Len(sent[e]) = 0
    /\ phase[e] = "hello" => e = Client /\ rest[e] = <<>>

\* The bytes for e; what the network has cut off from them is no longer theirs.
Stream(e) == buf[e] \o flight[e] \o (IF cut THEN <<>> ELSE rest[Other(e)])

\* The number of the frame that e reads next, and of the one d writes next.
NextIn(e) == IF phase[e] = "up" THEN Len(got[e]) + 1 ELSE 0
NextOut(d) == IF phase[d] = "up" \/ (d = Client /\ phase[d] = "waiting")
              THEN Len(sent[d]) + 1 ELSE 0

\* To an end that still reads, the frames of the other one come in order; as long
\* as that one writes, they are whole.
Flowing(e) ==
    LET d == Other(e)
    IN  Ready(e) /\ phase[e] # "closed" =>
           /\ Carries(d, sent[d], Stream(e), NextIn(e))
           /\ ~ cut /\ phase[d] # "closed" => Whole(Stream(e), NextIn(e), NextOut(d))

\* Before there is a tunnel nothing is on the connection but one answer of the
\* proxy, of which no byte is left when the tunnel begins.
Answered(F, r, n) == Len(F) <= n /\ \A i \in 1 .. Len(F) : F[i].of = r

Coming(F, at) ==
    /\ at = "chosen" => Len(F) <= MethodLen
    /\ at = "replied" => \E r \in Replies : Answered(F, r, HeadLen + BoundLen(r))
    /\ at = "drain" => \E r \in Replies : Answered(F, r, BoundLen(r))
    /\ at \in {"greet", "method", "reply", "failed"} => F = <<>>

Tunnelling ==
    stage # "tunnel" =>
       /\ phase[Client] \in {"hello", "closed"} /\ phase[Host] \in {"waiting", "closed"}
       /\ \A e \in End : rest[e] = <<>> /\ buf[e] = <<>>
       /\ flight[Host] = <<>> /\ Coming(flight[Client], stage)

WireInv == /\ Types /\ Tunnelling
           /\ \A e \in End : Counted(e) /\ Flowing(e)
-----------------------------------------------------------------------------
(* Lemmas about the ends *)

LEMMA Ends ==
    /\ Client \in End /\ Host \in End /\ Client # Host
    /\ \A e \in End : /\ Other(e) \in End /\ Other(e) # e /\ Other(Other(e)) = e
                     /\ \A x \in End : x = e \/ x = Other(e)
    /\ Other(Client) = Host /\ Other(Host) = Client
BY WireAssumption DEF End, Other

\* What a frame is made of can be sent.
LEMMA EncodedBytes ==
    ASSUME NEW w \in Wires, FrameLen(w) \in Nat
    PROVE  Encoded(w) \in Seq(WireByte)
<1>1. Encoded(w) \in [1 .. FrameLen(w) -> WireByte]
  BY DEF Encoded, FrameLen, WireByte
<1> QED BY <1>1, SeqDef

LEMMA NthWire ==
    ASSUME NEW d \in End, NEW s, Numbered(d, s), NEW k \in 0 .. Len(s)
    PROVE  Nth(d, s, k) \in Wires
<1>1. CASE k = 0
  BY <1>1 DEF Nth, Wires
<1>2. CASE k # 0
  <2>1. k \in 1 .. Len(s) /\ k - 1 \in Nat
    BY <1>2
  <2>2. s[k] \in Frame /\ Nonces(s, k - 1) \in Nat
    BY <2>1, ElementOfSeq, NoncesNat DEF Numbered
  <2> QED BY <1>2, <2>2 DEF Nth, Wires
<1> QED BY <1>1, <1>2

\* The rest of a stream after a step that leaves it as it is, and after one that
\* takes its end away.
LEMMA FlowsOn ==
    ASSUME NEW x \in End, Flowing(x), Stream(x)' = Stream(x),
           UNCHANGED sent[Other(x)],
           Ready(x)' /\ phase'[x] # "closed"
           => Ready(x) /\ phase[x] # "closed" /\ UNCHANGED NextIn(x),
           ~ cut' /\ phase'[Other(x)] # "closed"
           => ~ cut /\ phase[Other(x)] # "closed" /\ UNCHANGED NextOut(Other(x))
    PROVE  Flowing(x)'
BY DEF Flowing

LEMMA FlowsShort ==
    ASSUME NEW x \in End, Flowing(x), Numbered(Other(x), sent[Other(x)]),
           Begins(Stream(x)', Stream(x)), UNCHANGED sent[Other(x)],
           Ready(x)' /\ phase'[x] # "closed"
           => Ready(x) /\ phase[x] # "closed" /\ UNCHANGED NextIn(x),
           cut' \/ phase'[Other(x)] = "closed"
    PROVE  Flowing(x)'
<1>1. Other(x) \in End
  BY Ends
<1> QED BY <1>1, CarriesPrefix DEF Flowing
\* What follows the head of a reply has a length.
LEMMA BoundNat == \A r \in Replies : BoundLen(r) \in Nat /\ HeadLen + BoundLen(r) \in Nat
<1> SUFFICES ASSUME NEW r \in Replies PROVE BoundLen(r) \in Nat /\ HeadLen + BoundLen(r) \in Nat
  OBVIOUS
<1>1. r.atyp \in {"ipv4", "ipv6", "unknown", "domain"} /\ r.name \in Nat
  <2> DEFINE A == [kind : {"reply"}, ok : BOOLEAN, atyp : {"ipv4", "ipv6", "unknown"},
                   name : {0}]
             B == [kind : {"reply"}, ok : {TRUE}, atyp : {"domain"}, name : Names]
  <2>1. r \in A => r.atyp \in {"ipv4", "ipv6", "unknown"} /\ r.name = 0
    OBVIOUS
  <2>2. r \in B => r.atyp = "domain" /\ r.name \in Names
    OBVIOUS
  <2>3. r \in A \/ r \in B
    BY Zenon DEF Replies
  <2>4. \/ r.atyp \in {"ipv4", "ipv6", "unknown"} /\ r.name = 0
        \/ r.atyp = "domain" /\ r.name \in Names
    BY <2>1, <2>2, <2>3, Zenon
  <2>5. r.name \in Nat
    <3>1. ASSUME r.name = 0 PROVE r.name \in Nat
      BY <3>1
    <3>2. ASSUME r.name \in Names PROVE r.name \in Nat
      BY <3>2, TunnelAssumption
    <3> QED BY <2>4, <3>1, <3>2, Zenon
  <2>6. r.atyp \in {"ipv4", "ipv6", "unknown", "domain"}
    BY <2>4
  <2> HIDE DEF A, B
  <2> QED BY <2>5, <2>6
<1>2. BoundLen(r) \in Nat
  <2>1. CASE r.atyp = "ipv4"
    BY <2>1 DEF BoundLen
  <2>2. CASE r.atyp = "ipv6"
    BY <2>2 DEF BoundLen
  <2>3. CASE r.atyp = "domain"
    BY <1>1, <2>3 DEF BoundLen
  <2>4. CASE r.atyp = "unknown"
    BY <2>4 DEF BoundLen
  <2> QED BY <1>1, <2>1, <2>2, <2>3, <2>4
<1> QED BY <1>2 DEF HeadLen

\* What is cut off from an answer is not missed.
LEMMA ComesShort ==
    ASSUME NEW F \in Seq(WireByte), NEW T, Begins(T, F), NEW at, Coming(F, at),
           T \in Seq(WireByte)
    PROVE  Coming(T, at)
<1>1. Len(F) \in Nat /\ Len(T) \in 0 .. Len(F) /\ \A i \in 1 .. Len(T) : T[i] = F[i]
  BY DEF Begins
<1>2. ASSUME NEW r \in Replies, NEW n \in Nat, Answered(F, r, n) PROVE Answered(T, r, n)
  <2>1. \A i \in 1 .. Len(T) : i \in 1 .. Len(F)
    BY <1>1
  <2> QED BY <1>1, <1>2, <2>1 DEF Answered
<1>3. at = "chosen" => Len(T) <= MethodLen
  BY <1>1 DEF Coming, MethodLen
<1>4. at = "replied" => \E r \in Replies : Answered(T, r, HeadLen + BoundLen(r))
  BY <1>2, BoundNat DEF Coming
<1>5. at = "drain" => \E r \in Replies : Answered(T, r, BoundLen(r))
  BY <1>2, BoundNat DEF Coming
<1>6. F = <<>> => T = <<>>
  BY <1>1, EmptySeq
<1> QED BY <1>3, <1>4, <1>5, <1>6 DEF Coming

\* An end counts on as long as nothing is sent and nothing is got.
LEMMA CountedOn ==
    ASSUME NEW x \in End, Counted(x), UNCHANGED <<sent, got, noise>>,
           phase'[x] \in {"hello", "waiting"} => phase[x] \in {"hello", "waiting"},
           phase'[x] = "hello" => phase[x] = "hello" /\ rest'[x] = <<>>
    PROVE  Counted(x)'
BY DEF Counted, noise
-----------------------------------------------------------------------------
(* The steps *)

\* An end closes: nothing of what it had written comes behind what is lost.
LEMMA ClosedInv ==
    ASSUME WireInv, NEW e \in End, NEW reason \in Reasons, Close(e, reason),
           \/ Ready(e) /\ UNCHANGED stage
           \/ e = Client /\ stage # "tunnel" /\ stage' = "failed"
    PROVE  WireInv'
<1> DEFINE x == Other(e)
<1>1. x \in End /\ x # e /\ Other(x) = e /\ \A y \in End : y = e \/ y = x
  BY Ends
<1> HIDE DEF x
<1>2. PICK k \in 0 .. Len(flight[x]) :
         flight' = [flight EXCEPT ![e] = <<>>, ![x] = SubSeq(@, 1, k)]
  BY DEF Close, x
<1>3. Types
  BY DEF WireInv
<1>4. /\ SubSeq(flight[x], 1, k) \in Seq(WireByte) /\ Len(SubSeq(flight[x], 1, k)) = k
      /\ \A i \in 1 .. k : SubSeq(flight[x], 1, k)[i] = flight[x][i]
  <2>1. flight[x] \in Seq(WireByte)
    BY <1>1, <1>3 DEF Types
  <2> QED BY <2>1, Parts
<1>5. /\ phase'[e] = "closed" /\ phase'[x] = phase[x]
      /\ rest'[e] = <<>> /\ rest'[x] = rest[x]
      /\ buf'[e] = <<>> /\ buf'[x] = buf[x]
      /\ flight'[e] = <<>> /\ flight'[x] = SubSeq(flight[x], 1, k)
      /\ UNCHANGED <<noise, cut, sent, got>>
  BY <1>1, <1>2, <1>3 DEF Types, Close
<1>6. Types'
  <2>1. stage' \in Stages
    BY <1>3 DEF Types, Stages
  <2>2. flight' \in [End -> Seq(WireByte)]
    BY <1>1, <1>2, <1>3, <1>4, EmptySeq DEF Types
  <2>3. /\ rest' \in [End -> Seq(WireByte)] /\ buf' \in [End -> Seq(WireByte)]
        /\ phase' \in [End -> {"hello", "waiting", "up", "closed"}]
        /\ why' \in [End -> Reasons]
    BY <1>3, EmptySeq DEF Types, Close, Reasons
  <2>4. UNCHANGED <<nout, nin, sent, got, cut>>
    BY DEF Close, noise
  <2> QED BY <1>3, <2>1, <2>2, <2>3, <2>4 DEF Types, Reasons
<1>7. Counted(e)' /\ Counted(x)'
  <2>1. Counted(e) /\ Counted(x)
    BY <1>1 DEF WireInv
  <2>2. phase[x] = "hello" => rest'[x] = <<>>
    BY <1>5, <2>1 DEF Counted
  <2> QED BY <1>1, <1>5, <2>1, <2>2, CountedOn
<1>8. Flowing(e)' /\ Flowing(x)'
  <2>1. Flowing(e)'
    BY <1>5 DEF Flowing
  <2>2. Begins(Stream(x)', Stream(x))
    <3> DEFINE R == IF cut THEN <<>> ELSE rest[e]
    <3>1. buf[x] \in Seq(WireByte) /\ flight[x] \in Seq(WireByte) /\ R \in Seq(WireByte)
      BY <1>1, <1>3, EmptySeq DEF Types
    <3>2. Stream(x) = buf[x] \o flight[x] \o R
      BY <1>1 DEF Stream
    <3>3. Stream(x)' = buf[x] \o SubSeq(flight[x], 1, k) \o <<>>
      BY <1>1, <1>5 DEF Stream
    <3> HIDE DEF R
    <3> QED BY <3>1, <3>2, <3>3, Lost
  <2>3. Ready(x)' => Ready(x)
    BY <1>1 DEF Ready
  <2>4. UNCHANGED NextIn(x) /\ UNCHANGED sent[Other(x)]
    BY <1>5 DEF NextIn
  <2>5. Flowing(x) /\ Numbered(Other(x), sent[Other(x)])
    BY <1>1 DEF WireInv, Counted
  <2>6. phase'[Other(x)] = "closed" /\ phase'[x] = phase[x]
    BY <1>1, <1>5
  <2>7. Flowing(x)'
    BY <1>1, <2>2, <2>3, <2>4, <2>5, <2>6, FlowsShort
  <2> QED BY <2>1, <2>7
<1>9. Tunnelling'
  <2> SUFFICES ASSUME stage' # "tunnel" PROVE Tunnelling'
    BY DEF Tunnelling
  <2>1. /\ stage # "tunnel" /\ Tunnelling
    BY DEF WireInv
  <2>2. /\ phase'[Client] \in {"hello", "closed"} /\ phase'[Host] \in {"waiting", "closed"}
        /\ \A y \in End : rest'[y] = <<>> /\ buf'[y] = <<>>
    BY <1>1, <1>5, <2>1, Ends DEF Tunnelling
  <2>3. CASE e = Client
    <3>1. stage' = "failed" /\ x = Host /\ flight[Host] = <<>>
      BY <2>1, <2>3, Ends DEF x, Ready, Tunnelling
    <3>2. flight'[Host] = <<>>
      <4>1. Len(flight[Host]) = 0
        BY <3>1
      <4>2. k = 0
        BY <3>1, <4>1
      <4>3. Len(flight'[Host]) = 0 /\ flight'[Host] \in Seq(WireByte)
        BY <1>4, <1>5, <3>1, <4>2
      <4> QED BY <4>3, EmptySeq
    <3>3. flight'[Client] = <<>>
      BY <1>5, <2>3
    <3>4. Coming(flight'[Client], stage')
      BY <3>1, <3>3 DEF Coming
    <3> QED BY <2>2, <3>1, <3>2, <3>4 DEF Tunnelling
  <2>4. CASE e = Host
    <3>1. stage' = stage /\ x = Client /\ flight'[Host] = <<>>
      BY <1>5, <2>4, Ends DEF x
    <3>2. flight[Client] \in Seq(WireByte)
      BY <1>3, Ends DEF Types
    <3>3. Begins(flight'[Client], flight[Client]) /\ flight'[Client] \in Seq(WireByte)
      BY <1>4, <1>5, <3>1, <3>2, LenProperties DEF Begins
    <3>4. Coming(flight'[Client], stage)
      BY <2>1, <3>2, <3>3, ComesShort DEF Tunnelling
    <3> QED BY <2>2, <3>1, <3>4 DEF Tunnelling
  <2> QED BY <2>3, <2>4, Ends DEF End
<1> QED BY <1>1, <1>6, <1>7, <1>8, <1>9 DEF WireInv
-----------------------------------------------------------------------------
\* At first nothing has been written.
LEMMA InitInv == TunnelInit => WireInv
<1> SUFFICES ASSUME TunnelInit PROVE WireInv
  OBVIOUS
<1> USE DEF TunnelInit, Init
<1>1. Types
  BY EmptySeq DEF Types, Stages, Reasons
<1>2. Tunnelling
  BY Ends, EmptySeq DEF Tunnelling, Coming
<1>3. ASSUME NEW e \in End PROVE Counted(e)
  <2>1. Other(e) \in End /\ MaxFrames[e] \in Nat
    BY Ends, WireAssumption DEF End
  <2>2. sent[e] = <<>> /\ got[e] = <<>> /\ nout[e] = 0 /\ nin[e] = 0 /\ sent[Other(e)] = <<>>
        /\ rest[e] = <<>>
    BY <2>1
  <2>3. Nonces(<<>>, 0) = 0
    BY NoncesNat
  <2>4. Len(<<>>) = 0
    BY EmptySeq
  <2>5. Numbered(e, <<>>) /\ Begins(<<>>, <<>>)
    BY <2>4, EmptySeq DEF Numbered, Begins
  <2>6. phase[e] = "hello" => e = Client
    OBVIOUS
  <2> QED BY <2>1, <2>2, <2>3, <2>4, <2>5, <2>6 DEF Counted
<1>4. ASSUME NEW e \in End PROVE Flowing(e)
  <2>1. Other(e) \in End
    BY Ends
  <2>2. Stream(e) = <<>> /\ Len(<<>>) = 0
    BY <2>1, EmptySeq DEF Stream
  <2>3. NextIn(e) = 0
    BY DEF NextIn
  <2>4. NextOut(Other(e)) = 0
    BY <2>1, Ends DEF NextOut
  <2>5. Carries(Other(e), sent[Other(e)], <<>>, 0) /\ Whole(<<>>, 0, 0)
    BY <2>2 DEF Carries, Block, Rising, Starting, Whole
  <2> QED BY <2>2, <2>3, <2>4, <2>5 DEF Flowing
<1> QED BY <1>1, <1>2, <1>3, <1>4 DEF WireInv

\* The network fails: both streams lose their end.
LEMMA CutInv == ASSUME WireInv, Cut, UNCHANGED stage PROVE WireInv'
<1>1. PICK k \in 0 .. Len(flight[Client]), l \in 0 .. Len(flight[Host]) :
         flight' = [e \in End |-> SubSeq(flight[e], 1, IF e = Client THEN k ELSE l)]
  BY DEF Cut
<1>2. Types /\ UNCHANGED <<phase, rest, buf, nout, nin, why, sent, got, stage>> /\ cut' = TRUE
  BY DEF Cut, WireInv, noise
<1>3. ASSUME NEW e \in End
      PROVE  \E j \in 0 .. Len(flight[e]) : flight'[e] = SubSeq(flight[e], 1, j)
  BY <1>1, Ends DEF End
<1>4. ASSUME NEW e \in End
      PROVE  /\ flight'[e] \in Seq(WireByte) /\ Len(flight'[e]) \in 0 .. Len(flight[e])
             /\ Len(flight[e]) \in Nat
             /\ \A i \in 1 .. Len(flight'[e]) :
                   i \in 1 .. Len(flight[e]) /\ flight'[e][i] = flight[e][i]
  <2>1. PICK j \in 0 .. Len(flight[e]) : flight'[e] = SubSeq(flight[e], 1, j)
    BY <1>3
  <2>2. flight[e] \in Seq(WireByte)
    BY <1>2 DEF Types
  <2>3. /\ flight'[e] \in Seq(WireByte) /\ Len(flight'[e]) = j
        /\ \A i \in 1 .. j : flight'[e][i] = flight[e][i]
    BY <2>1, <2>2, Parts
  <2>4. Len(flight[e]) \in Nat
    BY <2>2, LenProperties
  <2> QED BY <2>3, <2>4
<1>5. Types'
  <2>1. flight' \in [End -> Seq(WireByte)]
    BY <1>1, <1>4
  <2> QED BY <1>2, <2>1 DEF Types
<1>6. Tunnelling'
  <2> SUFFICES ASSUME stage # "tunnel" PROVE Tunnelling'
    BY <1>2 DEF Tunnelling
  <2>1. Tunnelling
    BY DEF WireInv
  <2>2. ASSUME NEW e \in End, flight[e] = <<>> PROVE flight'[e] = <<>>
    BY <1>4, <2>2, EmptySeq
  <2>3. /\ flight[Client] \in Seq(WireByte) /\ flight'[Client] \in Seq(WireByte)
        /\ Begins(flight'[Client], flight[Client])
    BY <1>2, <1>4, Ends DEF Begins, Types
  <2>4. Coming(flight'[Client], stage)
    BY <2>1, <2>3, ComesShort DEF Tunnelling
  <2>5. flight'[Host] = <<>>
    BY <2>1, <2>2, Ends DEF Tunnelling
  <2> QED BY <1>2, <2>1, <2>4, <2>5 DEF Tunnelling
<1>7. ASSUME NEW x \in End PROVE Counted(x)' /\ Flowing(x)'
  <2>1. Counted(x) /\ Flowing(x) /\ Other(x) \in End
        /\ Numbered(Other(x), sent[Other(x)])
    BY Ends DEF WireInv, Counted
  <2>2. Counted(x)'
    BY <1>2, <2>1, CountedOn DEF Counted, noise
  <2>3. Begins(Stream(x)', Stream(x))
    <3> DEFINE R == IF cut THEN <<>> ELSE rest[Other(x)]
    <3>1. buf[x] \in Seq(WireByte) /\ flight[x] \in Seq(WireByte) /\ R \in Seq(WireByte)
      BY <1>2, <2>1, EmptySeq DEF Types
    <3>2. Stream(x) = buf[x] \o flight[x] \o R
      BY DEF Stream
    <3>3. PICK j \in 0 .. Len(flight[x]) : flight'[x] = SubSeq(flight[x], 1, j)
      BY <1>3
    <3>4. Stream(x)' = buf[x] \o SubSeq(flight[x], 1, j) \o <<>>
      BY <1>2, <3>3 DEF Stream
    <3> HIDE DEF R
    <3> QED BY <3>1, <3>2, <3>4, Lost
  <2>4. UNCHANGED <<Ready(x), NextIn(x), phase, sent[Other(x)]>>
    BY <1>2 DEF Ready, NextIn
  <2>5. Flowing(x)'
    BY <1>2, <2>1, <2>3, <2>4, FlowsShort
  <2> QED BY <2>2, <2>5
<1> QED BY <1>5, <1>6, <1>7 DEF WireInv

\* Where both streams are what they were, everything else is.
LEMMA MovedInv ==
    ASSUME WireInv, stage = "tunnel", UNCHANGED <<phase, noise, cut, why, sent, got, stage>>,
           buf' \in [End -> Seq(WireByte)], flight' \in [End -> Seq(WireByte)],
           rest' \in [End -> Seq(WireByte)],
           \A x \in End : Stream(x)' = Stream(x),
           \A x \in End : rest[x] = <<>> => rest'[x] = <<>>
    PROVE  WireInv'
<1>1. Types /\ Types'
  BY DEF WireInv, Types, noise
<1>2. Tunnelling'
  BY DEF Tunnelling
<1>3. ASSUME NEW x \in End PROVE Counted(x)' /\ Flowing(x)'
  <2>1. Counted(x) /\ Flowing(x) /\ Other(x) \in End
    BY Ends DEF WireInv
  <2>2. Counted(x)'
    BY <2>1, CountedOn DEF Counted, noise
  <2>3. /\ Ready(x)' = Ready(x) /\ NextIn(x)' = NextIn(x)
        /\ NextOut(Other(x))' = NextOut(Other(x))
        /\ UNCHANGED <<phase, cut, sent>>
    BY DEF Ready, NextIn, NextOut
  <2>4. Flowing(x)'
    BY <2>1, <2>3 DEF Flowing
  <2> QED BY <2>2, <2>4
<1> QED BY <1>1, <1>2, <1>3 DEF WireInv

\* Some bytes are written.
LEMMA WriteInv ==
    ASSUME WireInv, NEW e \in End, WriteSome(e), UNCHANGED stage
    PROVE  WireInv'
<1> DEFINE x == Other(e)
<1>1. x \in End /\ x # e /\ Other(x) = e /\ \A y \in End : y = e \/ y = x
  BY Ends
<1>2. PICK k \in 1 .. Len(rest[e]) :
         /\ flight' = [flight EXCEPT ![x] = @ \o SubSeq(rest[e], 1, k)]
         /\ rest' = [rest EXCEPT ![e] = SubSeq(@, k + 1, Len(@))]
  BY DEF WriteSome
<1> HIDE DEF x
<1>3. Types /\ Tunnelling /\ ~ cut
      /\ UNCHANGED <<phase, noise, cut, why, sent, got, stage, buf>>
  BY DEF WireInv, WriteSome
<1>4. ASSUME NEW y \in End
      PROVE  /\ buf[y] \in Seq(WireByte) /\ flight[y] \in Seq(WireByte)
             /\ rest[y] \in Seq(WireByte) /\ Len(rest[y]) \in Nat
  BY <1>3, LenProperties DEF Types
<1>5. k \in 0 .. Len(rest[e]) /\ rest[e] # <<>>
  <2>1. Len(rest[e]) # 0 /\ k \in 0 .. Len(rest[e])
    BY <1>4
  <2> QED BY <2>1, EmptySeq
<1>6. stage = "tunnel"
  BY <1>3, <1>5 DEF Tunnelling
<1>7. /\ SubSeq(rest[e], 1, k) \in Seq(WireByte)
      /\ SubSeq(rest[e], k + 1, Len(rest[e])) \in Seq(WireByte)
  BY <1>4, <1>5, Parts
<1>8. /\ buf' = buf /\ flight'[e] = flight[e] /\ flight'[x] = flight[x] \o SubSeq(rest[e], 1, k)
      /\ rest'[x] = rest[x] /\ rest'[e] = SubSeq(rest[e], k + 1, Len(rest[e]))
  BY <1>1, <1>2, <1>3 DEF Types
<1>9. /\ buf' \in [End -> Seq(WireByte)] /\ flight' \in [End -> Seq(WireByte)]
      /\ rest' \in [End -> Seq(WireByte)]
  <2>1. flight[x] \o SubSeq(rest[e], 1, k) \in Seq(WireByte)
    BY <1>1, <1>4, <1>7, ConcatProperties
  <2> QED BY <1>1, <1>2, <1>3, <1>7, <2>1 DEF Types
<1>10. Stream(e)' = Stream(e)
  BY <1>1, <1>3, <1>8 DEF Stream, x
<1>11. Stream(x)' = Stream(x)
  <2>1. Stream(x) = buf[x] \o flight[x] \o rest[e]
    BY <1>1, <1>3 DEF Stream
  <2>2. Stream(x)' = buf[x] \o (flight[x] \o SubSeq(rest[e], 1, k))
                     \o SubSeq(rest[e], k + 1, Len(rest[e]))
    BY <1>1, <1>3, <1>8 DEF Stream
  <2> DEFINE B == buf[x]
             F == flight[x]
             R == rest[e]
  <2>3. B \in Seq(WireByte) /\ F \in Seq(WireByte) /\ R \in Seq(WireByte) /\ k \in 0 .. Len(R)
    BY <1>1, <1>4, <1>5
  <2> HIDE DEF B, F, R
  <2>4. Cat(Cat(B, Cat(F, SubSeq(R, 1, k))), SubSeq(R, k + 1, Len(R))) = Cat(Cat(B, F), R)
    BY <2>3, Written
  <2> QED BY <2>1, <2>2, <2>4 DEF B, F, R, Cat
<1>12. \A y \in End : rest[y] = <<>> => rest'[y] = <<>>
  BY <1>1, <1>5, <1>8
<1>13. \A y \in End : Stream(y)' = Stream(y)
  BY <1>1, <1>10, <1>11
<1> QED BY <1>3, <1>6, <1>9, <1>12, <1>13, MovedInv

\* Some bytes are read.
LEMMA ReadInv ==
    ASSUME WireInv, NEW e \in End, ReadSome(e), UNCHANGED stage
    PROVE  WireInv'
<1> DEFINE x == Other(e)
<1>1. x \in End /\ x # e /\ Other(x) = e /\ \A y \in End : y = e \/ y = x
  BY Ends
<1> HIDE DEF x
<1>2. PICK k \in 1 .. Len(flight[e]) :
         /\ buf' = [buf EXCEPT ![e] = @ \o SubSeq(flight[e], 1, k)]
         /\ flight' = [flight EXCEPT ![e] = SubSeq(@, k + 1, Len(@))]
  BY DEF ReadSome
<1>3. Types /\ Tunnelling /\ phase[e] \in {"waiting", "up"}
      /\ UNCHANGED <<phase, noise, cut, why, sent, got, stage, rest>>
  BY DEF WireInv, ReadSome, Reading, AtLoop
<1>4. ASSUME NEW y \in End
      PROVE  /\ buf[y] \in Seq(WireByte) /\ flight[y] \in Seq(WireByte)
             /\ rest[y] \in Seq(WireByte) /\ Len(flight[y]) \in Nat
  BY <1>3, LenProperties DEF Types
<1>5. k \in 0 .. Len(flight[e]) /\ flight[e] # <<>>
  <2>1. Len(flight[e]) # 0 /\ k \in 0 .. Len(flight[e])
    BY <1>4
  <2> QED BY <2>1, EmptySeq
<1>6. stage = "tunnel"
  <2> SUFFICES ASSUME stage # "tunnel" PROVE FALSE
    OBVIOUS
  <2>1. phase[Client] \in {"hello", "closed"} /\ flight[Host] = <<>>
    BY <1>3 DEF Tunnelling
  <2>2. e = Client \/ e = Host
    BY DEF End
  <2> QED BY <1>3, <1>5, <2>1, <2>2
<1>7. /\ SubSeq(flight[e], 1, k) \in Seq(WireByte)
      /\ SubSeq(flight[e], k + 1, Len(flight[e])) \in Seq(WireByte)
  BY <1>4, <1>5, Parts
<1>8. /\ buf'[x] = buf[x] /\ buf'[e] = buf[e] \o SubSeq(flight[e], 1, k)
      /\ flight'[x] = flight[x] /\ flight'[e] = SubSeq(flight[e], k + 1, Len(flight[e]))
  BY <1>1, <1>2, <1>3 DEF Types
<1>9. /\ buf' \in [End -> Seq(WireByte)] /\ flight' \in [End -> Seq(WireByte)]
      /\ rest' \in [End -> Seq(WireByte)]
  <2>1. buf[e] \o SubSeq(flight[e], 1, k) \in Seq(WireByte)
    BY <1>4, <1>7, ConcatProperties
  <2> QED BY <1>1, <1>2, <1>3, <1>7, <2>1 DEF Types
<1>10. Stream(x)' = Stream(x)
  BY <1>1, <1>3, <1>8 DEF Stream, x
<1>11. Stream(e)' = Stream(e)
  <2> DEFINE R == IF cut THEN <<>> ELSE rest[x]
  <2>1. Stream(e) = buf[e] \o flight[e] \o R
    BY DEF Stream, x
  <2>2. Stream(e)' = (buf[e] \o SubSeq(flight[e], 1, k))
                     \o SubSeq(flight[e], k + 1, Len(flight[e])) \o R
    BY <1>3, <1>8 DEF Stream, x
  <2> DEFINE B == buf[e]
             F == flight[e]
  <2>3. B \in Seq(WireByte) /\ F \in Seq(WireByte) /\ k \in 0 .. Len(F)
    BY <1>4, <1>5
  <2> HIDE DEF B, F, R
  <2>4. Cat(Cat(Cat(B, SubSeq(F, 1, k)), SubSeq(F, k + 1, Len(F))), R) = Cat(Cat(B, F), R)
    BY <2>3, HasRead
  <2> QED BY <2>1, <2>2, <2>4 DEF B, F, Cat
<1>12. \A y \in End : Stream(y)' = Stream(y)
  BY <1>1, <1>10, <1>11
<1> QED BY <1>3, <1>6, <1>9, <1>12, MovedInv
-----------------------------------------------------------------------------
\* Before there is a tunnel: an answer is written, or some of it is read.
LEMMA AnswerInv ==
    ASSUME WireInv, stage # "tunnel", stage' \in Stages,
           UNCHANGED <<phase, rest, buf, noise, cut, why, sent, got>>,
           NEW F \in Seq(WireByte), flight' = [flight EXCEPT ![Client] = F],
           Coming(F, stage'), stage' = "tunnel" => F = <<>>
    PROVE  WireInv'
<1>1. Types /\ Tunnelling /\ UNCHANGED <<phase, rest, buf, nout, nin, cut, why, sent, got>>
  BY DEF WireInv, noise
<1>2. flight'[Client] = F /\ flight'[Host] = flight[Host]
  BY <1>1, Ends DEF Types
<1>3. Types'
  BY <1>1, Ends DEF Types
<1>4. Tunnelling'
  BY <1>1, <1>2 DEF Tunnelling
<1>5. ASSUME NEW x \in End PROVE Counted(x)'
  BY <1>1, CountedOn DEF WireInv, Counted, noise
<1>6. Flowing(Host)'
  <2>1. Stream(Host)' = Stream(Host)
    <3>1. buf' = buf /\ cut' = cut /\ rest' = rest /\ flight'[Host] = flight[Host]
      BY <1>1, <1>2
    <3>2. (IF cut' THEN <<>> ELSE rest'[Other(Host)]) = IF cut THEN <<>> ELSE rest[Other(Host)]
      BY <3>1
    <3>3. Stream(Host)' = buf'[Host] \o flight'[Host]
                          \o (IF cut' THEN <<>> ELSE rest'[Other(Host)])
      BY DEF Stream
    <3> QED BY <3>1, <3>2, <3>3 DEF Stream
  <2>2. NextIn(Host)' = NextIn(Host) /\ NextOut(Other(Host))' = NextOut(Other(Host))
    BY <1>1 DEF NextIn, NextOut
  <2>3. Flowing(Host)
    BY Ends DEF WireInv
  <2> QED BY <1>1, <2>1, <2>2, <2>3 DEF Flowing, Ready
<1>7. Flowing(Client)'
  <2>1. CASE stage' # "tunnel"
    BY <2>1, Ends DEF Flowing, Ready
  <2>2. CASE stage' = "tunnel"
    <3>1. flight'[Client] = <<>> /\ buf'[Client] = <<>> /\ rest'[Host] = <<>>
      BY <1>1, <1>2, <2>2, Ends DEF Tunnelling
    <3>2. Stream(Client)' = <<>> /\ Len(<<>>) = 0
      BY <3>1, Ends, EmptySeq DEF Stream
    <3>3. NextIn(Client)' = 0 /\ NextOut(Host)' = 0
      BY <1>1, Ends DEF Tunnelling, NextIn, NextOut
    <3>4. Carries(Host, sent'[Host], <<>>, 0) /\ Whole(<<>>, 0, 0)
      BY <3>2 DEF Carries, Block, Rising, Starting, Whole
    <3> QED BY <3>2, <3>3, <3>4, Ends DEF Flowing
  <2> QED BY <2>1, <2>2
<1>8. \A x \in End : Flowing(x)'
  BY <1>6, <1>7 DEF End
<1> QED BY <1>3, <1>4, <1>5, <1>8 DEF WireInv

\* What an answer of the proxy is made of.
LEMMA AnswerBytes ==
    ASSUME NEW a \in Methods \cup Replies, NEW n \in Nat
    PROVE  /\ Bytes(a, n) \in Seq(WireByte) /\ Len(Bytes(a, n)) = n
           /\ Answered(Bytes(a, n), a, n)
<1>1. Bytes(a, n) \in [1 .. n -> WireByte]
  BY DEF Bytes, WireByte
<1>2. Bytes(a, n) \in Seq(WireByte) /\ Len(Bytes(a, n)) = n
  BY <1>1, SeqDef DEF Bytes
<1>3. \A i \in 1 .. n : Bytes(a, n)[i].of = a
  BY DEF Bytes
<1> QED BY <1>2, <1>3 DEF Answered

\* The proxy answers.
LEMMA ProxyInv == ASSUME WireInv, ProxyAnswers PROVE WireInv'
<1>1. ASSUME NEW a \in Methods \cup Replies, NEW n \in Nat, NEW from \in Stages, NEW to \in Stages,
             from \in {"method", "reply"}, to # "tunnel",
             Proxy(from, to, Bytes(a, n)), Coming(Bytes(a, n), to)
      PROVE  WireInv'
  <2>1. flight[Client] = <<>>
    BY <1>1 DEF WireInv, Tunnelling, Coming, Proxy
  <2>2. flight[Client] \o Bytes(a, n) = Bytes(a, n)
    BY <2>1, AnswerBytes, ConcatEmptySeq
  <2>3. flight' = [flight EXCEPT ![Client] = Bytes(a, n)]
    BY <1>1, <2>2 DEF Proxy
  <2>4. stage # "tunnel" /\ stage' = to
        /\ UNCHANGED <<phase, rest, buf, noise, cut, why, sent, got>>
    BY <1>1 DEF Proxy
  <2> QED BY <1>1, <2>3, <2>4, AnswerBytes, AnswerInv
<1>2. CASE \E m \in Methods : Proxy("method", "chosen", Bytes(m, MethodLen))
  <2>1. PICK m \in Methods : Proxy("method", "chosen", Bytes(m, MethodLen))
    BY <1>2
  <2>2. Coming(Bytes(m, MethodLen), "chosen") /\ MethodLen \in Nat
    BY AnswerBytes DEF Coming, MethodLen
  <2> QED BY <1>1, <2>1, <2>2 DEF Stages
<1>3. CASE \E r \in Replies : Proxy("reply", "replied", Bytes(r, HeadLen + BoundLen(r)))
  <2>1. PICK r \in Replies : Proxy("reply", "replied", Bytes(r, HeadLen + BoundLen(r)))
    BY <1>3
  <2>2. HeadLen + BoundLen(r) \in Nat
    BY BoundNat
  <2>3. Coming(Bytes(r, HeadLen + BoundLen(r)), "replied")
    BY <2>2, AnswerBytes DEF Coming
  <2> QED BY <1>1, <2>1, <2>2, <2>3 DEF Stages
<1> QED BY <1>2, <1>3 DEF ProxyAnswers
\* The client reads on: what it then leaves is an answer it still expects.
LEMMA ReadsOn ==
    ASSUME WireInv, stage # "tunnel", NEW n \in Nat, NEW next \in Stages, ReadExact(n, next),
           NEW F, F = SubSeq(flight[Client], n + 1, Len(flight[Client])),
           F \in Seq(WireByte) => Coming(F, next) /\ (next = "tunnel" => F = <<>>)
    PROVE  WireInv'
<1>1. flight[Client] \in Seq(WireByte) /\ n \in 0 .. Len(flight[Client])
  <2>1. flight[Client] \in Seq(WireByte)
    BY Ends DEF WireInv, Types
  <2>2. Len(flight[Client]) \in Nat /\ n <= Len(flight[Client])
    BY <2>1, LenProperties DEF ReadExact
  <2> QED BY <2>1, <2>2
<1>2. F \in Seq(WireByte)
  BY <1>1, Parts
<1>3. /\ flight' = [flight EXCEPT ![Client] = F] /\ stage' = next
      /\ UNCHANGED <<phase, rest, buf, noise, cut, why, sent, got>>
  BY DEF ReadExact
<1> QED BY <1>2, <1>3, AnswerInv

\* What is left of an answer.
LEMMA AnswerLeft ==
    ASSUME WireInv, NEW n \in Nat, NEW m \in Nat, n <= Len(flight[Client]),
           Len(flight[Client]) <= m,
           NEW F, F = SubSeq(flight[Client], n + 1, Len(flight[Client]))
    PROVE  /\ Len(F) <= m - n
           /\ m = n => F = <<>>
           /\ \A r : Answered(flight[Client], r, m) => Answered(F, r, m - n)
<1>1. flight[Client] \in Seq(WireByte) /\ Len(flight[Client]) \in Nat
      /\ n \in 0 .. Len(flight[Client])
  <2>1. flight[Client] \in Seq(WireByte)
    BY Ends DEF WireInv, Types
  <2> QED BY <2>1, LenProperties
<1>2. /\ F \in Seq(WireByte) /\ Len(F) = Len(flight[Client]) - n
      /\ \A i \in 1 .. Len(flight[Client]) - n : F[i] = flight[Client][i + n]
  BY <1>1, Parts
<1>3. Len(F) <= m - n
  BY <1>1, <1>2
<1>4. m = n => F = <<>>
  <2>1. m = n => Len(F) = 0
    BY <1>1, <1>2
  <2> QED BY <1>2, <2>1, EmptySeq
<1>5. ASSUME NEW r, Answered(flight[Client], r, m) PROVE Answered(F, r, m - n)
  <2>1. \A i \in 1 .. Len(F) : i + n \in 1 .. Len(flight[Client])
    BY <1>1, <1>2
  <2> QED BY <1>2, <1>3, <1>5, <2>1 DEF Answered
<1> QED BY <1>3, <1>4, <1>5

\* The drain takes all that is left.
LEMMA Drained ==
    ASSUME WireInv, Drain
    PROVE  /\ ToDrain(First) \in Nat
           /\ SubSeq(flight[Client], ToDrain(First) + 1, Len(flight[Client])) = <<>>
<1> DEFINE n == ToDrain(First)
           F == SubSeq(flight[Client], n + 1, Len(flight[Client]))
<1>1. stage = "drain" /\ flight[Client] # <<>> /\ ReadExact(n, "tunnel")
  BY DEF Drain
<1>2. PICK r \in Replies : Answered(flight[Client], r, BoundLen(r))
  BY <1>1 DEF WireInv, Tunnelling, Coming
<1>3. First = r
  <2>1. flight[Client] \in Seq(WireByte)
    BY Ends DEF WireInv, Types
  <2>2. 1 \in 1 .. Len(flight[Client])
    BY <1>1, <2>1, EmptySeq
  <2> QED BY <1>2, <2>2 DEF First, Answered
<1>4. n = BoundLen(r) /\ n \in Nat
  BY <1>3, BoundNat DEF ToDrain
<1> HIDE DEF n
<1>5. n <= Len(flight[Client]) /\ Len(flight[Client]) <= n
  BY <1>1, <1>2, <1>4 DEF ReadExact, Answered
<1>6. F = <<>>
  BY <1>4, <1>5, AnswerLeft
<1> QED BY <1>4, <1>6 DEF n

\* The client's way to the tunnel.
LEMMA ConnectingInv == ASSUME WireInv, Connecting PROVE WireInv'
<1> DEFINE L == Len(flight[Client])
<1>1. CASE Greet
  <2>1. flight[Client] \in Seq(WireByte) /\ flight = [flight EXCEPT ![Client] = flight[Client]]
    BY Ends DEF WireInv, Types
  <2>2. stage = "greet" /\ stage' = "method" /\ UNCHANGED vars
    BY <1>1 DEF Greet
  <2>3. Coming(flight[Client], stage')
    BY <2>2 DEF WireInv, Tunnelling, Coming
  <2> QED BY <2>1, <2>2, <2>3, AnswerInv DEF Stages, vars, link
<1>2. CASE ReadMethod
  <2>1. stage = "chosen" /\ Len(flight[Client]) >= MethodLen /\ MethodLen \in Nat
    BY <1>2 DEF ReadMethod, MethodLen
  <2>2. CASE First.ok
    <3> DEFINE F == SubSeq(flight[Client], MethodLen + 1, L)
    <3>1. ReadExact(MethodLen, "reply")
      BY <1>2, <2>2 DEF ReadMethod
    <3>2. Len(flight[Client]) <= MethodLen
      BY <2>1 DEF WireInv, Tunnelling, Coming
    <3>3. F = <<>>
      BY <2>1, <3>2, AnswerLeft DEF MethodLen
    <3>4. Coming(F, "reply")
      BY <3>3 DEF Coming
    <3> HIDE DEF F
    <3> QED BY <2>1, <3>1, <3>4, ReadsOn DEF Stages, F
  <2>3. CASE ~ First.ok
    BY <1>2, <2>1, <2>3, ClosedInv, Ends DEF ReadMethod, Fails, Reasons
  <2> QED BY <2>2, <2>3
<1>3. CASE ReadHead
  <2>1. stage = "replied" /\ Len(flight[Client]) >= HeadLen /\ HeadLen \in Nat
    BY <1>3 DEF ReadHead, HeadLen
  <2>2. CASE First.ok /\ First.atyp # "unknown"
    <3> DEFINE F == SubSeq(flight[Client], HeadLen + 1, L)
    <3>1. ReadExact(HeadLen, "drain")
      BY <1>3, <2>2 DEF ReadHead
    <3>2. PICK r \in Replies : Answered(flight[Client], r, HeadLen + BoundLen(r))
      BY <2>1 DEF WireInv, Tunnelling, Coming
    <3>3. HeadLen + BoundLen(r) \in Nat /\ (HeadLen + BoundLen(r)) - HeadLen = BoundLen(r)
      BY BoundNat, <2>1
    <3>4. Answered(F, r, BoundLen(r))
      <4>1. Answered(F, r, (HeadLen + BoundLen(r)) - HeadLen)
        BY <2>1, <3>2, <3>3, AnswerLeft DEF Answered, HeadLen
      <4> QED BY <3>3, <4>1
    <3>5. Coming(F, "drain")
      BY <3>4 DEF Coming
    <3> HIDE DEF F
    <3> QED BY <2>1, <3>1, <3>5, ReadsOn DEF Stages, F
  <2>3. CASE ~ (First.ok /\ First.atyp # "unknown")
    BY <1>3, <2>1, <2>3, ClosedInv, Ends DEF ReadHead, Fails, Reasons
  <2> QED BY <2>2, <2>3
<1>4. CASE Drain
  <2> DEFINE n == ToDrain(First)
             F == SubSeq(flight[Client], n + 1, L)
  <2>1. stage = "drain" /\ ReadExact(n, "tunnel")
    BY <1>4 DEF Drain
  <2>2. n \in Nat /\ F = <<>>
    BY <1>4, Drained
  <2>3. Coming(F, "tunnel")
    BY DEF Coming
  <2>4. stage # "tunnel" /\ "tunnel" \in Stages
    BY <2>1 DEF Stages
  <2> HIDE DEF F, n
  <2> QED BY <2>1, <2>2, <2>3, <2>4, ReadsOn DEF F
<1>5. CASE TunnelFails
  BY <1>5, ClosedInv, Ends DEF TunnelFails, Fails, Reasons
<1> QED BY <1>1, <1>2, <1>3, <1>4, <1>5 DEF Connecting
-----------------------------------------------------------------------------
\* A stream is a sequence of bytes.
LEMMA StreamParts ==
    ASSUME WireInv, NEW x \in End
    PROVE  /\ buf[x] \in Seq(WireByte) /\ flight[x] \in Seq(WireByte)
           /\ (IF cut THEN <<>> ELSE rest[Other(x)]) \in Seq(WireByte)
           /\ Len(buf[x]) \in Nat /\ Len(flight[x]) \in Nat
           /\ Len(Stream(x)) \in Nat /\ Len(buf[x]) <= Len(Stream(x))
           /\ \A i \in 1 .. Len(buf[x]) : Stream(x)[i] = buf[x][i]
<1> DEFINE B == buf[x]
           F == flight[x]
           R == IF cut THEN <<>> ELSE rest[Other(x)]
<1>1. B \in Seq(WireByte) /\ F \in Seq(WireByte) /\ R \in Seq(WireByte)
  BY Ends, EmptySeq DEF WireInv, Types
<1>2. Stream(x) = B \o F \o R
  BY DEF Stream
<1> HIDE DEF B, F, R
<1>3. Len(B) \in Nat /\ Len(F) \in Nat /\ Len(R) \in Nat
  BY <1>1, LenProperties
<1>4. /\ Len(Stream(x)) = Len(B) + Len(F) + Len(R)
      /\ \A i \in 1 .. Len(B) + Len(F) + Len(R) :
            Stream(x)[i] = IF i <= Len(B) THEN B[i]
                           ELSE IF i <= Len(B) + Len(F) THEN F[i - Len(B)]
                           ELSE R[i - (Len(B) + Len(F))]
  BY <1>1, <1>2, Joined
<1>5. ASSUME NEW i \in 1 .. Len(B) PROVE Stream(x)[i] = B[i]
  <2>1. i \in 1 .. Len(B) + Len(F) + Len(R) /\ i <= Len(B)
    BY <1>3
  <2> QED BY <1>4, <2>1
<1>6. Len(Stream(x)) \in Nat /\ Len(B) <= Len(Stream(x))
  BY <1>3, <1>4
<1> QED BY <1>1, <1>3, <1>5, <1>6 DEF B, F, R

LEMMA NextNat == ASSUME WireInv, NEW x \in End PROVE NextIn(x) \in Nat /\ NextOut(x) \in Nat
<1>1. Len(got[x]) \in Nat /\ Len(sent[x]) \in Nat
  BY LenProperties DEF WireInv, Types
<1> QED BY <1>1 DEF NextIn, NextOut

\* An end puts its next frame behind all that it has written.
LEMMA PutInv ==
    ASSUME WireInv, NEW e \in End, Ready(e), NEW t, NEW n \in Nat, NEW w,
           rest[e] = <<>>, phase[e] # "closed", rest' = [rest EXCEPT ![e] = Encoded(w)],
           Numbered(e, t), Begins(sent[e], t), sent'[e] = t,
           n \in 0 .. Len(t), w = Nth(e, t, n), NextOut(e) = n, NextOut(e)' = n + 1,
           UNCHANGED <<flight, cut, stage>>,
           buf'[Other(e)] = buf[Other(e)], phase'[Other(e)] = phase[Other(e)],
           got'[Other(e)] = got[Other(e)]
    PROVE  Flowing(Other(e))' /\ rest' \in [End -> Seq(WireByte)]
<1> DEFINE x == Other(e)
<1>1. x \in End /\ x # e /\ Other(x) = e
  BY Ends
<1> HIDE DEF x
<1>2. w \in Wires /\ FrameLen(w) \in Nat /\ Encoded(w) \in Seq(WireByte)
  BY NthWire, NthForm, EncodedBytes
<1>3. rest' \in [End -> Seq(WireByte)] /\ rest'[e] = Encoded(w)
  BY <1>2 DEF WireInv, Types
<1>4. Ready(x)' = Ready(x) /\ NextIn(x)' = NextIn(x) /\ phase'[x] = phase[x]
  BY DEF Ready, NextIn, x
<1>5. SUFFICES ASSUME Ready(x), phase[x] # "closed"
               PROVE  /\ Carries(e, t, Stream(x)', NextIn(x))
                      /\ ~ cut => Whole(Stream(x)', NextIn(x), n + 1)
  BY <1>1, <1>3, <1>4 DEF Flowing, x
<1>6. Carries(e, t, Stream(x), NextIn(x)) /\ (~ cut => Whole(Stream(x), NextIn(x), n))
  <2>1. Carries(e, sent[e], Stream(x), NextIn(x)) /\ (~ cut => Whole(Stream(x), NextIn(x), n))
    BY <1>1, <1>5 DEF WireInv, Flowing
  <2> QED BY <2>1, CarriesKept
<1>7. CASE cut
  <2>1. Stream(x) = buf[x] \o flight[x] \o <<>>
    BY <1>7 DEF Stream
  <2>2. Stream(x)' = buf[x] \o flight[x] \o <<>>
    BY <1>7 DEF Stream, x
  <2> QED BY <1>6, <1>7, <2>1, <2>2
<1>8. CASE ~ cut
  <2>1. Stream(x) = buf[x] \o flight[x] \o <<>>
    BY <1>1, <1>8 DEF Stream
  <2>2. Stream(x)' = buf[x] \o flight[x] \o Encoded(w)
    <3>1. buf'[x] = buf[x] /\ flight' = flight /\ cut' = cut /\ rest'[Other(x)] = Encoded(w)
      BY <1>1, <1>3 DEF x
    <3>2. (IF cut' THEN <<>> ELSE rest'[Other(x)]) = Encoded(w)
      BY <1>8, <3>1
    <3>3. Stream(x)' = buf'[x] \o flight'[x] \o (IF cut' THEN <<>> ELSE rest'[Other(x)])
      BY DEF Stream
    <3> QED BY <3>1, <3>2, <3>3
  <2>3. buf[x] \in Seq(WireByte) /\ flight[x] \in Seq(WireByte)
    BY <1>1, StreamParts
  <2>4. Extends(Stream(x)', Stream(x), w)
    <3> DEFINE B == buf[x]
               F == flight[x]
    <3>1. B \in Seq(WireByte) /\ F \in Seq(WireByte)
      BY <2>3
    <3> HIDE DEF B, F
    <3>2. Extends(B \o F \o Encoded(w), B \o F \o <<>>, w)
      BY <1>2, <3>1, Put
    <3> QED BY <2>1, <2>2, <3>2 DEF B, F
  <2>5. NextIn(x) \in Nat
    BY <1>1, NextNat
  <2>6. Carries(e, t, Stream(x)', NextIn(x)) /\ Whole(Stream(x)', NextIn(x), n + 1)
    BY <1>6, <1>8, <2>4, <2>5, FrameAdded
  <2> QED BY <2>6
<1> QED BY <1>3, <1>7, <1>8

\* What an end that still reads finds in its buffer: the next frame of the other
\* one, and its length in front.
LEMMA InBuffer ==
    ASSUME WireInv, NEW e \in End, Ready(e), phase[e] # "closed", Len(buf[e]) >= PrefixLen
    PROVE  LET d == Other(e)
               w == Decoded(buf[e])
           IN  /\ NextIn(e) \in 0 .. Len(sent[d])
               /\ w = Nth(d, sent[d], NextIn(e))
               /\ w.len \in Nat /\ LengthIn(buf[e]) = 1 + w.len
               /\ FrameLen(w) = PrefixLen + LengthIn(buf[e])
               /\ Len(Stream(e)) > 0 /\ FrameLen(Stream(e)[1].of) = FrameLen(w)
<1> DEFINE d == Other(e)
           w == Decoded(buf[e])
           S == Stream(e)
           n == NextIn(e)
<1>1. d \in End /\ Numbered(d, sent[d]) /\ Carries(d, sent[d], S, n)
  BY Ends DEF WireInv, Counted, Flowing
<1>2. /\ Len(buf[e]) \in Nat /\ Len(S) \in Nat /\ Len(buf[e]) <= Len(S)
      /\ \A i \in 1 .. Len(buf[e]) : S[i] = buf[e][i]
  BY StreamParts
<1> HIDE DEF S, n, d
<1>3. Len(S) \in Nat \ {0} /\ 1 \in 1 .. Len(S) /\ 1 \in 1 .. Len(buf[e])
      /\ PrefixLen \in Nat /\ PrefixLen <= Len(buf[e])
  BY <1>2, Limits
<1>4. w = S[1].of
  BY <1>2, <1>3 DEF Decoded
<1>5. Genuine(d, sent[d], S[1]) /\ No(S[1].of) = n
  BY <1>1, <1>3 DEF Carries, Starting
<1>6. /\ w.len \in Nat /\ FrameLen(w) > PrefixLen /\ FrameLen(w) \in Nat
      /\ n \in 0 .. Len(sent[d]) /\ w = Nth(d, sent[d], n)
  BY <1>1, <1>4, <1>5, GenuineForm
<1>7. ASSUME NEW i \in 1 .. PrefixLen PROVE buf[e][i] = [of |-> w, at |-> i]
  <2>1. \A k \in 1 .. FrameLen(S[1].of) : k <= Len(S) => S[k] = [of |-> S[1].of, at |-> k]
    BY <1>1, <1>3, FirstFrame
  <2> DEFINE f == FrameLen(w)
  <2>2. f \in Nat /\ f > PrefixLen /\ i \in Nat
    BY <1>6
  <2> HIDE DEF f
  <2>3. i \in 1 .. f /\ i <= Len(S) /\ i \in 1 .. Len(buf[e])
    BY <1>2, <1>3, <2>2
  <2>4. S[i] = [of |-> w, at |-> i]
    BY <1>4, <2>1, <2>3 DEF f
  <2> QED BY <1>2, <2>3, <2>4
<1>8. LengthIn(buf[e]) = 1 + w.len
  BY <1>7 DEF LengthIn, Decoded
<1>9. FrameLen(w) = PrefixLen + LengthIn(buf[e])
  BY <1>3, <1>6, <1>8 DEF FrameLen
<1> HIDE DEF w
<1>10. Len(S) > 0 /\ FrameLen(S[1].of) = FrameLen(w)
  BY <1>3, <1>4
<1> QED BY <1>6, <1>8, <1>9, <1>10 DEF w, S, n, d

\* An end takes the first frame out of its buffer.
LEMMA TakeInv ==
    ASSUME WireInv, NEW e \in End, Ready(e), phase[e] # "closed", Complete(buf[e]),
           buf' = [buf EXCEPT ![e] = Remaining(@)],
           UNCHANGED <<flight, cut, stage>>, sent'[Other(e)] = sent[Other(e)],
           cut \/ rest'[Other(e)] = rest[Other(e)], phase'[Other(e)] = phase[Other(e)],
           phase'[e] # "closed", NextIn(e)' = NextIn(e) + 1
    PROVE  Flowing(e)' /\ buf' \in [End -> Seq(WireByte)]
<1> DEFINE d == Other(e)
           m == PrefixLen + LengthIn(buf[e])
           R == IF cut THEN <<>> ELSE rest[d]
<1>1. d \in End /\ d # e /\ Numbered(d, sent[d])
  BY Ends DEF WireInv, Counted
<1>2. Len(buf[e]) >= PrefixLen /\ Len(buf[e]) >= m
  BY DEF Complete
<1>3. Len(Stream(e)) > 0 /\ FrameLen(Stream(e)[1].of) = m /\ m \in Nat
  <2>1. LengthIn(buf[e]) \in Nat
    BY DEF Complete
  <2>2. m \in Nat
    BY <2>1, Limits
  <2> QED BY <1>2, <2>2, InBuffer
<1>4. buf[e] \in Seq(WireByte) /\ flight[e] \in Seq(WireByte) /\ R \in Seq(WireByte)
      /\ Len(buf[e]) \in Nat
  BY StreamParts
<1>5. m \in 0 .. Len(buf[e])
  BY <1>2, <1>3, <1>4
<1>6. buf'[e] = SubSeq(buf[e], m + 1, Len(buf[e]))
  BY DEF WireInv, Types, Remaining
<1>7. SubSeq(buf[e], m + 1, Len(buf[e])) \in Seq(WireByte)
  BY <1>4, <1>5, Parts
<1>8. buf' \in [End -> Seq(WireByte)]
  BY <1>7 DEF WireInv, Types, Remaining
<1>9. NextOut(d)' = NextOut(d)
  BY DEF NextOut
<1>10. Stream(e) = buf[e] \o flight[e] \o R
  BY DEF Stream
<1>11. Stream(e)' = SubSeq(buf[e], m + 1, Len(buf[e])) \o flight[e] \o R
  <2>1. flight' = flight /\ (IF cut' THEN <<>> ELSE rest'[d]) = R
    OBVIOUS
  <2>2. Stream(e)' = buf'[e] \o flight'[e] \o (IF cut' THEN <<>> ELSE rest'[d])
    BY DEF Stream
  <2> HIDE DEF R
  <2> QED BY <1>6, <2>1, <2>2
<1>12. Follows(Stream(e)', Stream(e), m)
  <2> DEFINE B == buf[e]
             F == flight[e]
  <2>1. B \in Seq(WireByte) /\ F \in Seq(WireByte) /\ R \in Seq(WireByte) /\ m \in 0 .. Len(B)
    BY <1>4, <1>5
  <2> HIDE DEF B, F, R, m
  <2>2. Follows(SubSeq(B, m + 1, Len(B)) \o F \o R, B \o F \o R, m)
    BY <2>1, TakenOff
  <2> QED BY <1>10, <1>11, <2>2 DEF B, F
<1> HIDE DEF R, m
<1>13. /\ Carries(d, sent[d], Stream(e), NextIn(e)) /\ NextIn(e) \in Nat /\ NextOut(d) \in Nat
       /\ ~ cut /\ phase[d] # "closed" => Whole(Stream(e), NextIn(e), NextOut(d))
  BY <1>1, NextNat DEF WireInv, Flowing
<1>14. /\ Carries(d, sent[d], Stream(e)', NextIn(e) + 1)
       /\ \A l \in Nat : Whole(Stream(e), NextIn(e), l) => Whole(Stream(e)', NextIn(e) + 1, l)
  BY <1>1, <1>3, <1>12, <1>13, FrameTaken
<1>15. Flowing(e)'
  BY <1>9, <1>13, <1>14 DEF Flowing
<1> QED BY <1>8, <1>15
\* Where nothing is put into a stream and nothing is taken out, it flows on.
LEMMA FlowsSame ==
    ASSUME NEW x \in End, Flowing(x), buf'[x] = buf[x], flight' = flight, cut' = cut,
           rest'[Other(x)] = rest[Other(x)], sent'[Other(x)] = sent[Other(x)], stage' = stage,
           NextIn(x)' = NextIn(x), NextOut(Other(x))' = NextOut(Other(x)),
           phase[x] # "closed", phase'[Other(x)] # "closed" => phase[Other(x)] # "closed"
    PROVE  Flowing(x)'
<1>1. Stream(x)' = Stream(x)
  <2>1. (IF cut' THEN <<>> ELSE rest'[Other(x)]) = IF cut THEN <<>> ELSE rest[Other(x)]
    OBVIOUS
  <2>2. Stream(x)' = buf'[x] \o flight'[x] \o (IF cut' THEN <<>> ELSE rest'[Other(x)])
    BY DEF Stream
  <2> QED BY <2>1, <2>2 DEF Stream
<1> QED BY <1>1 DEF Flowing, Ready

LEMMA BeginsItself == ASSUME NEW X, NEW s \in Seq(X) PROVE Begins(s, s)
BY LenProperties DEF Begins

\* The first message of the handshake.
LEMMA HelloInv == ASSUME WireInv, stage = "tunnel", Hello, UNCHANGED stage PROVE WireInv'
<1>1. Types /\ Counted(Client) /\ Counted(Host) /\ Flowing(Client) /\ Flowing(Host)
  BY Ends DEF WireInv
<1>2. /\ phase[Client] = "hello" /\ phase'[Client] = "waiting" /\ phase'[Host] = phase[Host]
      /\ rest' = [rest EXCEPT ![Client] = Encoded(Handshake("init"))]
      /\ UNCHANGED <<flight, buf, nout, nin, cut, why, sent, got>>
      /\ rest'[Host] = rest[Host]
  BY <1>1, Ends DEF Hello, noise, Types
<1>3. rest[Client] = <<>> /\ Len(sent[Client]) = 0 /\ Len(got[Client]) = 0
      /\ Numbered(Client, sent[Client])
  BY <1>1, <1>2 DEF Counted
<1>4. NextOut(Client) = 0 /\ NextOut(Client)' = 0 + 1 /\ NextIn(Client)' = NextIn(Client)
      /\ NextOut(Host)' = NextOut(Host)
  BY <1>2, <1>3, Ends DEF NextOut, NextIn
<1>5. Begins(sent[Client], sent[Client])
  BY <1>1, Ends, BeginsItself DEF Types
<1>6. Handshake("init") = Nth(Client, sent[Client], 0) /\ 0 \in 0 .. Len(sent[Client])
  BY <1>3 DEF Nth
<1>7. Flowing(Host)' /\ rest' \in [End -> Seq(WireByte)]
  <2>1. Ready(Client) /\ Other(Client) = Host /\ Client \in End
    BY Ends DEF Ready
  <2>2. buf'[Host] = buf[Host] /\ got'[Host] = got[Host] /\ sent'[Client] = sent[Client]
        /\ UNCHANGED <<flight, cut, stage>> /\ phase[Client] # "closed" /\ 0 \in Nat
    BY <1>2
  <2> QED BY <1>2, <1>3, <1>4, <1>5, <1>6, <2>1, <2>2, PutInv
<1>8. Flowing(Client)'
  BY <1>1, <1>2, <1>4, Ends, FlowsSame
<1>9. Types'
  BY <1>1, <1>2, <1>7 DEF Hello, Types
<1>10. Counted(Client)' /\ Counted(Host)'
  <2>1. phase[Host] # "hello"
    BY <1>1, Ends DEF Counted
  <2> QED BY <1>1, <1>2, <2>1, Ends, CountedOn DEF noise
<1>11. Tunnelling'
  BY DEF Tunnelling
<1> QED BY <1>7, <1>8, <1>9, <1>10, <1>11 DEF WireInv, End

\* The other end's handshake message is taken, and answered by the host.
LEMMA ShakeInv == ASSUME WireInv, NEW e \in End, Ready(e), Shake(e), UNCHANGED stage PROVE WireInv'
<1> DEFINE x == Other(e)
<1>1. x \in End /\ x # e /\ Other(x) = e /\ \A y \in End : y = e \/ y = x
  BY Ends
<1> HIDE DEF x
<1>2. Types /\ Counted(e) /\ Counted(x) /\ Flowing(e) /\ Flowing(x) /\ Tunnelling
  BY <1>1 DEF WireInv
<1>3. phase[e] = "waiting" /\ rest[e] = <<>> /\ Complete(buf[e])
  BY DEF Shake, Reading, AtLoop
<1>4. CASE Close(e, "refused")
  BY <1>4, ClosedInv DEF Reasons
<1>5. CASE ~ Close(e, "refused")
  <2>1. /\ phase' = [phase EXCEPT ![e] = "up"] /\ buf' = [buf EXCEPT ![e] = Remaining(@)]
        /\ rest' = IF e = Host THEN [rest EXCEPT ![e] = Encoded(Handshake("resp"))] ELSE rest
        /\ UNCHANGED <<flight, noise, cut, why, sent, got>>
    BY <1>5 DEF Shake
  <2>2. /\ phase'[e] = "up" /\ phase'[x] = phase[x] /\ buf'[x] = buf[x] /\ rest'[x] = rest[x]
        /\ UNCHANGED <<flight, nout, nin, cut, why, sent, got>>
    BY <1>1, <1>2, <2>1 DEF Types, noise
  <2>3. stage = "tunnel"
    <3> SUFFICES ASSUME stage # "tunnel" PROVE FALSE
      OBVIOUS
    <3>1. buf[e] = <<>>
      BY <1>2 DEF Tunnelling
    <3> QED BY <1>3, <3>1, EmptySeq, Limits DEF Complete
  <2>4. Len(sent[e]) = 0 /\ Len(got[e]) = 0 /\ Numbered(e, sent[e])
    BY <1>2, <1>3 DEF Counted
  <2>5. NextIn(e) = 0 /\ NextIn(e)' = NextIn(e) + 1 /\ NextIn(x)' = NextIn(x)
        /\ NextOut(x)' = NextOut(x)
    BY <1>3, <2>2, <2>4 DEF NextIn, NextOut
  <2>6. Flowing(e)' /\ buf' \in [End -> Seq(WireByte)]
    BY <1>3, <2>1, <2>2, <2>5, TakeInv DEF x
  <2>7. Flowing(x)' /\ rest' \in [End -> Seq(WireByte)]
    <3>1. CASE e = Host
      <4>1. NextOut(e) = 0 /\ NextOut(e)' = 0 + 1
        BY <1>3, <2>2, <2>4, <3>1, Ends DEF NextOut
      <4>2. Begins(sent[e], sent[e])
        BY <1>2, BeginsItself DEF Types
      <4>3. Handshake("resp") = Nth(e, sent[e], 0) /\ 0 \in 0 .. Len(sent[e]) /\ 0 \in Nat
        BY <2>4, <3>1, Ends DEF Nth
      <4>4. rest' = [rest EXCEPT ![e] = Encoded(Handshake("resp"))] /\ phase[e] # "closed"
            /\ UNCHANGED <<flight, cut, stage>> /\ sent'[e] = sent[e]
            /\ got'[x] = got[x]
        BY <1>3, <2>1, <2>2, <3>1
      <4> QED BY <1>3, <2>2, <2>4, <4>1, <4>2, <4>3, <4>4, PutInv DEF x
    <3>2. CASE e = Client
      <4>1. NextOut(e)' = NextOut(e)
        BY <1>3, <2>2, <3>2 DEF NextOut
      <4>2. rest' = rest
        BY <2>1, <3>2, Ends
      <4>3. CASE phase[x] # "closed"
        BY <1>1, <1>2, <1>3, <2>2, <2>5, <4>1, <4>2, <4>3, FlowsSame DEF Types
      <4>4. CASE phase[x] = "closed"
        BY <1>2, <2>2, <4>2, <4>4 DEF Flowing, Types
      <4> QED BY <4>3, <4>4
    <3> QED BY <3>1, <3>2 DEF End
  <2>8. Types'
    BY <1>2, <2>1, <2>2, <2>6, <2>7 DEF Types
  <2>9. Counted(e)' /\ Counted(x)'
    <3>1. Counted(e)'
      BY <1>2, <2>2, CountedOn DEF noise
    <3>2. Counted(x)'
      BY <1>1, <1>2, <2>2, CountedOn DEF noise, Counted
    <3> QED BY <3>1, <3>2
  <2>10. Tunnelling'
    BY <2>3 DEF Tunnelling
  <2> QED BY <1>1, <2>6, <2>7, <2>8, <2>9, <2>10 DEF WireInv
<1> QED BY <1>4, <1>5
\* What is sent next has the next number.
Following(e, s, n, f, t) == /\ f = [from |-> e, id |-> Len(s) + 1, size |-> n]
                            /\ t = Append(s, f)

LEMMA SentNext ==
    ASSUME NEW e \in End, NEW s, Numbered(e, s), Len(s) < MaxFrames[e], NEW n \in Payload,
           n = 0 \/ Fits(n), NEW f, NEW t, Following(e, s, n, f, t)
    PROVE  /\ f \in Frame /\ Numbered(e, t) /\ Begins(s, t) /\ Len(t) = Len(s) + 1
           /\ WireFrame(f, n, Nonces(s, Len(s))) = Nth(e, t, Len(t))
           /\ Nonces(t, Len(t)) = IF n = 0 THEN Nonces(s, Len(s)) ELSE Nonces(s, Len(s)) + 1
<1> USE DEF Following
<1>1. s \in Seq(Frame) /\ Len(s) \in Nat
  BY LenProperties DEF Numbered
<1>2. f \in Frame
  <2>1. MaxFrames[Client] \in Nat /\ MaxFrames[Host] \in Nat
    BY WireAssumption
  <2>2. Len(s) + 1 \in Numbers
    BY <1>1, <2>1 DEF Numbers, End
  <2> QED BY <2>2 DEF Frame
<1>3. /\ t \in Seq(Frame) /\ Len(t) = Len(s) + 1 /\ \A i \in 1 .. Len(s) : t[i] = s[i]
      /\ t[Len(s) + 1] = f
  BY <1>1, <1>2, AppendProperties
<1>4. Begins(s, t)
  BY <1>1, <1>3 DEF Begins
<1>5. Numbered(e, t)
  <2> SUFFICES ASSUME NEW i \in 1 .. Len(t)
               PROVE  t[i].from = e /\ t[i].id = i /\ (t[i].size = 0 \/ Fits(t[i].size))
    BY <1>3 DEF Numbered
  <2>1. CASE i \in 1 .. Len(s)
    BY <1>3, <2>1 DEF Numbered
  <2>2. CASE i = Len(s) + 1
    BY <1>3, <2>2
  <2> QED BY <1>1, <1>3, <2>1, <2>2
<1>6. Nonces(t, Len(s)) = Nonces(s, Len(s))
  BY <1>1, <1>3, NoncesSame
<1>7. WireFrame(f, n, Nonces(s, Len(s))) = Nth(e, t, Len(t))
  <2>1. Len(t) # 0 /\ Len(t) - 1 = Len(s) /\ t[Len(t)] = f /\ f.size = n
    BY <1>1, <1>3
  <2> QED BY <1>6, <2>1 DEF Nth
<1>8. Nonces(t, Len(s) + 1) = IF n = 0 THEN Nonces(t, Len(s)) ELSE Nonces(t, Len(s)) + 1
  <2>1. t[Len(s) + 1].size = n
    BY <1>3
  <2> QED BY <1>1, <2>1, NoncesNext
<1> QED BY <1>2, <1>3, <1>4, <1>5, <1>6, <1>7, <1>8

\* A frame is sent.
LEMMA SendInv ==
    ASSUME WireInv, NEW e \in End, NEW n \in Payload, SendFrame(e, n), UNCHANGED stage
    PROVE  WireInv'
<1> DEFINE x == Other(e)
           f == [from |-> e, id |-> Len(sent[e]) + 1, size |-> n]
           t == Append(sent[e], f)
<1>1. x \in End /\ x # e /\ Other(x) = e /\ \A y \in End : y = e \/ y = x
  BY Ends
<1> HIDE DEF x
<1>2. Types /\ Counted(e) /\ Counted(x) /\ Flowing(e) /\ Flowing(x) /\ Tunnelling
  BY <1>1 DEF WireInv
<1>3. phase[e] = "up" /\ rest[e] = <<>> /\ Len(sent[e]) < MaxFrames[e]
  BY DEF SendFrame, AtLoop
<1>4. stage = "tunnel" /\ Ready(e)
  BY <1>2, <1>3, Ends DEF Tunnelling, Ready, End
<1>5. CASE Close(e, "oversize")
  BY <1>4, <1>5, ClosedInv DEF Reasons
<1>6. CASE ~ Close(e, "oversize")
  <2>1. /\ n = 0 \/ Fits(n)
        /\ rest' = [rest EXCEPT ![e] = Encoded(WireFrame(f, n, nout[e]))]
        /\ nout' = IF n = 0 THEN nout ELSE [nout EXCEPT ![e] = @ + 1]
        /\ sent' = [sent EXCEPT ![e] = t]
        /\ UNCHANGED <<phase, flight, buf, nin, cut, why, got>>
    BY <1>6 DEF SendFrame
  <2>2. Numbered(e, sent[e]) /\ nout[e] = Nonces(sent[e], Len(sent[e])) /\ Len(sent[e]) \in Nat
    BY <1>2, LenProperties DEF Counted, Types
  <2>3. /\ f \in Frame /\ Numbered(e, t) /\ Begins(sent[e], t) /\ Len(t) = Len(sent[e]) + 1
        /\ WireFrame(f, n, nout[e]) = Nth(e, t, Len(t))
        /\ Nonces(t, Len(t)) = IF n = 0 THEN nout[e] ELSE nout[e] + 1
    <3> DEFINE s == sent[e]
    <3>1. Following(e, s, n, f, t)
      BY DEF Following
    <3>2. Numbered(e, s) /\ Len(s) < MaxFrames[e] /\ (n = 0 \/ Fits(n))
          /\ nout[e] = Nonces(s, Len(s))
      BY <1>3, <2>1, <2>2
    <3> HIDE DEF f, t, s
    <3>3. /\ f \in Frame /\ Numbered(e, t) /\ Begins(s, t) /\ Len(t) = Len(s) + 1
          /\ WireFrame(f, n, Nonces(s, Len(s))) = Nth(e, t, Len(t))
          /\ Nonces(t, Len(t)) = IF n = 0 THEN Nonces(s, Len(s)) ELSE Nonces(s, Len(s)) + 1
      BY <3>1, <3>2, SentNext
    <3> QED BY <3>2, <3>3 DEF s
  <2> HIDE DEF f, t
  <2>4. t \in Seq(Frame)
    BY <2>3 DEF Numbered
  <2>5. /\ sent'[e] = t /\ sent'[x] = sent[x] /\ rest'[x] = rest[x]
        /\ nout'[e] = Nonces(t, Len(t)) /\ nout'[x] = nout[x]
        /\ nout' \in [End -> Nat] /\ sent' \in [End -> Seq(Frame)]
    <3>1. sent'[e] = t /\ sent'[x] = sent[x] /\ sent' \in [End -> Seq(Frame)]
      BY <1>1, <1>2, <2>1, <2>4 DEF Types
    <3>2. rest'[x] = rest[x]
      BY <1>1, <1>2, <2>1 DEF Types
    <3>3. nout \in [End -> Nat]
      BY <1>2 DEF Types
    <3>4. nout'[e] = Nonces(t, Len(t)) /\ nout'[x] = nout[x] /\ nout' \in [End -> Nat]
      <4>1. CASE n = 0
        BY <2>1, <2>3, <3>3, <4>1
      <4>2. CASE n # 0
        <5>1. nout' = [nout EXCEPT ![e] = @ + 1] /\ Nonces(t, Len(t)) = nout[e] + 1
          BY <2>1, <2>3, <4>2
        <5> QED BY <1>1, <3>3, <5>1
      <4> QED BY <4>1, <4>2
    <3> QED BY <3>1, <3>2, <3>4
  <2>6. /\ NextIn(e)' = NextIn(e) /\ NextIn(x)' = NextIn(x) /\ NextOut(x)' = NextOut(x)
        /\ NextOut(e) = Len(t) /\ NextOut(e)' = Len(t) + 1 /\ Len(t) \in Nat
    BY <1>3, <2>1, <2>2, <2>3, <2>5 DEF NextIn, NextOut
  <2>7. Flowing(x)' /\ rest' \in [End -> Seq(WireByte)]
    <3>1. Len(t) \in 0 .. Len(t) /\ phase[e] # "closed"
          /\ UNCHANGED <<flight, cut, stage>> /\ buf'[x] = buf[x] /\ phase'[x] = phase[x]
          /\ got'[x] = got[x]
      BY <1>3, <2>1, <2>6
    <3> QED BY <1>3, <1>4, <2>1, <2>3, <2>5, <2>6, <3>1, PutInv DEF x
  <2>8. Flowing(e)'
    BY <1>2, <1>3, <2>1, <2>5, <2>6, FlowsSame DEF x
  <2>9. Types'
    BY <1>2, <2>1, <2>5, <2>7 DEF Types
  <2>10. Counted(e)'
    <3>1. Len(t) <= MaxFrames[e]
      <4>1. MaxFrames[e] \in Nat
        BY WireAssumption DEF End
      <4> QED BY <1>3, <2>2, <2>3, <4>1
    <3> QED BY <1>2, <1>3, <2>1, <2>3, <2>5, <3>1 DEF Counted, x
  <2>11. Counted(x)'
    <3>1. Begins(got[x], sent[e]) /\ nin[x] = Nonces(sent[e], Len(got[x]))
      BY <1>1, <1>2 DEF Counted
    <3>2. Len(got[x]) \in Nat /\ \A i \in 1 .. Len(got[x]) : i \in 1 .. Len(sent[e])
      BY <3>1 DEF Begins
    <3>3. \A i \in 1 .. Len(got[x]) : t[i] = sent[e][i]
      BY <2>3, <3>2 DEF Begins
    <3>4. Begins(got[x], t)
      BY <2>2, <2>3, <3>1, <3>2, <3>3 DEF Begins
    <3>5. Nonces(t, Len(got[x])) = Nonces(sent[e], Len(got[x]))
      BY <3>2, <3>3, NoncesSame
    <3> QED BY <1>1, <1>2, <2>1, <2>5, <3>1, <3>4, <3>5 DEF Counted
  <2>12. Tunnelling'
    BY <1>4 DEF Tunnelling
  <2> QED BY <1>1, <2>7, <2>8, <2>9, <2>10, <2>11, <2>12 DEF WireInv
<1> QED BY <1>5, <1>6

\* What an end that is up gets is the next frame of the other one.
LEMMA GetsNext ==
    ASSUME WireInv, NEW e \in End, Ready(e), phase[e] = "up", Complete(buf[e])
    PROVE  LET d == Other(e)
               w == Decoded(buf[e])
               k == Len(got[e]) + 1
           IN  /\ k \in 1 .. Len(sent[d])
               /\ w.kind = "plain" \/ (w.kind = "sealed" /\ w.nonce = nin[e])
               /\ w.kind # "init" /\ w.kind # "resp"
               /\ w.frame = sent[d][k] /\ Expected(e, w.len) = Nonces(sent[d], k)
<1> DEFINE d == Other(e)
           w == Decoded(buf[e])
           k == Len(got[e]) + 1
           s == sent[d]
<1>1. d \in End /\ Numbered(d, s) /\ nin[e] = Nonces(s, Len(got[e]))
      /\ Len(got[e]) \in Nat
  BY Ends, LenProperties DEF WireInv, Counted, Types
<1>2. w = Nth(d, s, NextIn(e)) /\ NextIn(e) \in 0 .. Len(s)
  BY InBuffer DEF Complete
<1>3. NextIn(e) = k /\ k \in Nat \ {0} /\ k - 1 = Len(got[e])
  BY <1>1 DEF NextIn
<1>4. k \in 1 .. Len(s)
  BY <1>2, <1>3
<1> HIDE DEF d, w, k, s
<1>5. w = WireFrame(s[k], s[k].size, nin[e])
  BY <1>1, <1>2, <1>3 DEF Nth
<1>6. s[k].size \in Nat
  <2>1. s[k] \in Frame
    BY <1>1, <1>4, ElementOfSeq DEF Numbered
  <2> QED BY <2>1, Limits DEF Frame
<1>7. Nonces(s, k) = IF s[k].size = 0 THEN nin[e] ELSE nin[e] + 1
  <2>1. Nonces(s, Len(got[e]) + 1) =
           IF s[Len(got[e]) + 1].size = 0 THEN Nonces(s, Len(got[e]))
           ELSE Nonces(s, Len(got[e])) + 1
    BY <1>1, NoncesNext
  <2> QED BY <1>1, <2>1 DEF k
<1>8. CASE s[k].size = 0
  BY <1>4, <1>5, <1>7, <1>8 DEF WireFrame, Expected, d, w, k, s
<1>9. CASE s[k].size # 0
  <2>1. w.kind = "sealed" /\ w.nonce = nin[e] /\ w.frame = s[k] /\ w.len = s[k].size + Tag
    BY <1>5, <1>9 DEF WireFrame
  <2>2. s[k].size + Tag # 0
    BY <1>6, <1>9, Limits
  <2>3. Expected(e, w.len) = nin[e] + 1
    BY <2>1, <2>2 DEF Expected
  <2> QED BY <1>4, <1>7, <1>9, <2>1, <2>3 DEF d, w, k, s
<1> QED BY <1>8, <1>9

\* A frame is received.
LEMMA RecvInv == ASSUME WireInv, NEW e \in End, RecvFrame(e), Ready(e), UNCHANGED stage PROVE WireInv'
<1> DEFINE x == Other(e)
           w == Decoded(buf[e])
           k == Len(got[e]) + 1
           g == Append(got[e], w.frame)
<1>1. x \in End /\ x # e /\ Other(x) = e /\ \A y \in End : y = e \/ y = x
  BY Ends
<1> HIDE DEF x
<1>2. Types /\ Counted(e) /\ Counted(x) /\ Flowing(e) /\ Flowing(x) /\ Tunnelling
  BY <1>1 DEF WireInv
<1>3. phase[e] = "up" /\ Complete(buf[e])
  BY DEF RecvFrame
<1>4. stage = "tunnel"
  BY <1>2, <1>3, Ends DEF Tunnelling, End
<1>5. CASE Close(e, "refused")
  BY <1>5, ClosedInv DEF Reasons
<1>6. CASE ~ Close(e, "refused")
  <2>1. /\ buf' = [buf EXCEPT ![e] = Remaining(@)]
        /\ nin' = [nin EXCEPT ![e] = Expected(e, w.len)]
        /\ got' = [got EXCEPT ![e] = g]
        /\ UNCHANGED <<phase, rest, flight, nout, cut, why, sent>>
    BY <1>6 DEF RecvFrame
  <2>2. k \in 1 .. Len(sent[x]) /\ w.frame = sent[x][k] /\ Expected(e, w.len) = Nonces(sent[x], k)
    BY <1>3, GetsNext DEF x
  <2> HIDE DEF w
  <2>3. /\ got[e] \in Seq(Frame) /\ Len(got[e]) \in Nat /\ sent[x] \in Seq(Frame)
        /\ Len(sent[x]) \in Nat /\ Begins(got[e], sent[x])
    BY <1>1, <1>2, LenProperties DEF Counted, Types, x
  <2>4. w.frame \in Frame
    BY <2>2, <2>3, ElementOfSeq
  <2>5. /\ g \in Seq(Frame) /\ Len(g) = k /\ g[k] = w.frame
        /\ \A i \in 1 .. Len(got[e]) : g[i] = got[e][i]
    BY <2>3, <2>4, AppendProperties
  <2> HIDE DEF g
  <2>6. Begins(g, sent[x])
    <3>1. ASSUME NEW i \in 1 .. Len(g) PROVE g[i] = sent[x][i]
      <4>1. CASE i = k
        BY <2>2, <2>5, <4>1
      <4>2. CASE i # k
        <5>1. i \in 1 .. Len(got[e])
          BY <2>3, <2>5, <4>2
        <5> QED BY <2>3, <2>5, <5>1 DEF Begins
      <4> QED BY <4>1, <4>2
    <3> QED BY <2>2, <2>3, <2>5, <3>1 DEF Begins
  <2>7. Nonces(sent[x], k) \in Nat
    BY <2>2, NoncesNat
  <2>8. /\ got'[e] = g /\ got'[x] = got[x] /\ nin'[e] = Nonces(sent[x], k) /\ nin'[x] = nin[x]
        /\ buf'[x] = buf[x]
        /\ nin' \in [End -> Nat] /\ got' \in [End -> Seq(Frame)]
    BY <1>1, <1>2, <2>1, <2>2, <2>5, <2>7 DEF Types
  <2>9. /\ NextIn(e)' = NextIn(e) + 1 /\ NextIn(x)' = NextIn(x)
        /\ NextOut(e)' = NextOut(e) /\ NextOut(x)' = NextOut(x)
    BY <1>3, <2>1, <2>3, <2>5, <2>8 DEF NextIn, NextOut
  <2>10. Flowing(e)' /\ buf' \in [End -> Seq(WireByte)]
    <3>1. phase[e] # "closed" /\ phase'[e] # "closed" /\ UNCHANGED <<flight, cut, stage>>
          /\ sent'[x] = sent[x] /\ rest'[x] = rest[x] /\ phase'[x] = phase[x]
      BY <1>3, <2>1
    <3> QED BY <1>3, <2>1, <2>9, <3>1, TakeInv DEF x
  <2>11. Flowing(x)'
    <3>1. CASE phase[x] = "closed"
      BY <2>1, <3>1 DEF Flowing
    <3>2. CASE phase[x] # "closed"
      <4>1. sent'[e] = sent[e] /\ rest'[e] = rest[e] /\ flight' = flight /\ cut' = cut
            /\ phase' = phase
        BY <2>1
      <4> QED BY <1>1, <1>2, <2>8, <2>9, <3>2, <4>1, FlowsSame
    <3> QED BY <3>1, <3>2
  <2>12. Types'
    BY <1>2, <2>1, <2>8, <2>10 DEF Types
  <2>13. Counted(e)'
    BY <1>2, <1>3, <2>1, <2>5, <2>6, <2>8 DEF Counted, x
  <2>14. Counted(x)'
    BY <1>1, <1>2, <2>1, <2>8 DEF Counted
  <2>15. Tunnelling'
    BY <1>4 DEF Tunnelling
  <2> QED BY <1>1, <2>10, <2>11, <2>12, <2>13, <2>14, <2>15 DEF WireInv
<1> QED BY <1>5, <1>6
-----------------------------------------------------------------------------
(* Theorems *)

LEMMA StepInv == WireInv /\ [TunnelNext]_tunnelVars => WireInv'
<1> SUFFICES ASSUME WireInv, [TunnelNext]_tunnelVars PROVE WireInv'
  OBVIOUS
<1>1. CASE Cut /\ UNCHANGED stage
  BY <1>1, CutInv
<1>2. CASE ProxyAnswers
  BY <1>2, ProxyInv
<1>3. ASSUME NEW e \in End, TunnelStep(e) PROVE WireInv'
  <2>1. CASE e = Client /\ Connecting
    BY <2>1, ConnectingInv
  <2>2. CASE Ready(e) /\ Step(e) /\ UNCHANGED stage
    <3>1. CASE e = Client /\ Hello
      BY <2>2, <3>1, HelloInv, Ends DEF Ready
    <3>2. CASE WriteSome(e)
      BY <2>2, <3>2, WriteInv
    <3>3. CASE WriteFails(e)
      BY <2>2, <3>3, ClosedInv DEF WriteFails, Reasons
    <3>4. CASE ReadSome(e)
      BY <2>2, <3>4, ReadInv
    <3>5. CASE ReadFails(e)
      <4>1. Close(e, "malformed") \/ Close(e, "lost")
        BY <3>5 DEF ReadFails
      <4> QED BY <2>2, <4>1, ClosedInv DEF Reasons
    <3>6. CASE Shake(e)
      BY <2>2, <3>6, ShakeInv
    <3>7. CASE RecvFrame(e)
      BY <2>2, <3>7, RecvInv
    <3> QED BY <2>2, <3>1, <3>2, <3>3, <3>4, <3>5, <3>6, <3>7 DEF Step
  <2> QED BY <1>3, <2>1, <2>2 DEF TunnelStep
<1>4. ASSUME NEW e \in End, Quit(e), UNCHANGED stage PROVE WireInv'
  <2>1. Ready(e)
    BY <1>4, Ends DEF Quit, WireInv, Tunnelling, Ready, End
  <2> QED BY <1>4, <2>1, ClosedInv DEF Quit, Reasons
<1>5. ASSUME NEW e \in End, NEW n \in Payload, SendFrame(e, n), UNCHANGED stage PROVE WireInv'
  BY <1>5, SendInv
<1>6. CASE UNCHANGED tunnelVars \/ (Return /\ UNCHANGED stage)
  <2>1. UNCHANGED <<phase, rest, flight, buf, nout, nin, cut, why, sent, got, stage>>
    BY <1>6 DEF tunnelVars, vars, Return, link, noise
  <2>2. Types' /\ Tunnelling'
    BY <2>1 DEF WireInv, Types, Tunnelling
  <2>3. ASSUME NEW e \in End PROVE Counted(e)' /\ Flowing(e)'
    <3>1. Counted(e) /\ Flowing(e)
      BY DEF WireInv
    <3>2. Counted(e)'
      BY <2>1, <3>1 DEF Counted
    <3>3. (IF cut' THEN <<>> ELSE rest'[Other(e)]) = IF cut THEN <<>> ELSE rest[Other(e)]
      BY <2>1
    <3>4. Stream(e)' = Stream(e)
      BY <2>1, <3>3 DEF Stream
    <3>5. NextIn(e)' = NextIn(e) /\ NextOut(Other(e))' = NextOut(Other(e))
      BY <2>1 DEF NextIn, NextOut
    <3>6. Flowing(e)'
      BY <2>1, <3>1, <3>4, <3>5 DEF Flowing, Ready
    <3> QED BY <3>2, <3>6
  <2> QED BY <2>2, <2>3 DEF WireInv
<1> QED BY <1>1, <1>2, <1>3, <1>4, <1>5, <1>6 DEF TunnelNext

\* What is between the ends is always frames of the other end, whole and in
\* order, as long as both write and read; the nonces count what has been sent and
\* got; before the tunnel there is at most one answer of the proxy on the stream.
THEOREM StreamInOrder == TunnelSpec => []WireInv
<1>1. TunnelInit => WireInv
  BY InitInv
<1>2. WireInv /\ [TunnelNext]_tunnelVars => WireInv'
  BY StepInv
<1> QED BY <1>1, <1>2, PTL DEF TunnelSpec

\* A step of the connection is a step of the pipe, or none that the pipe sees.
LEMMA PipeStep ==
    WireInv /\ [TunnelNext]_tunnelVars
    => [\E e \in End : P!PipeSend(e) \/ P!PipeReceive(e)]_<<sent, got>>
<1> SUFFICES ASSUME WireInv, [TunnelNext]_tunnelVars,
                    ~ UNCHANGED <<sent, got>>
             PROVE  \E e \in End : P!PipeSend(e) \/ P!PipeReceive(e)
  OBVIOUS
<1>1. ASSUME NEW e \in End, NEW n \in Payload, SendFrame(e, n) PROVE P!PipeSend(e)
  <2> DEFINE f == [from |-> e, id |-> Len(sent[e]) + 1, size |-> n]
  <2>1. /\ Len(sent[e]) < MaxFrames[e] /\ (n = 0 \/ Fits(n))
        /\ sent' = [sent EXCEPT ![e] = Append(@, f)] /\ got' = got
    BY <1>1 DEF SendFrame, Close
  <2>2. Numbered(e, sent[e])
    BY DEF WireInv, Counted
  <2>3. Following(e, sent[e], n, f, Append(sent[e], f))
    BY DEF Following
  <2> HIDE DEF f
  <2>4. f \in Frame
    BY <2>1, <2>2, <2>3, SentNext
  <2> QED BY <2>1, <2>4 DEF P!PipeSend
<1>2. ASSUME NEW e \in End, RecvFrame(e), Ready(e) PROVE P!PipeReceive(e)
  <2> DEFINE d == Other(e)
             k == Len(got[e]) + 1
  <2>1. P!Other(e) = d
    BY Ends DEF P!Other
  <2>2. phase[e] = "up" /\ Complete(buf[e])
    BY <1>2 DEF RecvFrame
  <2>3. k \in 1 .. Len(sent[d]) /\ Decoded(buf[e]).frame = sent[d][k]
    BY <1>2, <2>2, GetsNext
  <2>4. got' = [got EXCEPT ![e] = Append(@, Decoded(buf[e]).frame)] /\ sent' = sent
    BY <1>2 DEF RecvFrame, Close
  <2>5. Len(got[e]) < Len(sent[d])
    <3>1. Len(got[e]) \in Nat /\ Len(sent[d]) \in Nat
      BY Ends, LenProperties DEF WireInv, Types
    <3> QED BY <2>3, <3>1
  <2>6. got' = [got EXCEPT ![e] = Append(@, sent[d][Len(@) + 1])]
    BY <2>3, <2>4
  <2> QED BY <2>1, <2>4, <2>5, <2>6 DEF P!PipeReceive
<1>3. ASSUME NEW e \in End, Step(e), Ready(e) PROVE RecvFrame(e)
  BY <1>3 DEF Step, Hello, WriteSome, WriteFails, ReadSome, ReadFails, Shake, Close
<1>4. ASSUME Connecting PROVE FALSE
  BY <1>4 DEF Connecting, Greet, ReadMethod, ReadHead, Drain, TunnelFails, Fails, ReadExact,
              Close, vars
<1>5. ~ Cut /\ ~ Return /\ ~ ProxyAnswers
  BY DEF Cut, Return, ProxyAnswers, Proxy
<1>6. ~ UNCHANGED tunnelVars
  BY DEF tunnelVars, vars
<1>7. \A e \in End : ~ Quit(e)
  BY DEF Quit, Close
<1> QED BY <1>1, <1>2, <1>3, <1>4, <1>5, <1>6, <1>7 DEF TunnelNext, TunnelStep

\* The connection implements the pipe: an end is given the frames the other one
\* has sent, in order, none changed, left out or given twice.
THEOREM ConnectionIsPipe == TunnelSpec => ImplementsPipe
<1>1. TunnelInit => P!PipeInit
  BY DEF TunnelInit, Init, P!PipeInit
<1>2. WireInv /\ [TunnelNext]_tunnelVars
      => [\E e \in End : P!PipeSend(e) \/ P!PipeReceive(e)]_P!pipeVars
  BY PipeStep DEF P!pipeVars
<1> QED BY <1>1, <1>2, StreamInOrder, PTL DEF TunnelSpec, ImplementsPipe, P!PipeSpec
\* What the cipher makes of a frame is no longer than what decode_frame takes, as
\* 65535 and 65536 are: an end never closes over what the other one has sent.
CipherFits == 2 <= MaxFrame /\ NoiseMax < MaxFrame

LEMMA NeverMalformed ==
    ASSUME CipherFits, WireInv, NEW e \in End, Ready(e), phase[e] # "closed"
    PROVE  ~ Malformed(buf[e])
<1> SUFFICES ASSUME Len(buf[e]) >= PrefixLen PROVE LengthIn(buf[e]) \in 1 .. MaxFrame
  BY DEF Malformed
<1> DEFINE d == Other(e)
           w == Decoded(buf[e])
           k == NextIn(e)
           s == sent[d]
<1>1. d \in End /\ Numbered(d, s)
  BY Ends DEF WireInv, Counted
<1>2. k \in 0 .. Len(s) /\ w = Nth(d, s, k) /\ w.len \in Nat /\ LengthIn(buf[e]) = 1 + w.len
  BY InBuffer
<1> HIDE DEF d, w, k, s
<1>3. w.len < MaxFrame
  <2>1. CASE k = 0
    BY <1>2, <2>1, Limits DEF Nth, Handshake, CipherFits
  <2>2. CASE k # 0
    <3>1. k \in 1 .. Len(s)
      BY <1>2, <2>2
    <3>2. s[k].size \in Nat /\ (s[k].size = 0 \/ s[k].size + Tag <= NoiseMax)
      <4>1. s[k] \in Frame
        BY <1>1, <3>1, ElementOfSeq DEF Numbered
      <4>2. s[k].size = 0 \/ s[k].size + Tag <= NoiseMax
        BY <1>1, <3>1 DEF Numbered, Fits
      <4> QED BY <4>1, <4>2, Limits DEF Frame
    <3>3. w = WireFrame(s[k], s[k].size, Nonces(s, k - 1))
      BY <1>2, <2>2 DEF Nth
    <3>4. CASE s[k].size = 0
      BY <3>3, <3>4, Limits DEF WireFrame
    <3>5. CASE s[k].size # 0
      <4>1. w.len = s[k].size + Tag
        BY <3>3, <3>5 DEF WireFrame
      <4> QED BY <3>2, <3>5, <4>1, Limits DEF CipherFits
    <3> QED BY <3>4, <3>5
  <2> QED BY <2>1, <2>2
<1>4. w.len \in Nat
  BY <1>2
<1> HIDE DEF CipherFits
<1>5. 1 + w.len \in 1 .. MaxFrame
  BY <1>3, <1>4, Limits
<1> QED BY <1>2, <1>5

LEMMA NeverRefused ==
    ASSUME CipherFits, WireInv, NothingRefused, [TunnelNext]_tunnelVars
    PROVE  NothingRefused'
<1> DEFINE Fine == {"open", "quit", "lost", "oversize", "no_tunnel"}
<1>1. \A e \in End : why[e] \in Fine
  BY DEF WireInv, Types, Reasons, NothingRefused
<1>2. SUFFICES ASSUME why' # why PROVE \A e \in End : why'[e] \in Fine
  BY DEF NothingRefused
<1>3. ASSUME NEW e \in End, NEW reason \in Fine, Close(e, reason)
      PROVE  \A x \in End : why'[x] \in Fine
  BY <1>1, <1>3 DEF Close, WireInv, Types
<1> HIDE DEF Fine
<1>4. {"lost", "oversize", "no_tunnel", "quit"} \subseteq Fine
  BY DEF Fine
<1>5. ASSUME NEW e \in End, TunnelStep(e) PROVE \A x \in End : why'[x] \in Fine
  <2>1. CASE e = Client /\ Connecting
    <3>1. Close(Client, "lost") \/ Close(Client, "no_tunnel")
      BY <1>2, <2>1 DEF Connecting, Greet, ReadMethod, ReadHead, Drain, TunnelFails, Fails,
                        ReadExact, vars
    <3> QED BY <1>3, <1>4, <3>1, Ends
  <2>2. CASE Ready(e) /\ Step(e)
    <3>1. CASE WriteFails(e)
      BY <1>3, <1>4, <3>1 DEF WriteFails
    <3>2. CASE ReadFails(e)
      <4>1. phase[e] # "closed"
        BY <3>2 DEF ReadFails, Reading, AtLoop
      <4>2. Close(e, "lost")
        BY <2>2, <3>2, <4>1, NeverMalformed DEF ReadFails
      <4> QED BY <1>3, <1>4, <4>2
    <3>3. CASE Shake(e)
      <4>1. phase[e] = "waiting" /\ Complete(buf[e])
        BY <3>3 DEF Shake
      <4>2. Decoded(buf[e]) = Nth(Other(e), sent[Other(e)], NextIn(e))
        BY <2>2, <4>1, InBuffer DEF Complete
      <4>3. Decoded(buf[e]) = Handshake(IF Other(e) = Client THEN "init" ELSE "resp")
        BY <4>1, <4>2 DEF Nth, NextIn
      <4>4. Decoded(buf[e]).kind = IF e = Host THEN "init" ELSE "resp"
        BY <4>3, Ends DEF Handshake, End
      <4> QED BY <1>2, <3>3, <4>4 DEF Shake
    <3>4. CASE RecvFrame(e)
      <4>1. phase[e] = "up" /\ Complete(buf[e])
        BY <3>4 DEF RecvFrame
      <4>2. LET w == Decoded(buf[e])
            IN  w.kind = "plain" \/ (w.kind = "sealed" /\ w.nonce = nin[e])
        BY <2>2, <4>1, GetsNext
      <4> QED BY <1>2, <3>4, <4>2 DEF RecvFrame
    <3> QED BY <1>2, <2>2, <3>1, <3>2, <3>3, <3>4 DEF Step, Hello, WriteSome, ReadSome
  <2> QED BY <1>5, <2>1, <2>2 DEF TunnelStep
<1>6. ASSUME NEW e \in End, Quit(e) PROVE \A x \in End : why'[x] \in Fine
  BY <1>3, <1>4, <1>6 DEF Quit
<1>7. ASSUME NEW e \in End, NEW n \in Payload, SendFrame(e, n)
      PROVE  \A x \in End : why'[x] \in Fine
  BY <1>2, <1>3, <1>4, <1>7 DEF SendFrame
<1>8. ~ Cut /\ ~ Return /\ ~ ProxyAnswers /\ ~ UNCHANGED tunnelVars
  BY <1>2 DEF Cut, Return, ProxyAnswers, Proxy, tunnelVars, vars
<1> QED BY <1>5, <1>6, <1>7, <1>8 DEF TunnelNext

\* No end ever closes over what the other end has sent, as long as what the cipher
\* allows fits decode_frame.
THEOREM NothingIsRefused == ASSUME CipherFits PROVE TunnelSpec => []NothingRefused
<1>1. TunnelInit => NothingRefused
  BY DEF TunnelInit, Init, NothingRefused
<1>2. WireInv /\ NothingRefused /\ [TunnelNext]_tunnelVars => NothingRefused'
  BY NeverRefused
<1> QED BY <1>1, <1>2, StreamInOrder, PTL DEF TunnelSpec
-----------------------------------------------------------------------------
(* The type invariant *)

\* Until the client says hello no byte is on a tunnel and the host has nothing.
Early ==
    /\ stage \notin {"tunnel", "failed"} => phase[Client] = "hello"
    /\ phase[Client] = "hello" /\ stage = "tunnel" => flight[Client] = <<>>
    /\ phase[Client] = "hello" => /\ phase[Host] # "up" /\ rest[Host] = <<>>
                                  /\ flight[Host] = <<>> /\ buf[Host] = <<>>

\* What the sockets and the read buffer of e hold.
Held(e) == /\ phase[e] # "hello" => Len(flight[e]) <= SockCap
           /\ Len(buf[e]) < PrefixLen + MaxFrame + ReadMax

HeldInv == Early /\ \A e \in End : Held(e)

LEMMA TypeFromWire == WireInv /\ HeldInv /\ away \in BOOLEAN => TypeOK
<1> SUFFICES ASSUME WireInv, HeldInv, away \in BOOLEAN PROVE TypeOK
  OBVIOUS
<1>1. Types
  BY DEF WireInv
<1>2. ASSUME NEW e \in End PROVE Nonces(sent[e], Len(sent[e])) \in {0} \cup Numbers
  <2>1. Len(sent[e]) \in Nat /\ Len(sent[e]) <= MaxFrames[e] /\ MaxFrames[Client] \in Nat
        /\ MaxFrames[Host] \in Nat
    BY LenProperties, WireAssumption, Ends DEF WireInv, Types, Counted
  <2>2. Nonces(sent[e], Len(sent[e])) \in 0 .. Len(sent[e])
    BY <2>1, NoncesNat
  <2> QED BY <2>1, <2>2 DEF Numbers, End
<1>3. ASSUME NEW e \in End PROVE nout[e] \in {0} \cup Numbers
  BY <1>2 DEF WireInv, Counted
<1>4. ASSUME NEW e \in End PROVE nin[e] \in {0} \cup Numbers
  <2> DEFINE d == Other(e)
  <2>1. d \in End
    BY Ends
  <2>2. Len(sent[d]) \in Nat /\ Len(sent[d]) <= MaxFrames[d] /\ MaxFrames[Client] \in Nat
        /\ MaxFrames[Host] \in Nat
    BY <2>1, LenProperties, WireAssumption, Ends DEF WireInv, Types, Counted
  <2>3. Len(got[e]) \in Nat /\ Len(got[e]) <= Len(sent[d]) /\ nin[e] = Nonces(sent[d], Len(got[e]))
    BY LenProperties DEF WireInv, Types, Counted, Begins
  <2>4. nin[e] \in 0 .. Len(got[e])
    BY <2>3, NoncesNat
  <2> HIDE DEF d
  <2> QED BY <2>1, <2>2, <2>3, <2>4 DEF Numbers, End
<1>5. /\ nout \in [End -> {0} \cup Numbers] /\ nin \in [End -> {0} \cup Numbers]
  BY <1>1, <1>3, <1>4 DEF Types
<1> QED BY <1>1, <1>5 DEF Types, TypeOK, HeldInv, Held, Reasons

\* What is cut short takes no more room.
LEMMA CutShort ==
    ASSUME NEW X, NEW S \in Seq(X), NEW k \in 0 .. Len(S)
    PROVE  /\ Len(SubSeq(S, 1, k)) <= Len(S)
           /\ S = <<>> => SubSeq(S, 1, k) = <<>>
<1>1. /\ SubSeq(S, 1, k) \in Seq(X) /\ Len(SubSeq(S, 1, k)) = k /\ Len(S) \in Nat
  BY Parts, LenProperties
<1>2. S = <<>> => k = 0
  OBVIOUS
<1> QED BY <1>1, <1>2, EmptySeq

LEMMA ClosedHeld ==
    ASSUME WireInv, HeldInv, NEW e \in End, NEW reason, Close(e, reason),
           \/ Ready(e) /\ UNCHANGED stage
           \/ e = Client /\ stage' = "failed"
    PROVE  HeldInv'
<1> DEFINE x == Other(e)
<1>1. x \in End /\ x # e /\ Other(x) = e /\ \A y \in End : y = e \/ y = x
  BY Ends
<1> HIDE DEF x
<1>2. PICK k \in 0 .. Len(flight[x]) :
         flight' = [flight EXCEPT ![e] = <<>>, ![x] = SubSeq(@, 1, k)]
  BY DEF Close, x
<1>3. /\ phase'[e] = "closed" /\ phase'[x] = phase[x]
      /\ rest'[e] = <<>> /\ rest'[x] = rest[x]
      /\ buf'[e] = <<>> /\ buf'[x] = buf[x]
      /\ flight'[e] = <<>> /\ flight'[x] = SubSeq(flight[x], 1, k)
  BY <1>1, <1>2 DEF WireInv, Types, Close
<1>4. Len(flight'[x]) <= Len(flight[x]) /\ (flight[x] = <<>> => flight'[x] = <<>>)
      /\ Len(flight[x]) \in Nat /\ Len(flight'[x]) \in Nat
  <2>1. flight[x] \in Seq(WireByte)
    BY <1>1 DEF WireInv, Types
  <2>2. SubSeq(flight[x], 1, k) \in Seq(WireByte)
    BY <2>1, Parts
  <2> QED BY <1>3, <2>1, <2>2, CutShort, LenProperties
<1>5. Held(e)'
  <2>1. Len(<<>>) = 0
    OBVIOUS
  <2>2. 0 < PrefixLen + MaxFrame + ReadMax /\ 0 <= SockCap
    BY Limits
  <2> QED BY <1>3, <2>1, <2>2 DEF Held
<1>6. Held(x)'
  <2>1. Held(x)
    BY <1>1 DEF HeldInv
  <2> QED BY <1>3, <1>4, <2>1, Limits DEF Held
<1>7. Early'
  <2>1. Early
    BY DEF HeldInv
  <2>2. CASE e = Client
    <3>1. phase'[Client] = "closed" /\ stage' \in {"tunnel", "failed"}
      BY <1>3, <2>2, Ends DEF Ready
    <3> QED BY <3>1 DEF Early
  <2>3. CASE e = Host
    <3>1. x = Client /\ stage' = stage
      BY <2>3, Ends DEF x
    <3> QED BY <1>3, <1>4, <2>1, <2>3, <3>1 DEF Early
  <2> QED BY <2>2, <2>3 DEF End
<1> QED BY <1>1, <1>5, <1>6, <1>7 DEF HeldInv

\* What is left of a buffer when a frame is taken out takes less room.
LEMMA TakenHeld ==
    ASSUME WireInv, HeldInv, NEW e \in End, phase[e] # "closed", phase[e] # "hello",
           Complete(buf[e]), buf' = [buf EXCEPT ![e] = Remaining(@)],
           UNCHANGED <<flight, stage>>, rest'[Other(e)] = rest[Other(e)],
           phase'[Other(e)] = phase[Other(e)], phase'[e] # "hello",
           e = Host => phase[Client] # "hello"
    PROVE  HeldInv'
<1> DEFINE x == Other(e)
<1>1. x \in End /\ x # e /\ Other(x) = e /\ \A y \in End : y = e \/ y = x
  BY Ends
<1> HIDE DEF x
<1>2. buf[e] \in Seq(WireByte) /\ buf'[e] = Remaining(buf[e]) /\ buf'[x] = buf[x]
      /\ Len(buf[e]) \in Nat
  BY <1>1, LenProperties DEF WireInv, Types
<1>3. Len(buf'[e]) <= Len(buf[e]) /\ Len(buf'[e]) \in Nat
  <2> DEFINE m == PrefixLen + LengthIn(buf[e])
  <2>1. m \in 0 .. Len(buf[e])
    BY <1>2, Limits DEF Complete
  <2>2. Remaining(buf[e]) = SubSeq(buf[e], m + 1, Len(buf[e]))
    BY DEF Remaining
  <2> HIDE DEF m
  <2>3. Len(SubSeq(buf[e], m + 1, Len(buf[e]))) = Len(buf[e]) - m
    BY <1>2, <2>1, Parts
  <2> QED BY <1>2, <2>1, <2>2, <2>3
<1>4. Held(e)' /\ Held(x)'
  <2>1. Held(e) /\ Held(x)
    BY <1>1 DEF HeldInv
  <2>2. Held(x)'
    BY <1>2, <2>1 DEF Held, x
  <2>3. Held(e)'
    BY <1>2, <1>3, <2>1, Limits DEF Held
  <2> QED BY <2>2, <2>3
<1>5. Early'
  <2>1. Early /\ phase'[Client] # "hello"
    BY <1>1, Ends DEF HeldInv, End, x
  <2>2. stage' = stage /\ phase[Client] # "hello"
    BY <2>1, Ends DEF End
  <2> QED BY <2>1, <2>2 DEF Early
<1> QED BY <1>1, <1>4, <1>5 DEF HeldInv
\* Bytes that are written fit the socket; nothing is written before the hello.
LEMMA WriteHeld ==
    ASSUME WireInv, HeldInv, NEW e \in End, WriteSome(e), UNCHANGED stage
    PROVE  HeldInv'
<1> DEFINE x == Other(e)
<1>1. x \in End /\ x # e /\ Other(x) = e /\ \A y \in End : y = e \/ y = x
  BY Ends
<1> HIDE DEF x
<1>2. PICK k \in 1 .. Len(rest[e]) :
         /\ Len(flight[x]) + k <= SockCap
         /\ flight' = [flight EXCEPT ![x] = @ \o SubSeq(rest[e], 1, k)]
         /\ rest' = [rest EXCEPT ![e] = SubSeq(@, k + 1, Len(@))]
  BY DEF WriteSome, x
<1>3. UNCHANGED <<phase, buf, stage>> /\ Types /\ Early /\ Held(e) /\ Held(x)
  BY <1>1 DEF WriteSome, WireInv, HeldInv
<1>4. rest[e] \in Seq(WireByte) /\ flight[x] \in Seq(WireByte)
      /\ Len(rest[e]) \in Nat /\ Len(flight[x]) \in Nat
  BY <1>1, <1>3, LenProperties DEF Types
<1>5. rest[e] # <<>> /\ k \in 0 .. Len(rest[e])
  <2>1. Len(rest[e]) # 0 /\ k \in 0 .. Len(rest[e])
    BY <1>4
  <2> QED BY <2>1, EmptySeq
<1>6. phase[Client] # "hello"
  BY <1>3, <1>5, Ends DEF Early, WireInv, Counted, End
<1>7. flight'[e] = flight[e] /\ Len(flight'[x]) <= SockCap
  <2> DEFINE W == SubSeq(rest[e], 1, k)
  <2>1. W \in Seq(WireByte) /\ Len(W) = k
    BY <1>4, <1>5, Parts
  <2> HIDE DEF W
  <2>2. flight'[x] = flight[x] \o W /\ flight'[e] = flight[e]
    BY <1>1, <1>2, <1>3 DEF Types, W
  <2>3. Len(flight[x] \o W) = Len(flight[x]) + Len(W)
    BY <1>4, <2>1, ConcatProperties
  <2> QED BY <1>2, <2>1, <2>2, <2>3
<1>8. Held(e)' /\ Held(x)'
  BY <1>3, <1>7 DEF Held
<1>9. Early'
  BY <1>3, <1>6 DEF Early
<1> QED BY <1>1, <1>8, <1>9 DEF HeldInv

\* A read ends with less than a frame, and one read more.
LEMMA ReadHeld ==
    ASSUME WireInv, HeldInv, NEW e \in End, ReadSome(e), UNCHANGED stage
    PROVE  HeldInv'
<1> DEFINE x == Other(e)
<1>1. x \in End /\ x # e /\ Other(x) = e /\ \A y \in End : y = e \/ y = x
  BY Ends
<1> HIDE DEF x
<1>2. PICK k \in 1 .. Len(flight[e]) :
         /\ k <= ReadMax
         /\ buf' = [buf EXCEPT ![e] = @ \o SubSeq(flight[e], 1, k)]
         /\ flight' = [flight EXCEPT ![e] = SubSeq(@, k + 1, Len(@))]
  BY DEF ReadSome
<1>3. /\ UNCHANGED <<phase, rest, stage>> /\ Types /\ Early /\ Held(e) /\ Held(x)
      /\ phase[e] \in {"waiting", "up"} /\ ~ Complete(buf[e]) /\ ~ Malformed(buf[e])
  BY <1>1 DEF ReadSome, Reading, AtLoop, WireInv, HeldInv
<1>4. buf[e] \in Seq(WireByte) /\ flight[e] \in Seq(WireByte)
      /\ Len(buf[e]) \in Nat /\ Len(flight[e]) \in Nat /\ k \in 0 .. Len(flight[e])
      /\ flight[e] # <<>>
  <2>1. buf[e] \in Seq(WireByte) /\ flight[e] \in Seq(WireByte)
        /\ Len(buf[e]) \in Nat /\ Len(flight[e]) \in Nat
    BY <1>3, LenProperties DEF Types
  <2>2. Len(flight[e]) # 0 /\ k \in 0 .. Len(flight[e])
    BY <2>1
  <2> QED BY <2>1, <2>2, EmptySeq
<1>5. phase[Client] # "hello"
  BY <1>3, <1>4 DEF Early, End
<1>6. Len(buf[e]) < PrefixLen + MaxFrame
  <2>1. CASE Len(buf[e]) < PrefixLen
    BY <1>4, <2>1, Limits
  <2>2. CASE ~ Len(buf[e]) < PrefixLen
    <3>1. LengthIn(buf[e]) \in 1 .. MaxFrame /\ ~ Len(buf[e]) >= PrefixLen + LengthIn(buf[e])
      BY <1>3, <1>4, <2>2, Limits DEF Complete, Malformed
    <3> QED BY <1>4, <3>1, Limits
  <2> QED BY <2>1, <2>2
<1>7. /\ Len(buf'[e]) = Len(buf[e]) + k /\ buf'[x] = buf[x] /\ flight'[x] = flight[x]
      /\ Len(flight'[e]) = Len(flight[e]) - k
  <2> DEFINE W == SubSeq(flight[e], 1, k)
             Z == SubSeq(flight[e], k + 1, Len(flight[e]))
  <2>1. W \in Seq(WireByte) /\ Len(W) = k /\ Len(Z) = Len(flight[e]) - k
    BY <1>4, Parts
  <2>2. buf'[e] = buf[e] \o W /\ buf'[x] = buf[x] /\ flight'[x] = flight[x] /\ flight'[e] = Z
    BY <1>1, <1>2, <1>3 DEF Types
  <2> HIDE DEF W, Z
  <2>3. Len(buf[e] \o W) = Len(buf[e]) + Len(W)
    <3>1. buf[e] \in Seq(WireByte) /\ W \in Seq(WireByte)
      BY <1>4, <2>1
    <3> QED BY <3>1, ConcatProperties
  <2> QED BY <2>1, <2>2, <2>3
<1>8. Held(e)' /\ Held(x)'
  <2>1. Held(x)'
    BY <1>3, <1>7 DEF Held
  <2>2. Len(buf'[e]) < PrefixLen + MaxFrame + ReadMax
    BY <1>2, <1>4, <1>6, <1>7, Limits
  <2>3. Len(flight'[e]) <= SockCap
    BY <1>3, <1>4, <1>7, Limits DEF Held
  <2> QED BY <2>1, <2>2, <2>3 DEF Held
<1>9. Early'
  BY <1>3, <1>5 DEF Early
<1> QED BY <1>1, <1>8, <1>9 DEF HeldInv

\* Until there is a tunnel the client has not said hello.
LEMMA ConnectingHeld == ASSUME WireInv, HeldInv, Connecting PROVE HeldInv'
<1>1. ASSUME NEW reason, Fails(reason) PROVE HeldInv'
  BY <1>1, ClosedHeld, Ends DEF Fails
<1>2. ASSUME NEW n, NEW next, stage \notin {"tunnel", "failed"}, ReadExact(n, next),
             next = "tunnel" => flight'[Client] = <<>>
      PROVE  HeldInv'
  <2>1. /\ Early /\ Held(Client) /\ Held(Host) /\ Types /\ phase[Client] = "hello"
        /\ stage' = next
        /\ UNCHANGED <<phase, rest, buf>> /\ flight'[Host] = flight[Host]
    BY <1>2, Ends DEF HeldInv, WireInv, Types, ReadExact, Early
  <2>2. Held(Client)' /\ Held(Host)'
    BY <2>1 DEF Held
  <2>3. Early'
    BY <1>2, <2>1 DEF Early
  <2> QED BY <2>2, <2>3 DEF HeldInv, End
<1>3. CASE Greet
  <2>1. stage = "greet" /\ stage' = "method" /\ UNCHANGED <<phase, rest, buf, flight>>
    BY <1>3 DEF Greet, vars, link
  <2>2. Early'
    BY <2>1 DEF HeldInv, Early
  <2>3. ASSUME NEW e \in End PROVE Held(e)'
    BY <2>1 DEF HeldInv, Held
  <2> QED BY <2>2, <2>3 DEF HeldInv
<1>4. CASE ReadMethod
  <2>1. ReadExact(MethodLen, "reply") \/ Fails("no_tunnel")
    BY <1>4 DEF ReadMethod
  <2>2. stage \notin {"tunnel", "failed"}
    BY <1>4 DEF ReadMethod
  <2> QED BY <1>1, <1>2, <2>1, <2>2
<1>5. CASE ReadHead
  <2>1. ReadExact(HeadLen, "drain") \/ Fails("no_tunnel")
    BY <1>5 DEF ReadHead
  <2>2. stage \notin {"tunnel", "failed"}
    BY <1>5 DEF ReadHead
  <2> QED BY <1>1, <1>2, <2>1, <2>2
<1>6. CASE Drain
  <2>1. ReadExact(ToDrain(First), "tunnel") /\ stage \notin {"tunnel", "failed"}
    BY <1>6 DEF Drain
  <2>2. flight'[Client] = SubSeq(flight[Client], ToDrain(First) + 1, Len(flight[Client]))
    BY <2>1, Ends DEF ReadExact, WireInv, Types
  <2>3. flight'[Client] = <<>>
    BY <1>6, <2>2, Drained
  <2> QED BY <1>2, <2>1, <2>3
<1>7. CASE TunnelFails
  BY <1>1, <1>7 DEF TunnelFails
<1> QED BY <1>3, <1>4, <1>5, <1>6, <1>7 DEF Connecting

LEMMA HeldStep == WireInv /\ HeldInv /\ [TunnelNext]_tunnelVars => HeldInv'
<1> SUFFICES ASSUME WireInv, HeldInv, [TunnelNext]_tunnelVars PROVE HeldInv'
  OBVIOUS
<1> USE DEF HeldInv
<1>1. CASE Cut /\ UNCHANGED stage
  <2>1. UNCHANGED <<phase, rest, buf, stage>>
    BY <1>1 DEF Cut
  <2>2. ASSUME NEW e \in End
        PROVE  /\ Len(flight'[e]) <= Len(flight[e]) /\ Len(flight[e]) \in Nat
               /\ Len(flight'[e]) \in Nat
               /\ flight[e] = <<>> => flight'[e] = <<>>
    <3>1. \E k \in 0 .. Len(flight[e]) : flight'[e] = SubSeq(flight[e], 1, k)
      BY <1>1, Ends DEF Cut, End
    <3>2. PICK k \in 0 .. Len(flight[e]) : flight'[e] = SubSeq(flight[e], 1, k)
      BY <3>1
    <3>3. flight[e] \in Seq(WireByte)
      BY DEF WireInv, Types
    <3>4. SubSeq(flight[e], 1, k) \in Seq(WireByte)
      BY <3>3, Parts
    <3> QED BY <3>2, <3>3, <3>4, CutShort, LenProperties
  <2>3. Early'
    BY <2>1, <2>2, Ends DEF Early
  <2>4. ASSUME NEW e \in End PROVE Held(e)'
    BY <2>1, <2>2, Limits DEF Held
  <2> QED BY <2>3, <2>4
<1>2. CASE ProxyAnswers
  <2>1. /\ stage \in {"method", "reply"} /\ stage' \in {"chosen", "replied"}
        /\ UNCHANGED <<phase, rest, buf>> /\ flight'[Host] = flight[Host]
    BY <1>2, Ends DEF ProxyAnswers, Proxy, WireInv, Types
  <2>2. phase[Client] = "hello"
    BY <2>1 DEF Early
  <2>3. Early'
    BY <2>1, <2>2 DEF Early
  <2>4. Held(Client)' /\ Held(Host)'
    BY <2>1, <2>2, Ends DEF Held
  <2> QED BY <2>3, <2>4 DEF End
<1>3. ASSUME NEW e \in End, TunnelStep(e) PROVE HeldInv'
  <2>1. CASE e = Client /\ Connecting
    BY <2>1, ConnectingHeld
  <2>2. CASE Ready(e) /\ Step(e) /\ UNCHANGED stage
    <3>1. CASE e = Client /\ Hello
      <4>1. /\ stage = "tunnel" /\ flight[Client] = <<>> /\ phase'[Client] = "waiting"
            /\ phase'[Host] = phase[Host] /\ UNCHANGED <<flight, buf, stage>>
        BY <2>2, <3>1, Ends DEF Hello, Ready, Early, WireInv, Types
      <4>2. Early'
        BY <4>1 DEF Early
      <4>3. Held(Client)' /\ Held(Host)'
        BY <4>1, Ends, Limits DEF Held
      <4> QED BY <4>2, <4>3 DEF End
    <3>2. CASE WriteSome(e)
      BY <2>2, <3>2, WriteHeld
    <3>3. CASE WriteFails(e)
      BY <2>2, <3>3, ClosedHeld DEF WriteFails
    <3>4. CASE ReadSome(e)
      BY <2>2, <3>4, ReadHeld
    <3>5. CASE ReadFails(e)
      <4>1. Close(e, "malformed") \/ Close(e, "lost")
        BY <3>5 DEF ReadFails
      <4> QED BY <2>2, <4>1, ClosedHeld
    <3>6. CASE Shake(e)
      <4>1. CASE Close(e, "refused")
        BY <2>2, <4>1, ClosedHeld
      <4>2. CASE ~ Close(e, "refused")
        <5>1. /\ Complete(buf[e]) /\ buf' = [buf EXCEPT ![e] = Remaining(@)]
              /\ phase[e] = "waiting" /\ phase' = [phase EXCEPT ![e] = "up"]
              /\ UNCHANGED flight
          BY <3>6, <4>2 DEF Shake
        <5>2. rest'[Other(e)] = rest[Other(e)] /\ phase'[Other(e)] = phase[Other(e)]
              /\ phase'[e] = "up"
          <6>1. rest' = [rest EXCEPT ![e] = Encoded(Handshake("resp"))] \/ rest' = rest
            BY <3>6, <4>2 DEF Shake
          <6>2. rest'[Other(e)] = rest[Other(e)]
            BY <6>1, Ends DEF WireInv, Types
          <6>3. phase'[Other(e)] = phase[Other(e)] /\ phase'[e] = "up"
            BY <5>1, Ends DEF WireInv, Types
          <6> QED BY <6>2, <6>3
        <5>3. e = Host => phase[Client] # "hello"
          BY <5>1, EmptySeq, Limits DEF Early, Complete
        <5> QED BY <2>2, <5>1, <5>2, <5>3, TakenHeld
      <4> QED BY <4>1, <4>2
    <3>7. CASE RecvFrame(e)
      <4>1. CASE Close(e, "refused")
        BY <2>2, <4>1, ClosedHeld
      <4>2. CASE ~ Close(e, "refused")
        <5>1. /\ Complete(buf[e]) /\ buf' = [buf EXCEPT ![e] = Remaining(@)]
              /\ phase[e] = "up" /\ UNCHANGED <<phase, rest, flight>>
          BY <3>7, <4>2 DEF RecvFrame
        <5>2. e = Host => phase[Client] # "hello"
          BY <5>1 DEF Early
        <5> QED BY <2>2, <5>1, <5>2, TakenHeld
      <4> QED BY <4>1, <4>2
    <3> QED BY <2>2, <3>1, <3>2, <3>3, <3>4, <3>5, <3>6, <3>7 DEF Step
  <2> QED BY <1>3, <2>1, <2>2 DEF TunnelStep
<1>4. ASSUME NEW e \in End, Quit(e), UNCHANGED stage PROVE HeldInv'
  <2>1. Ready(e)
    BY <1>4, Ends DEF Quit, WireInv, Tunnelling, Ready, End
  <2> QED BY <1>4, <2>1, ClosedHeld DEF Quit
<1>5. ASSUME NEW e \in End, NEW n \in Payload, SendFrame(e, n), UNCHANGED stage PROVE HeldInv'
  <2>1. phase[e] = "up"
    BY <1>5 DEF SendFrame
  <2>2. Ready(e)
    BY <2>1, Ends DEF WireInv, Tunnelling, Ready, End
  <2>3. CASE Close(e, "oversize")
    BY <1>5, <2>2, <2>3, ClosedHeld
  <2>4. CASE ~ Close(e, "oversize")
    <3>1. UNCHANGED <<phase, flight, buf, stage>> /\ rest'[Other(e)] = rest[Other(e)]
      BY <1>5, <2>4, Ends DEF SendFrame, WireInv, Types
    <3>2. Early'
      <4>1. phase[Client] # "hello"
        BY <2>1 DEF Early, End
      <4> QED BY <3>1, <4>1 DEF Early
    <3>3. ASSUME NEW y \in End PROVE Held(y)'
      BY <3>1 DEF Held
    <3> QED BY <3>2, <3>3
  <2> QED BY <2>3, <2>4
<1>6. CASE UNCHANGED tunnelVars \/ (Return /\ UNCHANGED stage)
  <2>1. UNCHANGED <<phase, rest, buf, flight, stage>>
    BY <1>6 DEF tunnelVars, vars, Return, link
  <2>2. Early'
    BY <2>1 DEF Early
  <2>3. ASSUME NEW e \in End PROVE Held(e)'
    BY <2>1 DEF Held
  <2> QED BY <2>2, <2>3
<1> QED BY <1>1, <1>2, <1>3, <1>4, <1>5, <1>6 DEF TunnelNext

\* The host waits or it does not.
LEMMA AwayStep == away \in BOOLEAN /\ [TunnelNext]_tunnelVars => (away \in BOOLEAN)'
<1> SUFFICES ASSUME away \in BOOLEAN, [TunnelNext]_tunnelVars PROVE away' \in BOOLEAN
  OBVIOUS
<1>1. CASE (Cut \/ Return) /\ UNCHANGED stage
  BY <1>1 DEF Cut, Return
<1>2. CASE ProxyAnswers
  BY <1>2 DEF ProxyAnswers, Proxy
<1>3. ASSUME NEW e \in End, TunnelStep(e) PROVE away' \in BOOLEAN
  <2>1. CASE Connecting
    BY <2>1 DEF Connecting, Greet, ReadMethod, ReadHead, Drain, TunnelFails, Fails,
                ReadExact, Close, vars
  <2>2. CASE Step(e)
    BY <2>2 DEF Step, Hello, WriteSome, WriteFails, ReadSome, ReadFails, Shake, RecvFrame,
                MayWait, Close
  <2> QED BY <1>3, <2>1, <2>2 DEF TunnelStep
<1>4. ASSUME NEW e \in End, Quit(e) PROVE away' \in BOOLEAN
  BY <1>4 DEF Quit, Close
<1>5. ASSUME NEW e \in End, NEW n \in Payload, SendFrame(e, n) PROVE away' \in BOOLEAN
  BY <1>5 DEF SendFrame, MayWait, Close
<1>6. CASE UNCHANGED tunnelVars
  BY <1>6 DEF tunnelVars, vars
<1> QED BY <1>1, <1>2, <1>3, <1>4, <1>5, <1>6 DEF TunnelNext

\* Every variable stays in its type, and a read buffer never holds a frame and one
\* read, however much the other end sends ahead.
THEOREM TypeCorrect == TunnelSpec => []TypeOK
<1>1. TunnelInit => HeldInv
  <2> SUFFICES ASSUME TunnelInit PROVE HeldInv
    OBVIOUS
  <2> USE DEF TunnelInit, Init
  <2>1. Early
    BY Ends DEF Early
  <2>2. ASSUME NEW e \in End PROVE Held(e)
    BY Limits DEF Held
  <2> QED BY <2>1, <2>2 DEF HeldInv
<1>2. WireInv /\ HeldInv /\ [TunnelNext]_tunnelVars => HeldInv'
  BY HeldStep
<1>3. WireInv /\ HeldInv /\ away \in BOOLEAN => TypeOK
  BY TypeFromWire
<1>4. TunnelInit => away \in BOOLEAN
  BY DEF TunnelInit, Init
<1>5. away \in BOOLEAN /\ [TunnelNext]_tunnelVars => (away \in BOOLEAN)'
  BY AwayStep
<1> QED BY <1>1, <1>2, <1>3, <1>4, <1>5, StreamInOrder, PTL DEF TunnelSpec
=============================================================================

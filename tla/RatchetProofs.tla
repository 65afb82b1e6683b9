---------------------------- MODULE RatchetProofs ----------------------------
(***************************************************************************)
(* Proofs about Ratchet, for any MAX_SKIP, any number of messages and of   *)
(* repeated and damaged copies: the roots of one party's sending chains    *)
(* all have the same parity of length and only grow, so that a key behind  *)
(* the present chain is never derived again.  While nothing is repeated or *)
(* damaged, one party is exactly one turn ahead of the other, and every    *)
(* message in flight belongs to the chain its peer receives, to a key its  *)
(* peer keeps, or to the chain its peer will come to next.                 *)
(***************************************************************************)
EXTENDS Ratchet, FiniteSetTheorems, SequenceTheorems, TLAPS

\* The side a root belongs to: one party's sending chains start at roots of odd
\* length, the other's at roots of even length.
Side(root) == Len(root) % 2

\* Mixing twice comes back to the same side, mixing once does not.
LEMMA Sides ==
    ASSUME NEW r, NEW q, Len(r) \in Nat, Len(q) \in Nat
    PROVE  /\ Len(q) = Len(r) + 2 => Side(q) = Side(r)
           /\ Len(q) = Len(r) + 1 => Side(q) # Side(r)
           /\ Side(r) \in {0, 1}
BY DEF Side

\* A chain key behind the receiving chain of s: it belongs to an earlier chain
\* or to an earlier step of the present one.
Passed(s, k) ==
    /\ s.recv # None
    /\ Side(k.root) = Side(s.recv.root)
    /\ Len(k.root) < Len(s.recv.root) \/ (k.root = s.recv.root /\ k.at < s.recv.at)

\* A chain key behind the sending chain of s.
SentBy(s, k) ==
    /\ s.send # None
    /\ Side(k.root) = Side(s.root)
    /\ Len(k.root) < Len(s.root) \/ (k.root = s.root /\ k.at < s.nsend)

\* The sending chain starts at the root key and the receiving chain one mix
\* before it; both are as far as their counters say, and what is kept is behind.
Shape(s) ==
    /\ s.send # None => s.send.root = s.root /\ s.send.at = s.nsend
    /\ s.recv # None => Len(s.recv.root) + 1 = Len(s.root) /\ s.recv.at = s.nrecv
    /\ \A e \in s.skipped : Passed(s, e.key)
    /\ \A e, f \in s.skipped : e.key = f.key => e = f

\* t is s further on: nothing that was passed or sent is ahead again, and only
\* keys that had not been passed are newly kept.
Later(s, t) ==
    /\ \A k \in ChainKeys(Key) : Passed(s, k) => Passed(t, k)
    /\ \A k \in ChainKeys(Key) : SentBy(s, k) => SentBy(t, k)
    /\ \A e \in t.skipped : e \in s.skipped \/ ~ Passed(s, e.key)
    /\ Side(t.root) = Side(s.root)
    /\ s.recv # None => t.recv # None

\* The states of a ratchet, with a remote key for every receiving chain.
Valid(s) == s \in States(Key) /\ (s.recv # None => s.remote # None) /\ Shape(s)

\* What a chain key and a state are made of.
LEMMA StateType ==
    ASSUME NEW s \in States(Key)
    PROVE  /\ s.self \in Key /\ s.remote \in Key \cup {None}
           /\ s.root \in Seq(SUBSET Key) /\ Len(s.root) \in Nat
           /\ s.send \in ChainKeys(Key) \cup {None} /\ s.recv \in ChainKeys(Key) \cup {None}
           /\ s.nsend \in Nat /\ s.nrecv \in Nat /\ s.prev \in Nat
           /\ s.skipped \in SUBSET SkippedKeys(Key)
  BY LenProperties DEF States

\* What a chain key is, and where steps along its chain lead.
LEMMA KeyType ==
    ASSUME NEW k \in ChainKeys(Key)
    PROVE  /\ k.root \in Seq(SUBSET Key) /\ Len(k.root) \in Nat /\ k.at \in Nat
           /\ k = [root |-> k.root, at |-> k.at]
           /\ \A n \in Nat : /\ After(k, n) \in ChainKeys(Key)
                             /\ After(k, n).root = k.root /\ After(k, n).at = k.at + n
BY LenProperties DEF ChainKeys, After

\* Two steps further on are further on.
LEMMA LaterTransitive ==
    ASSUME NEW s \in States(Key), NEW t \in States(Key), NEW u \in States(Key),
           Later(s, t), Later(t, u)
    PROVE  Later(s, u)
<1>1. \A e \in u.skipped : e.key \in ChainKeys(Key)
  BY StateType DEF SkippedKeys
<1> QED BY <1>1 DEF Later

\* Every state is as far on as itself.
LEMMA LaterItself == ASSUME NEW s PROVE Later(s, s)
BY DEF Later

\* Mixing adds one to a root.
LEMMA MixType ==
    ASSUME NEW r \in Seq(SUBSET Key), NEW a \in Key, NEW b \in Key
    PROVE  /\ Mix(r, a, b) \in Seq(SUBSET Key) /\ Len(Mix(r, a, b)) = Len(r) + 1
           /\ Chain(Mix(r, a, b)) \in ChainKeys(Key)
           /\ Chain(Mix(r, a, b)).root = Mix(r, a, b) /\ Chain(Mix(r, a, b)).at = 0
<1>1. {a, b} \in SUBSET Key
  OBVIOUS
<1>2. Append(r, {a, b}) \in Seq(SUBSET Key) /\ Len(Append(r, {a, b})) = Len(r) + 1
  BY <1>1, AppendProperties
<1> QED BY <1>2 DEF Mix, Chain, ChainKeys

\* skip_messages goes on with the same chain and keeps what it passes over.
LEMMA SkipStep ==
    ASSUME NEW s, Valid(s), NEW until \in Nat
    PROVE  Valid(Skip(s, until)) /\ Later(s, Skip(s, until))
<1>1. CASE s.recv = None \/ until <= s.nrecv
  BY <1>1, LaterItself DEF Skip
<1>2. CASE ~ (s.recv = None \/ until <= s.nrecv)
  <2> DEFINE passed == s.nrecv .. until - 1
             new == {[dh |-> s.remote, n |-> i, key |-> After(s.recv, i - s.nrecv)] : i \in passed}
             old == {e \in s.skipped : ~ (e.dh = s.remote /\ e.n \in passed)}
             t == Skip(s, until)
             k == s.recv
  <2>1. /\ s \in States(Key) /\ k \in ChainKeys(Key) /\ s.remote \in Key /\ s.nrecv \in Nat
        /\ s.nrecv < until /\ k.at = s.nrecv /\ Shape(s) /\ k # None /\ s.remote # None
    BY <1>2, StateType DEF Valid, Shape
  <2>2. t = [s EXCEPT !.skipped = old \cup new, !.nrecv = until,
                      !.recv = After(k, until - s.nrecv)]
    BY <1>2 DEF Skip
  <2>3. ASSUME NEW i \in passed
        PROVE  /\ i \in Nat /\ i - s.nrecv \in Nat
               /\ After(k, i - s.nrecv) \in ChainKeys(Key)
               /\ After(k, i - s.nrecv).root = k.root /\ After(k, i - s.nrecv).at = i
    <3>1. i \in Nat /\ i - s.nrecv \in Nat /\ k.at + (i - s.nrecv) = i
      BY <2>1
    <3> QED BY <2>1, <3>1, KeyType
  <2>4. /\ After(k, until - s.nrecv) \in ChainKeys(Key)
        /\ After(k, until - s.nrecv).root = k.root /\ After(k, until - s.nrecv).at = until
    <3>1. until - s.nrecv \in Nat /\ k.at + (until - s.nrecv) = until
      BY <2>1
    <3> QED BY <2>1, <3>1, KeyType
  <2>5. new \subseteq SkippedKeys(Key)
    BY <2>1, <2>3 DEF SkippedKeys
  <2>6. /\ t.recv = After(k, until - s.nrecv) /\ t.nrecv = until /\ t.skipped = old \cup new
        /\ t.self = s.self /\ t.remote = s.remote /\ t.root = s.root /\ t.send = s.send
        /\ t.nsend = s.nsend /\ t.prev = s.prev /\ t \in States(Key)
    <3> HIDE DEF new, t
    <3>1. old \cup new \in SUBSET SkippedKeys(Key)
      BY <2>1, <2>5, StateType
    <3> HIDE DEF old
    <3> QED BY <2>1, <2>2, <2>4, <3>1 DEF States
  <2>7. t.recv # None /\ t.recv.root = s.recv.root /\ t.recv.at = until
    BY <2>4, <2>6, NoneAssumption
  <2> HIDE DEF t
  <2>k. s.recv # None /\ s.recv.at = s.nrecv /\ s.nrecv \in Nat /\ s.nrecv < until
    BY <2>1
  <2>8. ASSUME NEW c \in ChainKeys(Key), Passed(s, c) PROVE Passed(t, c)
    <3>1. c.at \in Nat
      BY KeyType
    <3> QED BY <2>7, <2>k, <2>8, <3>1 DEF Passed
  <2>9. ASSUME NEW e \in new
        PROVE  Passed(t, e.key) /\ ~ Passed(s, e.key) /\ e.key \in ChainKeys(Key)
    <3>1. PICK i \in passed : e = [dh |-> s.remote, n |-> i, key |-> After(k, i - s.nrecv)]
      OBVIOUS
    <3>2. e.key = After(k, i - s.nrecv)
      BY <3>1
    <3>3. e.key.root = k.root /\ e.key.at = i /\ i < until /\ ~ i < k.at
          /\ e.key \in ChainKeys(Key)
      BY <2>1, <2>3, <3>2
    <3>4. Len(e.key.root) \in Nat
      BY <3>3, KeyType
    <3> QED BY <2>7, <2>k, <3>3, <3>4 DEF Passed
  <2>10. ASSUME NEW e \in old
         PROVE  e \in s.skipped /\ Passed(s, e.key) /\ Passed(t, e.key)
    <3>1. e \in s.skipped /\ e.key \in ChainKeys(Key)
      BY <2>1, StateType DEF SkippedKeys
    <3> QED BY <2>1, <2>8, <3>1 DEF Shape
  <2>11. ASSUME NEW e \in new, NEW f \in new, e.key = f.key PROVE e = f
    <3>1. PICK i \in passed : e = [dh |-> s.remote, n |-> i, key |-> After(k, i - s.nrecv)]
      OBVIOUS
    <3>2. PICK j \in passed : f = [dh |-> s.remote, n |-> j, key |-> After(k, j - s.nrecv)]
      OBVIOUS
    <3>3. e.key = After(k, i - s.nrecv) /\ f.key = After(k, j - s.nrecv)
      BY <3>1, <3>2
    <3>4. i = j
      BY <2>3, <2>11, <3>3
    <3> QED BY <3>1, <3>2, <3>4
  <2> HIDE DEF new, old
  <2>12. \A e, f \in t.skipped : e.key = f.key => e = f
    BY <2>1, <2>6, <2>9, <2>10, <2>11 DEF Shape
  <2>13. \A e \in t.skipped : Passed(t, e.key)
    BY <2>6, <2>9, <2>10
  <2>14. Shape(t)
    BY <2>1, <2>4, <2>6, <2>12, <2>13 DEF Shape
  <2>15. Later(s, t)
    BY <2>6, <2>7, <2>8, <2>9, <2>10 DEF Later, SentBy
  <2> QED BY <2>1, <2>6, <2>14, <2>15 DEF Valid, t
<1> QED BY <1>1, <1>2

\* dh_ratchet leaves both chains behind.
LEMMA RatchetStep ==
    ASSUME NEW s, Valid(s), NEW dh \in Key
    PROVE  /\ Valid(Ratcheted(s, dh)) /\ Later(s, Ratcheted(s, dh))
           /\ Ratcheted(s, dh).recv # None
<1> DEFINE received == Mix(s.root, s.self, dh)
           fresh == Fresh(s.self)
           sending == Mix(received, fresh, dh)
           t == Ratcheted(s, dh)
<1>1. s \in States(Key) /\ Shape(s)
  BY DEF Valid
<1>2. s.self \in Key /\ s.root \in Seq(SUBSET Key) /\ Len(s.root) \in Nat
      /\ s.skipped \in SUBSET SkippedKeys(Key)
  BY <1>1, StateType
<1>3. fresh \in Key
  BY <1>2 DEF Fresh, Key
<1>4. /\ received \in Seq(SUBSET Key) /\ Len(received) = Len(s.root) + 1
      /\ Chain(received) \in ChainKeys(Key) /\ Chain(received).root = received
      /\ Chain(received).at = 0
  BY <1>2, MixType
<1> HIDE DEF received, fresh
<1>5. /\ sending \in Seq(SUBSET Key) /\ Len(sending) = Len(s.root) + 2
      /\ Chain(sending) \in ChainKeys(Key) /\ Chain(sending).root = sending
      /\ Chain(sending).at = 0
  <2>1. Len(sending) = Len(received) + 1
    BY <1>3, <1>4, MixType
  <2> QED BY <1>2, <1>3, <1>4, <2>1, MixType
<1> HIDE DEF sending
<1>6. t = [s EXCEPT !.prev = s.nsend, !.nsend = 0, !.nrecv = 0, !.remote = dh,
                    !.recv = Chain(received), !.self = fresh,
                    !.root = sending, !.send = Chain(sending)]
  BY DEF Ratcheted, received, fresh, sending
<1> HIDE DEF t
<1>7. /\ t.recv = Chain(received) /\ t.send = Chain(sending) /\ t.root = sending
      /\ t.nsend = 0 /\ t.nrecv = 0 /\ t.remote = dh /\ t.skipped = s.skipped
      /\ t \in States(Key)
  BY <1>1, <1>3, <1>4, <1>5, <1>6 DEF States
<1>8. t.recv # None /\ t.send # None /\ dh # None
  BY <1>4, <1>5, <1>7, NoneAssumption
<1>9. /\ Side(sending) = Side(s.root)
      /\ s.recv # None => /\ s.recv \in ChainKeys(Key) /\ Len(s.recv.root) \in Nat
                          /\ Len(received) = Len(s.recv.root) + 2
                          /\ Side(received) = Side(s.recv.root)
  <2>1. Side(sending) = Side(s.root)
    BY <1>2, <1>5, Sides
  <2>2. ASSUME s.recv # None
        PROVE  /\ s.recv \in ChainKeys(Key) /\ Len(s.recv.root) \in Nat
               /\ Len(received) = Len(s.recv.root) + 2
    <3>1. s.recv \in ChainKeys(Key) /\ Len(s.recv.root) + 1 = Len(s.root)
      BY <1>1, <2>2, StateType DEF Shape
    <3>2. Len(s.recv.root) \in Nat
      BY <3>1, KeyType
    <3> QED BY <1>4, <3>1, <3>2
  <2> QED BY <2>1, <2>2, Sides
<1>10. ASSUME NEW c \in ChainKeys(Key), Passed(s, c) PROVE Passed(t, c)
  <2>1. s.recv # None /\ Len(c.root) \in Nat
    BY <1>10, KeyType DEF Passed
  <2>2. Len(c.root) <= Len(s.recv.root) /\ Side(c.root) = Side(s.recv.root)
    BY <1>9, <1>10, <2>1 DEF Passed
  <2>3. Len(c.root) < Len(received) /\ Side(c.root) = Side(received)
    BY <1>9, <2>1, <2>2
  <2> QED BY <1>4, <1>7, <1>8, <2>3 DEF Passed
<1>11. ASSUME NEW c \in ChainKeys(Key), SentBy(s, c) PROVE SentBy(t, c)
  <2>1. Len(c.root) \in Nat
    BY KeyType
  <2>2. Len(c.root) <= Len(s.root) /\ Side(c.root) = Side(s.root)
    BY <1>2, <1>11, <2>1 DEF SentBy
  <2>3. Len(c.root) < Len(sending) /\ Side(c.root) = Side(sending)
    BY <1>2, <1>5, <1>9, <2>1, <2>2
  <2> QED BY <1>7, <1>8, <2>3 DEF SentBy
<1>12. \A e \in t.skipped : Passed(t, e.key)
  <2>1. \A e \in t.skipped : Passed(s, e.key) /\ e.key \in ChainKeys(Key)
    BY <1>1, <1>2, <1>7 DEF Shape, SkippedKeys
  <2> QED BY <1>10, <2>1
<1>13. Shape(t)
  <2>1. \A e, f \in t.skipped : e.key = f.key => e = f
    BY <1>1, <1>7 DEF Shape
  <2>2. t.send.root = t.root /\ t.send.at = t.nsend /\ t.recv.at = t.nrecv
    BY <1>4, <1>5, <1>7
  <2>3. Len(t.recv.root) + 1 = Len(t.root)
    BY <1>2, <1>4, <1>5, <1>7
  <2> QED BY <1>12, <2>1, <2>2, <2>3 DEF Shape
<1>14. Later(s, t)
  BY <1>7, <1>8, <1>9, <1>10, <1>11 DEF Later
<1> QED BY <1>7, <1>8, <1>13, <1>14 DEF Valid, t

\* What decrypt achieves: the state it leaves is valid and further on; a key it
\* tries is behind that state, is not kept there, and had not been passed by the
\* state before unless it was kept for a late message.
Achieves(s, d) ==
    /\ Valid(d.state) /\ Later(s, d.state)
    /\ d.key # None =>
          /\ d.key \in ChainKeys(Key)
          /\ Passed(d.state, d.key)
          /\ \A e \in d.state.skipped : e.key # d.key
          /\ Passed(s, d.key) => \E e \in s.skipped : e.key = d.key

\* One step along a chain.
LEMMA OneOn ==
    ASSUME NEW k \in ChainKeys(Key)
    PROVE  /\ After(k, 1) \in ChainKeys(Key)
           /\ After(k, 1).root = k.root /\ After(k, 1).at = k.at + 1
BY DEF After, ChainKeys

\* A kept key is the only one of its kind and is given up.
LEMMA KeptKeyStep ==
    ASSUME NEW s, Valid(s), NEW m \in Message, Kept(s, m) # {}
    PROVE  Achieves(s, ByKeptKey(s, m))
<1>1. PICK e \in s.skipped : ByKeptKey(s, m) = [state |-> GivenUp(s, e), key |-> e.key]
  BY DEF ByKeptKey, Kept
<1> DEFINE t == GivenUp(s, e)
<1>2. s \in States(Key) /\ Shape(s) /\ (s.recv # None => s.remote # None)
  BY DEF Valid
<1>3. /\ s.skipped \in SUBSET SkippedKeys(Key) /\ e.key \in ChainKeys(Key)
  BY <1>2, StateType DEF SkippedKeys
<1>4. /\ t.skipped = s.skipped \ {e} /\ t.recv = s.recv /\ t.nrecv = s.nrecv
      /\ t.root = s.root /\ t.send = s.send /\ t.nsend = s.nsend /\ t.remote = s.remote
      /\ t \in States(Key)
  BY <1>2, <1>3 DEF GivenUp, States
<1> HIDE DEF t
<1>5. \A k \in ChainKeys(Key) : /\ Passed(s, k) <=> Passed(t, k)
                                /\ SentBy(s, k) <=> SentBy(t, k)
  BY <1>4 DEF Passed, SentBy
<1>6. \A f \in s.skipped : Passed(s, f.key) /\ f.key \in ChainKeys(Key)
  BY <1>2, <1>3 DEF Shape, SkippedKeys
<1>7. Shape(t)
  BY <1>2, <1>4, <1>5, <1>6 DEF Shape
<1>8. Later(s, t)
  BY <1>4, <1>5 DEF Later
<1>9. Passed(t, e.key) /\ \A f \in t.skipped : f.key # e.key
  BY <1>2, <1>4, <1>5, <1>6 DEF Shape
<1>10. Valid(t)
  BY <1>2, <1>4, <1>7 DEF Valid
<1> QED BY <1>1, <1>3, <1>8, <1>9, <1>10 DEF Achieves, t

\* The key at the head of the receiving chain is the next to be passed.
LEMMA AdvanceStep ==
    ASSUME NEW u, Valid(u), u.recv # None
    PROVE  /\ Valid(Advanced(u)) /\ Later(u, Advanced(u))
           /\ u.recv \in ChainKeys(Key) /\ ~ Passed(u, u.recv)
           /\ Passed(Advanced(u), u.recv)
           /\ \A e \in Advanced(u).skipped : e.key # u.recv
<1> DEFINE t == Advanced(u)
<1>1. /\ u \in States(Key) /\ Shape(u) /\ u.remote # None /\ u.recv \in ChainKeys(Key)
      /\ u.nrecv \in Nat /\ u.skipped \in SUBSET SkippedKeys(Key)
      /\ u.recv.at = u.nrecv
  BY StateType DEF Valid, Shape
<1>2. /\ After(u.recv, 1) \in ChainKeys(Key) /\ After(u.recv, 1).root = u.recv.root
      /\ After(u.recv, 1).at = u.nrecv + 1 /\ Len(u.recv.root) \in Nat
  BY <1>1, OneOn, KeyType
<1>3. /\ t.recv = After(u.recv, 1) /\ t.nrecv = u.nrecv + 1 /\ t.skipped = u.skipped
      /\ t.root = u.root /\ t.send = u.send /\ t.nsend = u.nsend /\ t.remote = u.remote
      /\ t \in States(Key)
  <2>1. t = [u EXCEPT !.recv = After(u.recv, 1), !.nrecv = u.nrecv + 1]
    BY DEF Advanced
  <2>2. u.nrecv + 1 \in Nat
    BY <1>1
  <2> HIDE DEF t
  <2> QED BY <1>1, <1>2, <2>1, <2>2 DEF States
<1>4. t.recv # None /\ t.recv.root = u.recv.root /\ t.recv.at = u.nrecv + 1
  BY <1>2, <1>3, NoneAssumption
<1> HIDE DEF t
<1>5. ASSUME NEW k \in ChainKeys(Key), Passed(u, k) PROVE Passed(t, k)
  <2>1. k.at \in Nat
    BY KeyType
  <2> QED BY <1>1, <1>4, <1>5, <2>1 DEF Passed
<1>6. \A e \in u.skipped : Passed(u, e.key) /\ e.key \in ChainKeys(Key)
  BY <1>1 DEF Shape, SkippedKeys
<1>7. Shape(t)
  <2>1. Len(t.recv.root) + 1 = Len(t.root) /\ t.recv.at = t.nrecv
    BY <1>1, <1>3, <1>4 DEF Shape
  <2>2. t.send # None => t.send.root = t.root /\ t.send.at = t.nsend
    BY <1>1, <1>3 DEF Shape
  <2>3. \A e, f \in t.skipped : e.key = f.key => e = f
    BY <1>1, <1>3 DEF Shape
  <2> QED BY <1>3, <1>5, <1>6, <2>1, <2>2, <2>3 DEF Shape
<1>8. Later(u, t)
  BY <1>3, <1>4, <1>5 DEF Later, SentBy
<1>9. ~ Passed(u, u.recv) /\ Passed(t, u.recv)
  BY <1>1, <1>2, <1>4 DEF Passed
<1>10. \A e \in t.skipped : e.key # u.recv
  BY <1>3, <1>6, <1>9
<1> QED BY <1>1, <1>3, <1>7, <1>8, <1>9, <1>10 DEF Valid, t

\* Without a kept key: the DH step, the keys skipped, and the next of the chain.
LEMMA ChainStep ==
    ASSUME NEW s, Valid(s), NEW m \in Message
    PROVE  Achieves(s, ByChain(s, m))
<1> DEFINE t == Turned(s, m)
           u == Skip(t, m.n)
<1>1. m.dh \in Key /\ m.prev \in Nat /\ m.n \in Nat
  BY DEF Message
<1>2. Valid(t) /\ Later(s, t)
  <2>1. CASE m.dh = s.remote
    BY <2>1, LaterItself DEF Turned
  <2>2. CASE m.dh # s.remote
    <3> DEFINE v == Skip(s, m.prev)
    <3>1. Valid(v) /\ Later(s, v)
      BY <1>1, SkipStep
    <3>2. t = Ratcheted(v, m.dh)
      BY <2>2 DEF Turned
    <3> HIDE DEF v, t
    <3>3. Valid(t) /\ Later(v, t)
      BY <1>1, <3>1, <3>2, RatchetStep
    <3>4. s \in States(Key) /\ v \in States(Key) /\ t \in States(Key)
      BY <3>1, <3>3 DEF Valid
    <3> QED BY <3>1, <3>3, <3>4, LaterTransitive
  <2> QED BY <2>1, <2>2
<1> HIDE DEF t
<1>3. CASE TooFar(t, m.n) \/ t.recv = None
  <2>1. ByChain(s, m) = [state |-> t, key |-> None]
    BY <1>3 DEF ByChain, t
  <2> QED BY <1>2, <2>1 DEF Achieves
<1>4. CASE ~ (TooFar(t, m.n) \/ t.recv = None)
  <2>1. ByChain(s, m) = [state |-> Advanced(u), key |-> u.recv]
    BY <1>4 DEF ByChain, t
  <2>2. Valid(u) /\ Later(t, u)
    BY <1>1, <1>2, SkipStep
  <2> HIDE DEF u
  <2>3. u.recv # None
    BY <1>4, <2>2 DEF Later
  <2>4. /\ Valid(Advanced(u)) /\ Later(u, Advanced(u)) /\ u.recv \in ChainKeys(Key)
        /\ ~ Passed(u, u.recv) /\ Passed(Advanced(u), u.recv)
        /\ \A e \in Advanced(u).skipped : e.key # u.recv
    BY <2>2, <2>3, AdvanceStep
  <2>5. /\ s \in States(Key) /\ t \in States(Key) /\ u \in States(Key)
        /\ Advanced(u) \in States(Key)
    BY <1>2, <2>2, <2>4 DEF Valid
  <2>6. Later(s, u)
    BY <1>2, <2>2, <2>5, LaterTransitive
  <2>7. Later(s, Advanced(u))
    BY <2>4, <2>5, <2>6, LaterTransitive
  <2>8. ~ Passed(s, u.recv)
    BY <2>4, <2>6 DEF Later
  <2> QED BY <2>1, <2>4, <2>7, <2>8 DEF Achieves
<1> QED BY <1>3, <1>4

\* Every call of decrypt achieves that, whether it succeeds or not.
LEMMA DecryptStep ==
    ASSUME NEW s, Valid(s), NEW m \in Message
    PROVE  Achieves(s, Decrypt(s, m))
<1>1. Achieves(s, [state |-> s, key |-> None])
  BY LaterItself DEF Achieves
<1> QED BY <1>1, KeptKeyStep, ChainStep DEF Decrypt

\* encrypt moves the sending chain one step and touches nothing else.
LEMMA SealStep ==
    ASSUME NEW s, Valid(s), s.send # None
    PROVE  /\ Valid(Sealed(s)) /\ Later(s, Sealed(s))
           /\ s.send \in ChainKeys(Key) /\ ~ SentBy(s, s.send)
           /\ SentBy(Sealed(s), s.send)
           /\ Sealed(s).skipped = s.skipped
<1> DEFINE t == Sealed(s)
<1>1. /\ s \in States(Key) /\ Shape(s) /\ s.send \in ChainKeys(Key) /\ s.nsend \in Nat
      /\ s.send.root = s.root /\ s.send.at = s.nsend
      /\ s.skipped \in SUBSET SkippedKeys(Key) /\ Len(s.root) \in Nat
  BY StateType DEF Valid, Shape
<1>2. /\ After(s.send, 1) \in ChainKeys(Key) /\ After(s.send, 1).root = s.root
      /\ After(s.send, 1).at = s.nsend + 1
  BY <1>1, OneOn
<1>3. /\ t.send = After(s.send, 1) /\ t.nsend = s.nsend + 1 /\ t.skipped = s.skipped
      /\ t.root = s.root /\ t.recv = s.recv /\ t.nrecv = s.nrecv /\ t.remote = s.remote
      /\ t \in States(Key)
  <2>1. t = [s EXCEPT !.send = After(s.send, 1), !.nsend = s.nsend + 1]
    BY DEF Sealed
  <2>2. s.nsend + 1 \in Nat
    BY <1>1
  <2> HIDE DEF t
  <2> QED BY <1>1, <1>2, <2>1, <2>2 DEF States
<1>4. t.send # None
  BY <1>2, <1>3, NoneAssumption
<1> HIDE DEF t
<1>5. \A k \in ChainKeys(Key) : Passed(s, k) <=> Passed(t, k)
  BY <1>3 DEF Passed
<1>6. ASSUME NEW k \in ChainKeys(Key), SentBy(s, k) PROVE SentBy(t, k)
  <2>1. k.at \in Nat
    BY KeyType
  <2> QED BY <1>1, <1>3, <1>4, <1>6, <2>1 DEF SentBy
<1>7. Shape(t)
  <2>1. \A e \in s.skipped : e.key \in ChainKeys(Key)
    BY <1>1 DEF SkippedKeys
  <2> QED BY <1>1, <1>2, <1>3, <1>5, <2>1 DEF Shape
<1>8. Later(s, t)
  BY <1>3, <1>5, <1>6 DEF Later
<1>9. ~ SentBy(s, s.send) /\ SentBy(t, s.send)
  BY <1>1, <1>3, <1>4 DEF SentBy
<1> QED BY <1>1, <1>3, <1>7, <1>8, <1>9 DEF Valid, t
-----------------------------------------------------------------------------
(* The invariant *)

\* The side of a party's sending chains.
Own(p) == IF p = Alice THEN 1 ELSE 0

\* Every state is valid and its root on its party's side.
Parties == \A p \in Party : Valid(state[p]) /\ Side(state[p].root) = Own(p)

\* What p has sent.
From(p) == {m \in sent : m.from = p}

\* Messages are numbered one by one, for each party.
Numbered == /\ IsFiniteSet(sent)
            /\ \A m \in sent : m.id \in 1 .. MaxSend /\ m.id <= Cardinality(From(m.from))
            /\ \A m, o \in sent : m.from = o.from /\ m.id = o.id => m = o

\* The key of every message is behind its sender.
Behind == \A m \in sent : SentBy(state[m.from], m.key)

\* The key of a message that p has opened is behind p and not kept.
Spent == \A p \in Party : \A m \in sent :
            m.from = Peer(p) /\ opened[p][m.id] > 0 =>
               /\ Passed(state[p], m.key)
               /\ \A e \in state[p].skipped : e.key # m.key

\* Only messages that were sent are opened.
Known == \A p \in Party : \A i \in 1 .. MaxSend :
            opened[p][i] > 0 => \E m \in sent : m.from = Peer(p) /\ m.id = i

\* What makes the properties of the ratchet inductive.
RatchetInv == /\ TypeOK /\ Parties /\ Numbered /\ Behind /\ KeysUnique
              /\ Spent /\ Known /\ OpenedOnce

\* The two parties are each other's peers.
LEMMA Peers == ASSUME NEW p \in Party
               PROVE  /\ Peer(p) \in Party /\ Peer(p) # p
                      /\ \A q \in Party : q # p => q = Peer(p) /\ Own(q) # Own(p)
BY PartyAssumption DEF Party, Peer, Own

\* What a message is made of.
LEMMA MessageType ==
    ASSUME NEW m \in Message
    PROVE  /\ m.from \in Party /\ m.id \in Nat /\ m.dh \in Key /\ m.key \in ChainKeys(Key)
           /\ m.key # None
BY NoneAssumption DEF Message

\* What comes as it was sent is one of the copies.
LEMMA OwnCopy == \A m : m \in Copies(m)
BY DEF Copies

\* A damaged header is still one.
LEMMA CopyType == ASSUME TypeOK, NEW m \in sent, NEW h \in Copies(m)
                  PROVE  h \in Message
<1>1. m \in Message /\ \A o \in sent : o.dh \in Key
  BY MessageType DEF TypeOK
<1>2. Stray \in Key
  BY DEF Stray, FirstKey, Key
<1>3. 0 .. MaxSend \subseteq Nat
  BY PartyAssumption
<1> QED BY <1>1, <1>2, <1>3 DEF Copies, Message

\* The states X3DH leaves the parties in.
LEMMA InitValid ==
    /\ Valid(InitBob(<<>>, FirstKey(Bob))) /\ Side(InitBob(<<>>, FirstKey(Bob)).root) = 0
    /\ Valid(InitAlice(<<>>, FirstKey(Alice), FirstKey(Bob)))
    /\ Side(InitAlice(<<>>, FirstKey(Alice), FirstKey(Bob)).root) = 1
<1>1. FirstKey(Alice) \in Key /\ FirstKey(Bob) \in Key /\ <<>> \in Seq(SUBSET Key)
      /\ Len(<<>>) = 0
  BY DEF FirstKey, Key, Party
<1> DEFINE b == InitBob(<<>>, FirstKey(Bob))
           r == Mix(<<>>, FirstKey(Alice), FirstKey(Bob))
           a == InitAlice(<<>>, FirstKey(Alice), FirstKey(Bob))
<1>2. /\ b.send = None /\ b.recv = None /\ b.skipped = {} /\ b.root = <<>>
      /\ b \in States(Key)
  BY <1>1 DEF InitBob, States
<1>3. Valid(b)
  BY <1>2 DEF Valid, Shape
<1>4. Side(b.root) = 0
  <2>1. Len(b.root) = 0 /\ 0 % 2 = 0
    BY <1>1, <1>2
  <2> QED BY <2>1 DEF Side
<1>5. r \in Seq(SUBSET Key) /\ Len(r) = 1 /\ Chain(r) \in ChainKeys(Key)
      /\ Chain(r).root = r /\ Chain(r).at = 0
  <2>1. Len(r) = Len(<<>>) + 1
    BY <1>1, MixType
  <2>2. \A q \in Seq(SUBSET Key) : \A x, y \in Key :
           /\ Mix(q, x, y) \in Seq(SUBSET Key) /\ Chain(Mix(q, x, y)) \in ChainKeys(Key)
           /\ Chain(Mix(q, x, y)).root = Mix(q, x, y) /\ Chain(Mix(q, x, y)).at = 0
    BY MixType
  <2>3. /\ r \in Seq(SUBSET Key) /\ Chain(r) \in ChainKeys(Key)
        /\ Chain(r).root = r /\ Chain(r).at = 0
    BY <1>1, <2>2
  <2> HIDE DEF r
  <2> QED BY <1>1, <2>1, <2>3
<1>6. a = [InitBob(r, FirstKey(Alice)) EXCEPT !.remote = FirstKey(Bob), !.send = Chain(r)]
  BY DEF InitAlice
<1> HIDE DEF r, a
<1>7. /\ a.send = Chain(r) /\ a.recv = None /\ a.skipped = {} /\ a.root = r /\ a.nsend = 0
      /\ a \in States(Key)
  BY <1>1, <1>5, <1>6 DEF InitBob, States
<1>8. Valid(a)
  BY <1>5, <1>7 DEF Valid, Shape
<1>9. Side(a.root) = 1
  <2>1. Len(a.root) = 1 /\ 1 % 2 = 1
    BY <1>5, <1>7
  <2> QED BY <2>1 DEF Side
<1> QED BY <1>3, <1>4, <1>8, <1>9 DEF a, r

\* The invariant holds at the start.
LEMMA RatchetInit == Init => RatchetInv
<1> SUFFICES ASSUME Init PROVE RatchetInv
  OBVIOUS
<1>1. \A p \in Party : state[p] = IF p = Alice THEN InitAlice(<<>>, FirstKey(Alice), FirstKey(Bob))
                                  ELSE InitBob(<<>>, FirstKey(Bob))
  BY DEF Init
<1>2. Parties
  BY <1>1, InitValid DEF Parties, Own
<1>3. sent = {} /\ \A p \in Party : \A i \in 1 .. MaxSend : opened[p][i] = 0
  BY DEF Init
<1>4. TypeOK
  <2>1. state \in [Party -> States(Key)]
    <3>1. \A p \in Party : state[p] \in States(Key)
      BY <1>2 DEF Parties, Valid
    <3>2. state = [p \in Party |-> state[p]]
      BY DEF Init
    <3> QED BY <3>1, <3>2
  <2>2. /\ taken \in [Party -> SUBSET sent] /\ opened \in [Party -> [1 .. MaxSend -> Nat]]
        /\ extra \in [Party -> 0 .. MaxExtra]
    BY PartyAssumption DEF Init
  <2> QED BY <1>2, <1>3, <2>1, <2>2 DEF TypeOK, Parties, Valid
<1>5. Numbered
  BY <1>3, FS_EmptySet DEF Numbered
<1> QED BY <1>2, <1>3, <1>4, <1>5 DEF RatchetInv, Behind, KeysUnique, Spent, Known, OpenedOnce

\* A new message has a number and a key of its own.
LEMMA EncryptKept ==
    ASSUME RatchetInv, NEW p \in Party, NEW id \in 1 .. MaxSend, Encrypt(p, id)
    PROVE  RatchetInv'
<1>1. PICK s : s = state[p]
  OBVIOUS
<1>2. PICK m : m = [from |-> p, id |-> id, dh |-> s.self, prev |-> s.prev, n |-> s.nsend,
                    key |-> s.send]
  OBVIOUS
<1>3. /\ s.send # None /\ id = Cardinality(From(p)) + 1
      /\ state' = [state EXCEPT ![p] = Sealed(s)] /\ sent' = sent \cup {m}
      /\ UNCHANGED <<taken, opened, extra>>
  BY <1>1, <1>2 DEF Encrypt, From
<1>4. /\ TypeOK /\ Parties /\ Numbered /\ Behind /\ KeysUnique /\ Spent /\ Known /\ OpenedOnce
  BY DEF RatchetInv
<1>5. /\ Valid(Sealed(s)) /\ Later(s, Sealed(s)) /\ s.send \in ChainKeys(Key)
      /\ ~ SentBy(s, s.send) /\ SentBy(Sealed(s), s.send) /\ Sealed(s).skipped = s.skipped
      /\ Valid(s) /\ Side(s.root) = Own(p) /\ s.send.root = s.root
  BY <1>1, <1>3, <1>4, SealStep DEF Parties, Valid, Shape
<1>6. /\ m \in Message /\ m.from = p /\ m.id = id /\ m.key = s.send
  BY <1>2, <1>5, StateType DEF Valid, Message
<1>7. /\ state'[p] = Sealed(s) /\ \A q \in Party \ {p} : state'[q] = state[q]
      /\ \A q \in Party : Valid(state'[q]) /\ Later(state[q], state'[q])
                          /\ Side(state'[q].root) = Own(q)
  <2>1. state'[p] = Sealed(s) /\ \A q \in Party \ {p} : state'[q] = state[q]
    BY <1>3, <1>4 DEF TypeOK
  <2> QED BY <1>1, <1>4, <1>5, <2>1, LaterItself DEF Parties, Later
<1>8. Parties'
  BY <1>7 DEF Parties, Own
<1>9. TypeOK'
  <2>1. state' \in [Party -> States(Key)]
    BY <1>3, <1>4, <1>5 DEF TypeOK, Valid
  <2>2. sent' \subseteq Message /\ taken' \in [Party -> SUBSET sent']
    BY <1>3, <1>4, <1>6 DEF TypeOK
  <2>3. \A q \in Party : state'[q].recv # None => state'[q].remote # None
    BY <1>7 DEF Valid
  <2>4. Message' = Message /\ Party' = Party /\ States(Key)' = States(Key)
    BY DEF Message, Party, States, Key, ChainKeys, SkippedKeys
  <2> QED BY <1>3, <1>4, <2>1, <2>2, <2>3, <2>4 DEF TypeOK
<1>10. \A o \in sent : o \in Message
  BY <1>4 DEF TypeOK
<1>11. Numbered'
  <2>1. /\ \A o \in sent : o.from = p => o.id < id
        /\ m \notin sent
    <3>1. IsFiniteSet(From(p))
      BY <1>4, FS_Subset DEF Numbered, From
    <3>2. Cardinality(From(p)) \in Nat
      BY <3>1, FS_CardinalityType
    <3>3. \A o \in sent : o.from = p => o.id < id
      BY <1>3, <1>4, <1>10, <3>2, MessageType DEF Numbered
    <3> QED BY <1>6, <3>3
  <2>2. IsFiniteSet(sent')
    BY <1>3, <1>4, FS_AddElement DEF Numbered
  <2>3. \A q \in Party : /\ IsFiniteSet(From(q)) /\ From(q)' \in SUBSET sent'
                         /\ From(q)' = IF q = p THEN From(q) \cup {m} ELSE From(q)
    BY <1>3, <1>4, <1>6, FS_Subset DEF Numbered, From
  <2>4. Cardinality(From(p)') = id
    <3>1. m \notin From(p)
      BY <2>1 DEF From
    <3> QED BY <1>3, <2>3, <3>1, FS_AddElement
  <2>5. \A o \in sent' : o.id \in 1 .. MaxSend /\ o.id <= Cardinality(From(o.from)')
    <3> SUFFICES ASSUME NEW o \in sent'
                 PROVE  o.id \in 1 .. MaxSend /\ o.id <= Cardinality(From(o.from)')
      OBVIOUS
    <3>1. CASE o = m
      BY <1>6, <2>4, <3>1
    <3>2. CASE o # m
      <4>1. o \in sent /\ o.id \in 1 .. MaxSend /\ o.id <= Cardinality(From(o.from))
            /\ o.from \in Party
        BY <1>3, <1>4, <1>10, <3>2, MessageType DEF Numbered
      <4>2. CASE o.from = p
        BY <2>1, <2>4, <4>1, <4>2
      <4>3. CASE o.from # p
        <5>1. From(o.from)' = From(o.from)
          BY <2>3, <4>1, <4>3
        <5> QED BY <4>1, <5>1
      <4> QED BY <4>2, <4>3
    <3> QED BY <3>1, <3>2
  <2>6. \A x, o \in sent' : x.from = o.from /\ x.id = o.id => x = o
    BY <1>3, <1>4, <1>6, <2>1, <1>10, MessageType DEF Numbered
  <2> QED BY <2>2, <2>5, <2>6 DEF Numbered
<1>12. Behind'
  <2>1. ASSUME NEW o \in sent PROVE SentBy(state'[o.from], o.key)
    BY <1>4, <1>7, <1>10, MessageType DEF Behind, Later
  <2>2. SentBy(state'[m.from], m.key)
    BY <1>5, <1>6, <1>7
  <2> QED BY <1>3, <2>1, <2>2 DEF Behind
<1>13. KeysUnique'
  <2>1. ASSUME NEW o \in sent PROVE o.key # m.key
    <3>1. SentBy(state[o.from], o.key) /\ o.from \in Party
      BY <1>4, <1>10, MessageType DEF Behind
    <3>2. CASE o.from = p
      BY <1>1, <1>5, <1>6, <3>1, <3>2
    <3>3. CASE o.from # p
      <4>1. Side(o.key.root) = Own(o.from) /\ Own(o.from) # Own(p)
        BY <1>4, <3>1, <3>3, Peers DEF SentBy, Parties
      <4> QED BY <1>5, <1>6, <4>1
    <3> QED BY <3>2, <3>3
  <2> QED BY <1>3, <1>4, <2>1 DEF KeysUnique
<1>14. Known' /\ OpenedOnce'
  BY <1>3, <1>4 DEF Known, OpenedOnce, Party, Peer
<1>15. Spent'
  <2> SUFFICES ASSUME NEW q \in Party, NEW o \in sent', o.from = Peer(q), opened[q][o.id] > 0
               PROVE  /\ Passed(state'[q], o.key)
                      /\ \A e \in state'[q].skipped : e.key # o.key
    BY <1>3 DEF Spent, Peer, Party
  <2>1. o \in sent
    <3>1. CASE o = m
      <4>1. PICK x \in sent : x.from = Peer(q) /\ x.id = id
        BY <1>4, <1>6, <3>1 DEF Known
      <4>2. x.id <= Cardinality(From(p)) /\ x.id \in Nat
        BY <1>4, <1>6, <1>10, <3>1, <4>1, MessageType DEF Numbered
      <4>3. IsFiniteSet(From(p))
        BY <1>4, FS_Subset DEF Numbered, From
      <4>4. Cardinality(From(p)) \in Nat
        BY <4>3, FS_CardinalityType
      <4> QED BY <1>3, <4>1, <4>2, <4>4
    <3> QED BY <1>3, <3>1
  <2>2. Passed(state[q], o.key) /\ \A e \in state[q].skipped : e.key # o.key
    BY <1>4, <2>1 DEF Spent
  <2>3. o.key \in ChainKeys(Key)
    BY <1>10, <2>1, MessageType
  <2>4. Passed(state'[q], o.key)
    BY <1>7, <2>2, <2>3 DEF Later
  <2>5. state'[q].skipped = state[q].skipped
    BY <1>1, <1>5, <1>7
  <2> QED BY <2>2, <2>4, <2>5
<1> QED BY <1>8, <1>9, <1>11, <1>12, <1>13, <1>14, <1>15 DEF RatchetInv

\* A message that opens had not been opened, and is behind from now on.
LEMMA ReceiveKept ==
    ASSUME RatchetInv, NEW p \in Party, NEW m \in sent, NEW h \in Copies(m),
           NEW whole \in BOOLEAN, Receive(p, m, h, whole)
    PROVE  RatchetInv'
<1>1. PICK s : s = state[p]
  OBVIOUS
<1>2. PICK d : d = Decrypt(s, h)
  OBVIOUS
<1>3. /\ m.from = Peer(p) /\ state' = [state EXCEPT ![p] = d.state] /\ sent' = sent
      /\ \/ /\ d.key = m.key /\ opened' = [opened EXCEPT ![p][m.id] = @ + 1]
         \/ opened' = opened
  BY <1>1, <1>2 DEF Receive, Hand
<1>4. /\ TypeOK /\ Parties /\ Numbered /\ Behind /\ KeysUnique /\ Spent /\ Known /\ OpenedOnce
  BY DEF RatchetInv
<1>5. \A o \in sent : o \in Message /\ o.key \in ChainKeys(Key) /\ o.key # None
                      /\ o.from \in Party /\ o.id \in 1 .. MaxSend
  BY <1>4, MessageType DEF TypeOK, Numbered
<1>6. Achieves(s, d) /\ Valid(s) /\ Side(s.root) = Own(p)
  <2>1. h \in Message
    BY <1>4, <1>5, CopyType DEF TypeOK
  <2> QED BY <1>1, <1>2, <1>4, <2>1, DecryptStep DEF Parties
<1>7. /\ state'[p] = d.state /\ \A q \in Party \ {p} : state'[q] = state[q]
      /\ \A q \in Party : Valid(state'[q]) /\ Later(state[q], state'[q])
                          /\ Side(state'[q].root) = Own(q)
  <2>1. state'[p] = d.state /\ \A q \in Party \ {p} : state'[q] = state[q]
    BY <1>3, <1>4 DEF TypeOK
  <2> QED BY <1>1, <1>4, <1>6, <2>1, LaterItself DEF Parties, Achieves, Later
<1>8. Parties' /\ Numbered' /\ Behind' /\ KeysUnique'
  <2>1. Parties'
    BY <1>7 DEF Parties, Own
  <2>2. Behind'
    BY <1>3, <1>4, <1>5, <1>7 DEF Behind, Later
  <2>3. Numbered' /\ KeysUnique'
    BY <1>3, <1>4 DEF Numbered, KeysUnique, From
  <2> QED BY <2>1, <2>2, <2>3
<1>9. opened' \in [Party -> [1 .. MaxSend -> Nat]]
  <2>1. opened \in [Party -> [1 .. MaxSend -> Nat]] /\ m.id \in 1 .. MaxSend
    BY <1>4, <1>5 DEF TypeOK
  <2>2. [opened[p] EXCEPT ![m.id] = @ + 1] \in [1 .. MaxSend -> Nat]
    <3>1. PICK o : o = opened[p]
      OBVIOUS
    <3>2. PICK i : i = m.id
      OBVIOUS
    <3>3. o \in [1 .. MaxSend -> Nat] /\ i \in 1 .. MaxSend
      BY <2>1, <3>1, <3>2
    <3>4. [o EXCEPT ![i] = @ + 1] \in [1 .. MaxSend -> Nat]
      BY <3>3
    <3> QED BY <3>1, <3>2, <3>4
  <2> QED BY <1>3, <2>1, <2>2
<1>10. TypeOK'
  <2>1. state' \in [Party -> States(Key)]
    BY <1>3, <1>4, <1>6 DEF TypeOK, Valid, Achieves
  <2>2. taken' \in [Party -> SUBSET sent'] /\ extra' \in [Party -> 0 .. MaxExtra]
    <3>1. taken \in [Party -> SUBSET sent] /\ extra \in [Party -> 0 .. MaxExtra]
          /\ MaxExtra \in Nat
      BY <1>4, PartyAssumption DEF TypeOK
    <3>2. CASE whole /\ h = m /\ m \notin taken[p]
      BY <1>3, <3>1, <3>2 DEF Receive, Hand
    <3>3. CASE ~ (whole /\ h = m /\ m \notin taken[p])
      <4>1. extra[p] < MaxExtra /\ extra' = [extra EXCEPT ![p] = @ + 1] /\ taken' = taken
        BY <3>3 DEF Receive, Hand
      <4>2. extra[p] + 1 \in 0 .. MaxExtra
        BY <3>1, <4>1
      <4> QED BY <1>3, <3>1, <4>1, <4>2
    <3> QED BY <3>2, <3>3
  <2>3. \A q \in Party : state'[q].recv # None => state'[q].remote # None
    BY <1>7 DEF Valid
  <2>4. Message' = Message /\ Party' = Party /\ States(Key)' = States(Key)
    BY DEF Message, Party, States, Key, ChainKeys, SkippedKeys
  <2> QED BY <1>3, <1>4, <1>9, <2>1, <2>2, <2>3, <2>4 DEF TypeOK
<1>11. ASSUME NEW q \in Party, NEW o \in sent, o.from = Peer(q), opened[q][o.id] > 0
       PROVE  /\ Passed(state'[q], o.key)
              /\ \A e \in state'[q].skipped : e.key # o.key
  <2>1. Passed(state[q], o.key) /\ \A e \in state[q].skipped : e.key # o.key
    BY <1>4, <1>11 DEF Spent
  <2> QED BY <1>5, <1>7, <2>1 DEF Later
<1>12. CASE opened' = opened
  <2>1. Spent' /\ Known' /\ OpenedOnce'
    BY <1>3, <1>4, <1>11, <1>12 DEF Spent, Known, OpenedOnce, Peer, Party
  <2> QED BY <1>8, <1>10, <2>1 DEF RatchetInv
<1>13. CASE d.key = m.key /\ opened' = [opened EXCEPT ![p][m.id] = @ + 1]
  <2>1. /\ Passed(d.state, m.key) /\ \A e \in d.state.skipped : e.key # m.key
        /\ Passed(s, m.key) => \E e \in s.skipped : e.key = m.key
    BY <1>5, <1>6, <1>13 DEF Achieves
  <2>2. opened[p][m.id] = 0
    <3>1. ~ opened[p][m.id] > 0
      BY <1>1, <1>3, <1>4, <2>1 DEF Spent
    <3>2. opened[p][m.id] \in Nat
      BY <1>4, <1>5 DEF TypeOK
    <3> QED BY <3>1, <3>2
  <2>3. \A q \in Party : \A i \in 1 .. MaxSend :
           opened'[q][i] = IF q = p /\ i = m.id THEN 1 ELSE opened[q][i]
    <3>1. opened \in [Party -> [1 .. MaxSend -> Nat]]
      BY <1>4 DEF TypeOK
    <3>2. opened'[p] = [opened[p] EXCEPT ![m.id] = 1]
      <4>1. opened'[p] = [opened[p] EXCEPT ![m.id] = @ + 1]
        BY <1>13, <3>1
      <4> QED BY <1>5, <2>2, <3>1, <4>1
    <3>3. \A q \in Party \ {p} : opened'[q] = opened[q]
      BY <1>13, <3>1
    <3>4. \A i \in 1 .. MaxSend : opened'[p][i] = IF i = m.id THEN 1 ELSE opened[p][i]
      BY <1>5, <3>1, <3>2
    <3> QED BY <3>3, <3>4
  <2>4. OpenedOnce'
    BY <1>4, <2>3 DEF OpenedOnce, Party
  <2>5. Known'
    BY <1>3, <1>4, <2>3 DEF Known, Party, Peer
  <2>6. Spent'
    <3> SUFFICES ASSUME NEW q \in Party, NEW o \in sent, o.from = Peer(q), opened'[q][o.id] > 0
                 PROVE  /\ Passed(state'[q], o.key)
                        /\ \A e \in state'[q].skipped : e.key # o.key
      BY <1>3 DEF Spent, Peer, Party
    <3>1. CASE q = p /\ o.id = m.id
      <4>1. o = m
        BY <1>3, <1>4, <3>1 DEF Numbered
      <4> QED BY <1>7, <2>1, <3>1, <4>1
    <3>2. CASE ~ (q = p /\ o.id = m.id)
      <4>1. opened[q][o.id] > 0
        BY <1>5, <2>3, <3>2
      <4> QED BY <1>11, <4>1
    <3> QED BY <3>1, <3>2
  <2> QED BY <1>8, <1>10, <2>4, <2>5, <2>6 DEF RatchetInv
<1> QED BY <1>3, <1>12, <1>13

\* Every step keeps the invariant.
LEMMA RatchetNext == RatchetInv /\ [Next]_vars => RatchetInv'
<1> SUFFICES ASSUME RatchetInv, [Next]_vars
             PROVE  RatchetInv'
  OBVIOUS
<1>1. CASE Next
  BY <1>1, EncryptKept, ReceiveKept, OwnCopy DEF Next
<1>2. CASE UNCHANGED vars
  <2>1. UNCHANGED <<state, sent, taken, opened, extra>>
    BY <1>2 DEF vars
  <2>2. Message' = Message /\ Party' = Party /\ States(Key)' = States(Key)
    BY DEF Message, Party, States, Key, ChainKeys, SkippedKeys
  <2>3. TypeOK'
    BY <2>1, <2>2 DEF RatchetInv, TypeOK
  <2>4. Parties' /\ Numbered' /\ Behind' /\ KeysUnique'
    BY <2>1 DEF RatchetInv, Parties, Numbered, Behind, KeysUnique, From
  <2>5. Spent' /\ Known' /\ OpenedOnce'
    BY <2>1 DEF RatchetInv, Spent, Known, OpenedOnce
  <2> QED BY <2>3, <2>4, <2>5 DEF RatchetInv
<1> QED BY <1>1, <1>2
-----------------------------------------------------------------------------
(* Theorems *)

\* The invariant holds in every reachable state.
THEOREM RatchetInvariant == Spec => []RatchetInv
BY RatchetInit, RatchetNext, PTL DEF Spec

\* Every variable of the ratchet stays in its type.
THEOREM RatchetTypeCorrect == Spec => []TypeOK
<1>1. RatchetInv => TypeOK
  BY DEF RatchetInv
<1> QED BY <1>1, RatchetInvariant, PTL

\* No key encrypts two messages, for any loss, delay, reordering, repetition and
\* damage (encrypt, dh_ratchet).
THEOREM NoKeyTwice == Spec => []KeysUnique
<1>1. RatchetInv => KeysUnique
  BY DEF RatchetInv
<1> QED BY <1>1, RatchetInvariant, PTL

\* No message opens twice (decrypt).
THEOREM NothingOpensTwice == Spec => []OpenedOnce
<1>1. RatchetInv => OpenedOnce
  BY DEF RatchetInv
<1> QED BY <1>1, RatchetInvariant, PTL

\* A used key cannot be derived again from the state that used it, nor found
\* among the kept ones (encrypt, decrypt).
THEOREM UsedKeysGone == Spec => []KeysForgotten
<1>1. RatchetInv => KeysForgotten
  <2> SUFFICES ASSUME RatchetInv, NEW p \in Party, NEW m \in sent,
                      m.from = p \/ opened[p][m.id] > 0
               PROVE  /\ \A k \in Held(p) : k.root = m.key.root => k.at > m.key.at
                      /\ \A e \in state[p].skipped : e.key # m.key
    BY DEF KeysForgotten
  <2>1. PICK s : s = state[p]
    OBVIOUS
  <2>2. /\ TypeOK /\ Parties /\ Behind /\ Spent /\ Valid(s) /\ Side(s.root) = Own(p)
        /\ s \in States(Key) /\ Shape(s)
    BY <2>1 DEF RatchetInv, Parties, Valid
  <2>3. /\ m.key \in ChainKeys(Key) /\ m.key.at \in Nat /\ Len(m.key.root) \in Nat
        /\ m.from \in Party
    BY <2>2, MessageType, KeyType DEF TypeOK
  <2>4. s.recv # None => /\ Side(s.recv.root) # Own(p) /\ s.recv.at \in Nat
                         /\ Len(s.recv.root) \in Nat
    <3>1. ASSUME s.recv # None
          PROVE  /\ Side(s.recv.root) # Own(p) /\ s.recv.at \in Nat
                 /\ Len(s.recv.root) \in Nat
      <4>1. s.recv \in ChainKeys(Key) /\ Len(s.recv.root) + 1 = Len(s.root) /\ Len(s.root) \in Nat
        BY <2>2, <3>1, StateType DEF Shape
      <4>2. Len(s.recv.root) \in Nat /\ s.recv.at \in Nat
        BY <4>1, KeyType
      <4> QED BY <2>2, <4>1, <4>2, Sides
    <3> QED BY <3>1
  <2>5. s.send # None => s.send.root = s.root /\ s.send.at = s.nsend /\ s.nsend \in Nat
    BY <2>2, StateType DEF Shape
  <2>6. \A e \in s.skipped : s.recv # None /\ Side(e.key.root) = Side(s.recv.root)
    BY <2>2 DEF Shape, Passed
  <2>7. CASE m.from = p
    <3>1. SentBy(s, m.key)
      BY <2>1, <2>2, <2>7 DEF Behind
    <3>2. Side(m.key.root) = Own(p)
      BY <2>2, <3>1 DEF SentBy
    <3>3. s.send # None /\ s.send.root = m.key.root => s.send.at > m.key.at
      BY <2>3, <2>5, <3>1 DEF SentBy
    <3>4. s.recv # None => s.recv.root # m.key.root
      BY <2>4, <3>2
    <3>5. \A e \in s.skipped : e.key # m.key
      BY <2>4, <2>6, <3>2
    <3> QED BY <2>1, <3>3, <3>4, <3>5 DEF Held
  <2>8. CASE m.from # p
    <3>1. Passed(s, m.key) /\ \A e \in s.skipped : e.key # m.key
      BY <2>1, <2>2, <2>3, <2>8, Peers DEF Spent
    <3>2. Side(m.key.root) # Own(p)
      BY <2>4, <3>1 DEF Passed
    <3>3. s.send # None => s.send.root # m.key.root
      BY <2>2, <2>5, <3>2
    <3>4. s.recv # None /\ s.recv.root = m.key.root => s.recv.at > m.key.at
      BY <2>3, <2>4, <3>1 DEF Passed
    <3> QED BY <2>1, <3>1, <3>3, <3>4 DEF Held
  <2> QED BY <2>7, <2>8
<1> QED BY <1>1, RatchetInvariant, PTL
-----------------------------------------------------------------------------
(* Late messages: how the two parties stand to each other while nothing is   *)
(* repeated or damaged.                                                      *)

\* s has turned the ratchet once more than t.
Ahead(s, t) == Len(s.root) > Len(t.root)

\* p, in state s, is one turn ahead of its peer, in state t: what p sends is on the
\* chain that its peer will come to with the present key of p, and what its peer
\* sends is on the chain that p receives.
Linked(p, s, t) ==
    /\ s.self.of = p /\ Len(s.root) = 2 * s.self.n + Own(p)
    /\ t.self.of = Peer(p) /\ Len(t.root) = 2 * t.self.n + Own(Peer(p))
    /\ s.root = Append(t.root, {s.self, t.self})
    /\ s.remote = t.self /\ s.send # None
    /\ s.recv = None => t.send = None /\ t.self.n = 0
    /\ s.recv # None => s.recv.root = t.root
    /\ t.remote = None => s.self.n = 0
    /\ t.remote # None => t.remote.of = p /\ t.remote.n + 1 = s.self.n
    /\ t.recv = None => s.self.n <= 1

\* What p, in state s, has sent its peer, in state t: every step of its present
\* chain, and of the one before if its peer has not come to the present one.
Stamped(p, s, t, S) ==
    /\ \A m \in S :
          /\ m.dh.of = p /\ Len(m.key.root) = 2 * m.dh.n + Own(p) /\ m.dh.n <= s.self.n
          /\ m.dh = s.self => m.key.root = s.root /\ m.n < s.nsend /\ m.prev = s.prev
          /\ m.dh = t.remote => t.recv # None
          /\ Ahead(s, t) /\ m.dh = t.remote => m.n < s.prev
    /\ \A m, o \in S : m.dh.n < o.dh.n \/ (m.dh = o.dh /\ m.n < o.n) => m.id < o.id
    /\ \A i \in Nat : i < s.nsend => \E m \in S : m.dh = s.self /\ m.n = i
    /\ Ahead(s, t) /\ t.recv # None =>
          \A i \in Nat : i < s.prev => \E m \in S : m.dh = t.remote /\ m.n = i
    /\ ~ Ahead(s, t) /\ t.recv # None => t.nrecv <= s.nsend

\* The messages S, of which those in T have been handed over, and what is kept in
\* t: a key for each of them that the chain has passed, under its own mark.
Filed(t, S, T) ==
    /\ \A m \in S : m.key.at = m.n
    /\ t.recv # None => \A m \in S : m.dh = t.remote <=> m.key.root = t.recv.root
    /\ \A m \in S \ T : Passed(t, m.key) => \E e \in t.skipped : e.dh = m.dh /\ e.n = m.n
    /\ \A e \in t.skipped : \A m \in S : e.dh = m.dh /\ e.n = m.n => e.key = m.key
    /\ \A e \in t.skipped : /\ t.remote # None /\ e.dh.n <= t.remote.n
                            /\ e.dh = t.remote => e.key.root = t.recv.root /\ e.key.at = e.n

\* One of the parties is ahead, and each has what the other has sent in its place.
InStep ==
    /\ \E p \in Party : Linked(p, state[p], state[Peer(p)])
    /\ \A p \in Party : /\ Stamped(p, state[p], state[Peer(p)], From(p))
                        /\ Filed(state[Peer(p)], From(p), taken[Peer(p)])

\* t and u are of the same turn, on the same chains.
SameTurn(t, u) ==
    /\ u.self = t.self /\ u.root = t.root /\ u.remote = t.remote /\ u.send = t.send
    /\ u.nsend = t.nsend /\ u.prev = t.prev
    /\ u.recv = None <=> t.recv = None
    /\ t.recv # None => u.recv.root = t.recv.root

\* Chain keys with the same root and step are the same.
LEMMA SameKey ==
    ASSUME NEW k \in ChainKeys(Key), NEW l \in ChainKeys(Key), k.root = l.root, k.at = l.at
    PROVE  k = l
BY KeyType

\* Key pairs of one party are in order of generation.
LEMMA SamePair ==
    ASSUME NEW a \in Key, NEW b \in Key, a.of = b.of, a.n = b.n
    PROVE  a = b
BY DEF Key

\* What skip_messages does when it has something to skip.
LEMMA SkipParts ==
    ASSUME NEW s, Valid(s), NEW until \in Nat, s.recv # None, s.nrecv < until
    PROVE  LET u == Skip(s, until)
           IN  /\ SameTurn(s, u) /\ u.recv # None /\ u.recv.at = until /\ u.nrecv = until
               /\ \A e \in u.skipped :
                     \/ e \in s.skipped
                     \/ /\ e.dh = s.remote /\ e.key \in ChainKeys(Key)
                        /\ e.key.root = s.recv.root /\ e.key.at = e.n
               /\ \A e \in s.skipped :
                     \/ e \in u.skipped
                     \/ e.dh = s.remote /\ e.n \in Nat /\ s.nrecv <= e.n /\ e.n < until
               /\ \A i \in Nat : s.nrecv <= i /\ i < until =>
                     \E e \in u.skipped : e.dh = s.remote /\ e.n = i
<1> DEFINE passed == s.nrecv .. until - 1
           new == {[dh |-> s.remote, n |-> i, key |-> After(s.recv, i - s.nrecv)] : i \in passed}
           old == {e \in s.skipped : ~ (e.dh = s.remote /\ e.n \in passed)}
           u == Skip(s, until)
<1>1. /\ s \in States(Key) /\ s.recv \in ChainKeys(Key) /\ s.nrecv \in Nat /\ s.recv.at = s.nrecv
  BY StateType DEF Valid, Shape
<1>c. ~ (s.recv = None \/ until <= s.nrecv)
  BY <1>1
<1>2. u = [s EXCEPT !.skipped = old \cup new, !.nrecv = until,
                    !.recv = After(s.recv, until - s.nrecv)]
  BY <1>c DEF Skip
<1>3. \A i \in Nat : i >= s.nrecv =>
         /\ After(s.recv, i - s.nrecv) \in ChainKeys(Key)
         /\ After(s.recv, i - s.nrecv).root = s.recv.root /\ After(s.recv, i - s.nrecv).at = i
  <2> SUFFICES ASSUME NEW i \in Nat, i >= s.nrecv
               PROVE  /\ After(s.recv, i - s.nrecv) \in ChainKeys(Key)
                      /\ After(s.recv, i - s.nrecv).root = s.recv.root
                      /\ After(s.recv, i - s.nrecv).at = i
    OBVIOUS
  <2>1. i - s.nrecv \in Nat /\ s.recv.at + (i - s.nrecv) = i
    BY <1>1
  <2> QED BY <1>1, <2>1, KeyType
<1>4. /\ After(s.recv, until - s.nrecv) \in ChainKeys(Key)
      /\ After(s.recv, until - s.nrecv).root = s.recv.root
      /\ After(s.recv, until - s.nrecv).at = until
  BY <1>1, <1>3
<1> HIDE DEF u
<1>5. /\ u.skipped = old \cup new /\ u.recv = After(s.recv, until - s.nrecv) /\ u.nrecv = until
      /\ u.self = s.self /\ u.root = s.root /\ u.remote = s.remote /\ u.send = s.send
      /\ u.nsend = s.nsend /\ u.prev = s.prev
  <2> HIDE DEF new, old
  <2> QED BY <1>1, <1>2 DEF States
<1>6. SameTurn(s, u) /\ u.recv # None
  BY <1>1, <1>4, <1>5, NoneAssumption DEF SameTurn
<1>7. ASSUME NEW e \in new
      PROVE  /\ e.dh = s.remote /\ e.key \in ChainKeys(Key)
             /\ e.key.root = s.recv.root /\ e.key.at = e.n
  <2>1. PICK i \in passed : e = [dh |-> s.remote, n |-> i, key |-> After(s.recv, i - s.nrecv)]
    OBVIOUS
  <2>2. i \in Nat /\ i >= s.nrecv
    BY <1>1
  <2>3. e.dh = s.remote /\ e.n = i /\ e.key = After(s.recv, i - s.nrecv)
    BY <2>1
  <2> QED BY <1>3, <2>2, <2>3
<1>8. ASSUME NEW i \in Nat, s.nrecv <= i, i < until
      PROVE  \E e \in new : e.dh = s.remote /\ e.n = i
  <2>1. i \in passed
    BY <1>1, <1>8
  <2>2. [dh |-> s.remote, n |-> i, key |-> After(s.recv, i - s.nrecv)] \in new
    BY <2>1
  <2> QED BY <2>2
<1>9. ASSUME NEW e \in s.skipped, e \notin old
      PROVE  e.dh = s.remote /\ e.n \in Nat /\ s.nrecv <= e.n /\ e.n < until
  <2>1. e.dh = s.remote /\ e.n \in passed
    BY <1>9
  <2> QED BY <1>1, <2>1
<1>10. \A e \in old : e \in s.skipped
  OBVIOUS
<1> HIDE DEF new, old
<1> QED BY <1>4, <1>5, <1>6, <1>7, <1>8, <1>9, <1>10 DEF u

\* skip_messages leaves everything else alone.
LEMMA SkipSame ==
    ASSUME NEW s, Valid(s), NEW until \in Nat
    PROVE  SameTurn(s, Skip(s, until))
<1>1. CASE s.recv = None \/ until <= s.nrecv
  BY <1>1 DEF Skip, SameTurn
<1>2. CASE s.recv # None /\ ~ until <= s.nrecv
  <2>1. s.nrecv \in Nat
    BY StateType DEF Valid
  <2> QED BY <1>2, <2>1, SkipParts
<1> QED BY <1>1, <1>2

\* skip_messages keeps what it passes over, for the messages it belongs to.
LEMMA SkipFiled ==
    ASSUME NEW t, Valid(t), NEW S \in SUBSET Message, NEW T, Filed(t, S, T), NEW until \in Nat
    PROVE  /\ Filed(Skip(t, until), S, T)
           /\ \A m \in S : t.recv # None /\ m.dh = t.remote /\ m.n < until
                           => Passed(Skip(t, until), m.key)
<1> DEFINE u == Skip(t, until)
<1>1. /\ t \in States(Key) /\ t.nrecv \in Nat /\ t.skipped \in SUBSET SkippedKeys(Key)
      /\ t.recv # None => t.recv \in ChainKeys(Key) /\ t.recv.at = t.nrecv /\ t.remote # None
                          /\ t.remote \in Key
  BY StateType DEF Valid, Shape
<1>2. \A m \in S : /\ m.key \in ChainKeys(Key) /\ m.key.at = m.n /\ m.n \in Nat
                   /\ Len(m.key.root) \in Nat
  BY KeyType DEF Filed, Message
<1>3. CASE t.recv = None \/ until <= t.nrecv
  <2>1. u = t
    BY <1>3 DEF Skip
  <2>2. ASSUME NEW m \in S, t.recv # None, m.dh = t.remote, m.n < until
        PROVE  Passed(t, m.key)
    <3>1. m.key.root = t.recv.root /\ m.key.at < t.recv.at
      BY <1>1, <1>2, <1>3, <2>2 DEF Filed
    <3> QED BY <2>2, <3>1 DEF Passed
  <2> QED BY <2>1, <2>2
<1>4. CASE t.recv # None /\ ~ until <= t.nrecv
  <2>1. /\ SameTurn(t, u) /\ u.recv # None /\ u.recv.at = until /\ u.nrecv = until
        /\ \A e \in u.skipped :
              \/ e \in t.skipped
              \/ /\ e.dh = t.remote /\ e.key \in ChainKeys(Key)
                 /\ e.key.root = t.recv.root /\ e.key.at = e.n
        /\ \A e \in t.skipped :
              \/ e \in u.skipped
              \/ e.dh = t.remote /\ e.n \in Nat /\ t.nrecv <= e.n /\ e.n < until
        /\ \A i \in Nat : t.nrecv <= i /\ i < until =>
              \E e \in u.skipped : e.dh = t.remote /\ e.n = i
    BY <1>1, <1>4, SkipParts
  <2> HIDE DEF u
  <2>2. u.recv.root = t.recv.root /\ u.remote = t.remote
    BY <1>4, <2>1 DEF SameTurn
  <2>3. ASSUME NEW m \in S, m.dh = t.remote, m.n < until PROVE Passed(u, m.key)
    <3>1. m.key.root = u.recv.root /\ m.key.at < u.recv.at
      BY <1>2, <1>4, <2>1, <2>2, <2>3 DEF Filed
    <3> QED BY <2>1, <3>1 DEF Passed
  <2>4. ASSUME NEW m \in S \ T, Passed(u, m.key)
        PROVE  \E e \in u.skipped : e.dh = m.dh /\ e.n = m.n
    <3>1. CASE Passed(t, m.key)
      <4>1. PICK e \in t.skipped : e.dh = m.dh /\ e.n = m.n
        BY <3>1 DEF Filed
      <4> QED BY <2>1, <4>1
    <3>2. CASE ~ Passed(t, m.key)
      <4>1. m.key.root = t.recv.root /\ m.key.at < until /\ ~ m.key.at < t.recv.at
        BY <1>4, <2>1, <2>2, <2>4, <3>2 DEF Passed
      <4>2. m.dh = t.remote /\ t.nrecv <= m.n /\ m.n < until /\ m.n \in Nat
        BY <1>1, <1>2, <1>4, <4>1 DEF Filed
      <4> QED BY <2>1, <4>2
    <3> QED BY <3>1, <3>2
  <2>5. ASSUME NEW e \in u.skipped, NEW m \in S, e.dh = m.dh, e.n = m.n PROVE e.key = m.key
    <3>1. CASE e \in t.skipped
      BY <2>5, <3>1 DEF Filed
    <3>2. CASE e \notin t.skipped
      <4>1. e.dh = t.remote /\ e.key \in ChainKeys(Key) /\ e.key.root = t.recv.root
            /\ e.key.at = e.n
        BY <2>1, <3>2
      <4>2. m.key.root = t.recv.root /\ m.key.at = m.n
        BY <1>2, <1>4, <2>5, <4>1 DEF Filed
      <4> QED BY <1>2, <2>5, <4>1, <4>2, SameKey
    <3> QED BY <3>1, <3>2
  <2>6. ASSUME NEW e \in u.skipped
        PROVE  /\ u.remote # None /\ e.dh.n <= u.remote.n
               /\ e.dh = u.remote => e.key.root = u.recv.root /\ e.key.at = e.n
    <3>1. t.remote.n \in Nat
      BY <1>1, <1>4 DEF Key
    <3> QED BY <1>1, <1>4, <2>1, <2>2, <3>1 DEF Filed
  <2>7. Filed(u, S, T)
    BY <1>2, <1>4, <2>2, <2>4, <2>5, <2>6 DEF Filed
  <2> QED BY <2>3, <2>7 DEF u
<1> QED BY <1>3, <1>4

\* A kept key is used for the message it belongs to.
LEMMA GivenFiled ==
    ASSUME NEW t, Valid(t), NEW S, NEW T, Filed(t, S, T), NEW m \in S,
           \A a, b \in S : a.key = b.key => a = b,
           NEW e \in t.skipped, e.key = m.key
    PROVE  Filed(GivenUp(t, e), S, T \cup {m}) /\ SameTurn(t, GivenUp(t, e))
           /\ GivenUp(t, e).nrecv = t.nrecv
<1> DEFINE u == GivenUp(t, e)
<1>1. t \in States(Key)
  BY DEF Valid
<1>2. /\ u.skipped = t.skipped \ {e} /\ u.recv = t.recv /\ u.nrecv = t.nrecv /\ u.self = t.self
      /\ u.root = t.root /\ u.send = t.send /\ u.nsend = t.nsend /\ u.remote = t.remote
      /\ u.prev = t.prev
  BY <1>1 DEF GivenUp, States
<1> HIDE DEF u
<1>3. ASSUME NEW o \in S \ (T \cup {m}), Passed(u, o.key)
      PROVE  \E f \in u.skipped : f.dh = o.dh /\ f.n = o.n
  <2>1. Passed(t, o.key)
    BY <1>2, <1>3 DEF Passed
  <2>2. PICK f \in t.skipped : f.dh = o.dh /\ f.n = o.n
    BY <2>1 DEF Filed
  <2>3. f.key = o.key /\ o.key # m.key
    BY <2>2 DEF Filed
  <2> QED BY <1>2, <2>2, <2>3
<1>4. Filed(u, S, T \cup {m})
  BY <1>2, <1>3 DEF Filed
<1> QED BY <1>2, <1>4 DEF SameTurn, u

\* The next key of the chain is used for the message it belongs to.
LEMMA AdvanceFiled ==
    ASSUME NEW t, Valid(t), NEW S \in SUBSET Message, NEW T, Filed(t, S, T), NEW m \in S,
           \A a, b \in S : a.key = b.key => a = b,
           t.recv # None, t.recv = m.key
    PROVE  /\ Filed(Advanced(t), S, T \cup {m}) /\ SameTurn(t, Advanced(t))
           /\ Advanced(t).nrecv = m.n + 1
<1> DEFINE u == Advanced(t)
<1>1. /\ t \in States(Key) /\ t.recv \in ChainKeys(Key) /\ t.nrecv \in Nat /\ t.recv.at = t.nrecv
      /\ m.n = t.nrecv
  BY StateType DEF Valid, Shape, Filed
<1>2. /\ After(t.recv, 1) \in ChainKeys(Key) /\ After(t.recv, 1).root = t.recv.root
      /\ After(t.recv, 1).at = t.recv.at + 1
  BY <1>1, OneOn
<1>3. u = [t EXCEPT !.recv = After(t.recv, 1), !.nrecv = t.nrecv + 1]
  BY DEF Advanced
<1> HIDE DEF u
<1>4. /\ u.recv = After(t.recv, 1) /\ u.nrecv = t.nrecv + 1 /\ u.self = t.self
      /\ u.root = t.root /\ u.send = t.send /\ u.nsend = t.nsend /\ u.remote = t.remote
      /\ u.prev = t.prev /\ u.skipped = t.skipped
  BY <1>1, <1>3 DEF States
<1>5. u.recv # None /\ u.recv.root = t.recv.root /\ u.recv.at = t.recv.at + 1
  BY <1>2, <1>4, NoneAssumption
<1>6. \A o \in S : o.key \in ChainKeys(Key) /\ o.key.at \in Nat
  BY KeyType DEF Message
<1>7. ASSUME NEW o \in S \ (T \cup {m}), Passed(u, o.key)
      PROVE  \E f \in u.skipped : f.dh = o.dh /\ f.n = o.n
  <2>1. CASE Passed(t, o.key)
    BY <1>4, <2>1 DEF Filed
  <2>2. CASE ~ Passed(t, o.key)
    <3>1. o.key.root = t.recv.root /\ o.key.at < t.recv.at + 1 /\ ~ o.key.at < t.recv.at
      BY <1>5, <1>7, <2>2 DEF Passed
    <3>2. o.key.at = t.recv.at
      BY <1>1, <1>6, <3>1
    <3>3. o.key = m.key
      BY <1>1, <1>6, <3>1, <3>2, SameKey
    <3> QED BY <3>3
  <2> QED BY <2>1, <2>2
<1>8. Filed(u, S, T \cup {m})
  BY <1>4, <1>5, <1>7 DEF Filed
<1> QED BY <1>1, <1>4, <1>5, <1>8 DEF SameTurn, u

\* dh_ratchet leaves what is kept, and nothing of the new chain is passed.
LEMMA RatchetFiled ==
    ASSUME NEW t, Valid(t), NEW S \in SUBSET Message, NEW T, Filed(t, S, T), NEW dh \in Key,
           \A m \in S : m.dh = dh <=> m.key.root = Mix(t.root, t.self, dh),
           \A m \in S \ T : m.dh = dh \/ Passed(t, m.key),
           t.remote # None => t.remote.n < dh.n
    PROVE  Filed(Ratcheted(t, dh), S, T)
<1> DEFINE u == Ratcheted(t, dh)
           received == Mix(t.root, t.self, dh)
           fresh == Fresh(t.self)
           sending == Mix(received, fresh, dh)
<1>1. /\ t \in States(Key) /\ t.self \in Key /\ t.root \in Seq(SUBSET Key) /\ Len(t.root) \in Nat
      /\ t.skipped \in SUBSET SkippedKeys(Key) /\ t.remote \in Key \cup {None}
  BY StateType DEF Valid
<1>2. /\ Chain(received) \in ChainKeys(Key) /\ Chain(received).root = received
      /\ Chain(received).at = 0 /\ Len(received) \in Nat
  BY <1>1, MixType
<1>3. u = [t EXCEPT !.prev = t.nsend, !.nsend = 0, !.nrecv = 0, !.remote = dh,
                    !.recv = Chain(received), !.self = fresh,
                    !.root = sending, !.send = Chain(sending)]
  BY DEF Ratcheted
<1> HIDE DEF u, received, fresh, sending
<1>4. u.recv = Chain(received) /\ u.remote = dh /\ u.skipped = t.skipped
  BY <1>1, <1>3 DEF States
<1>5. u.recv # None /\ u.recv.root = received /\ u.recv.at = 0 /\ dh # None
  BY <1>2, <1>4, NoneAssumption
<1>6. \A m \in S : m.dh = dh <=> m.key.root = u.recv.root
  BY <1>5 DEF received
<1>7. ASSUME NEW m \in S \ T, Passed(u, m.key)
      PROVE  \E e \in u.skipped : e.dh = m.dh /\ e.n = m.n
  <2>1. m.key \in ChainKeys(Key) /\ m.key.at \in Nat
    BY KeyType DEF Message
  <2>2. m.dh # dh
    <3>1. CASE m.dh = dh
      <4>1. m.key.root = u.recv.root
        BY <1>6, <3>1
      <4> QED BY <1>2, <1>5, <1>7, <2>1, <4>1 DEF Passed
    <3> QED BY <3>1
  <2>3. Passed(t, m.key)
    BY <2>2
  <2> QED BY <1>4, <2>3 DEF Filed
<1>8. ASSUME NEW e \in u.skipped
      PROVE  u.remote # None /\ e.dh.n <= u.remote.n /\ e.dh # u.remote
  <2>1. e.dh \in Key /\ e.dh.n \in Nat /\ t.remote # None /\ e.dh.n <= t.remote.n
    BY <1>1, <1>4 DEF SkippedKeys, Key, Filed
  <2>2. t.remote.n \in Nat /\ dh.n \in Nat /\ t.remote.n < dh.n
    BY <1>1, <2>1 DEF Key
  <2> QED BY <1>4, <1>5, <2>1, <2>2
<1>9. Filed(u, S, T)
  BY <1>4, <1>6, <1>7, <1>8 DEF Filed
<1> QED BY <1>9 DEF u

\* The next key of the chain, when the messages before it have been passed over.
LEMMA NextOpens ==
    ASSUME NEW t, Valid(t), NEW S \in SUBSET Message, NEW T, Filed(t, S, T), NEW m \in S,
           \A a, b \in S : a.key = b.key => a = b,
           t.recv # None, m.dh = t.remote, t.nrecv <= m.n
    PROVE  LET u == Skip(t, m.n)
           IN  /\ u.recv = m.key
               /\ Filed(Advanced(u), S, T \cup {m}) /\ SameTurn(t, Advanced(u))
               /\ Advanced(u).nrecv = m.n + 1
<1> DEFINE u == Skip(t, m.n)
<1>1. /\ t.recv \in ChainKeys(Key) /\ t.nrecv \in Nat /\ t.recv.at = t.nrecv
      /\ m.n \in Nat /\ m.key \in ChainKeys(Key) /\ m.key.at = m.n
      /\ m.key.root = t.recv.root
  BY StateType DEF Valid, Shape, Filed, Message
<1>2. Valid(u) /\ SameTurn(t, u) /\ Filed(u, S, T)
  BY <1>1, SkipStep, SkipSame, SkipFiled
<1>3. u.recv # None /\ u.recv.at = m.n /\ u.recv.root = t.recv.root
  <2>1. CASE m.n <= t.nrecv
    <3>1. u = t
      BY <2>1 DEF Skip
    <3> QED BY <1>1, <2>1, <3>1
  <2>2. CASE ~ m.n <= t.nrecv
    <3>1. t.nrecv < m.n
      BY <1>1, <2>2
    <3>2. u.recv # None /\ u.recv.at = m.n
      BY <1>1, <3>1, SkipParts
    <3> QED BY <1>2, <3>2 DEF SameTurn
  <2> QED BY <2>1, <2>2
<1> HIDE DEF u
<1>4. u.recv \in ChainKeys(Key)
  BY <1>2, <1>3, StateType DEF Valid
<1>5. u.recv = m.key
  BY <1>1, <1>3, <1>4, SameKey
<1>6. /\ Filed(Advanced(u), S, T \cup {m}) /\ SameTurn(u, Advanced(u))
      /\ Advanced(u).nrecv = m.n + 1
  BY <1>2, <1>3, <1>5, AdvanceFiled
<1>7. SameTurn(t, Advanced(u))
  BY <1>2, <1>3, <1>6 DEF SameTurn
<1> QED BY <1>5, <1>6, <1>7 DEF u

\* A stretch of more than MaxSkip steps is that many messages.
LEMMA ManySteps ==
    ASSUME NEW M, IsFiniteSet(M), NEW a \in Nat, NEW b \in Nat, a + MaxSkip < b,
           \A i \in Nat : a <= i /\ i < b => \E o \in M : o.n = i
    PROVE  Cardinality(M) \in Nat /\ Cardinality(M) > MaxSkip
<1> DEFINE D == a .. b - 1
           f == [i \in D |-> CHOOSE o \in M : o.n = i]
<1>1. MaxSkip \in Nat /\ b - 1 \in Int /\ a \in Int /\ ~ a > b - 1 /\ b - 1 - a + 1 > MaxSkip
  BY RatchetAssumption
<1>2. IsFiniteSet(D) /\ Cardinality(D) = b - 1 - a + 1
  BY <1>1, FS_Interval
<1>3. ASSUME NEW i \in D PROVE f[i] \in M /\ f[i].n = i
  <2>1. i \in Nat /\ a <= i /\ i < b
    OBVIOUS
  <2>2. \E o \in M : o.n = i
    BY <2>1
  <2> QED BY <2>2
<1>4. f \in [D -> M]
  BY <1>3
<1> HIDE DEF f, D
<1>5. \A i, j \in D : f[i] = f[j] => i = j
  BY <1>3
<1>6. f \in Injection(D, M)
  BY <1>4, <1>5 DEF Injection, IsInjective
<1>7. Cardinality(D) <= Cardinality(M)
  BY <1>6, FS_Injection
<1>8. Cardinality(M) \in Nat
  BY FS_CardinalityType
<1> QED BY <1>1, <1>2, <1>7, <1>8

\* The party ahead is one turn from what its peer receives.
LEMMA Leading ==
    ASSUME NEW p \in Party, NEW s, Valid(s), NEW t, Valid(t), Linked(p, s, t)
    PROVE  /\ Ahead(s, t) /\ ~ Ahead(t, s) /\ Len(s.root) = Len(t.root) + 1
           /\ Len(s.root) = 2 * s.self.n + Own(p) /\ s.self \in Key /\ t.self \in Key
           /\ s.self.of = p /\ s.self.n \in Nat
           /\ t.remote = None => s.self.n = 0
           /\ t.remote # None => /\ t.remote \in Key /\ t.remote.of = p /\ t.remote.n \in Nat
                                 /\ t.remote.n + 1 = s.self.n
           /\ t.recv # None => Len(t.recv.root) + 2 = Len(s.root)
                               /\ Side(t.recv.root) = Side(s.root) /\ t.remote # None
           /\ t.recv = None => s.self.n <= 1
<1>1. /\ s \in States(Key) /\ t \in States(Key) /\ s.self \in Key /\ t.self \in Key
      /\ t.remote \in Key \cup {None} /\ Len(s.root) \in Nat /\ Len(t.root) \in Nat
      /\ s.root = Append(t.root, {s.self, t.self}) /\ t.root \in Seq(SUBSET Key)
  BY StateType DEF Valid, Linked
<1>2. Len(s.root) = Len(t.root) + 1
  <2>1. PICK x : x = {s.self, t.self}
    OBVIOUS
  <2>2. x \in SUBSET Key /\ s.root = Append(t.root, x)
    BY <1>1, <2>1
  <2> QED BY <1>1, <2>2, AppendProperties
<1>3. Ahead(s, t) /\ ~ Ahead(t, s)
  BY <1>1, <1>2 DEF Ahead
<1>4. ASSUME t.recv # None
      PROVE  Len(t.recv.root) + 2 = Len(s.root) /\ Side(t.recv.root) = Side(s.root)
  <2>1. t.recv \in ChainKeys(Key) /\ Len(t.recv.root) + 1 = Len(t.root)
    BY <1>1, <1>4, StateType DEF Valid, Shape
  <2>2. Len(t.recv.root) \in Nat
    BY <2>1, KeyType
  <2>3. Len(t.recv.root) + 2 = Len(s.root) /\ Len(s.root) = Len(t.recv.root) + 2
    BY <1>1, <1>2, <2>1, <2>2
  <2> QED BY <1>1, <2>2, <2>3, Sides
<1>5. s.self.n \in Nat /\ (t.remote # None => t.remote.n \in Nat)
  BY <1>1 DEF Key
<1>6. /\ Len(s.root) = 2 * s.self.n + Own(p) /\ s.self.of = p
      /\ t.remote = None => s.self.n = 0
      /\ t.remote # None => t.remote.of = p /\ t.remote.n + 1 = s.self.n
      /\ t.recv = None => s.self.n <= 1
  BY DEF Linked
<1> QED BY <1>1, <1>2, <1>3, <1>4, <1>5, <1>6 DEF Valid

\* The party that is not ahead sends on the chain that its peer receives.
LEMMA Lagging ==
    ASSUME NEW p \in Party, NEW s, Valid(s), NEW t, Valid(t), Linked(Peer(p), t, s)
    PROVE  /\ ~ Ahead(s, t) /\ Ahead(t, s)
           /\ Len(s.root) = 2 * s.self.n + Own(p) /\ s.self \in Key /\ t.self \in Key
           /\ s.self.of = p /\ s.self.n \in Nat
           /\ t.remote = s.self /\ t.remote # None
           /\ s.send # None => t.recv # None
           /\ t.recv # None => t.recv.root = s.root
<1>1. Peer(p) \in Party /\ Peer(Peer(p)) = p
  BY PartyAssumption DEF Peer, Party
<1>2. Ahead(t, s) /\ ~ Ahead(s, t) /\ t.self \in Key /\ s.self \in Key
  BY <1>1, Leading
<1>3. /\ s.self.of = p /\ Len(s.root) = 2 * s.self.n + Own(p)
      /\ t.remote = s.self /\ (t.recv = None => s.send = None)
      /\ t.recv # None => t.recv.root = s.root
  BY <1>1 DEF Linked
<1>4. s.self.n \in Nat /\ s.self # None
  BY <1>2, NoneAssumption DEF Key
<1> QED BY <1>2, <1>3, <1>4

\* What is not on the chain that t receives is behind it, or on the one to come.
LEMMA BehindOrNext ==
    ASSUME NEW p \in Party, NEW s, Valid(s), NEW t, Valid(t),
           Linked(p, s, t) \/ Linked(Peer(p), t, s),
           NEW S \in SUBSET Message, Stamped(p, s, t, S),
           NEW m \in S, SentBy(s, m.key), m.dh # t.remote
    PROVE  Passed(t, m.key) \/ (Linked(p, s, t) /\ m.dh = s.self)
<1>1. /\ m.dh \in Key /\ m.dh.n \in Nat /\ m.dh.of = p /\ m.dh.n <= s.self.n
      /\ Len(m.key.root) = 2 * m.dh.n + Own(p) /\ Own(p) \in Nat
      /\ Side(m.key.root) = Side(s.root) /\ s.send # None
  BY DEF Stamped, Message, Key, Own, SentBy
<1>2. CASE Linked(Peer(p), t, s)
  <2>1. /\ Len(s.root) = 2 * s.self.n + Own(p) /\ s.self \in Key /\ s.self.of = p
        /\ s.self.n \in Nat /\ t.remote = s.self /\ t.recv # None /\ t.recv.root = s.root
    BY <1>1, <1>2, Lagging
  <2>2. m.dh.n # s.self.n
    BY <1>1, <2>1, SamePair
  <2>3. Len(m.key.root) < Len(t.recv.root)
    BY <1>1, <2>1, <2>2
  <2> QED BY <1>1, <2>1, <2>3 DEF Passed
<1>3. CASE Linked(p, s, t)
  <2>1. /\ Len(s.root) = 2 * s.self.n + Own(p) /\ s.self \in Key /\ s.self.of = p
        /\ s.self.n \in Nat
        /\ t.remote = None => s.self.n = 0
        /\ t.remote # None => /\ t.remote \in Key /\ t.remote.of = p /\ t.remote.n \in Nat
                              /\ t.remote.n + 1 = s.self.n
        /\ t.recv # None => Len(t.recv.root) + 2 = Len(s.root)
                            /\ Side(t.recv.root) = Side(s.root)
        /\ t.recv = None => s.self.n <= 1
    BY <1>3, Leading
  <2>2. CASE m.dh.n = s.self.n
    BY <1>1, <1>3, <2>1, <2>2, SamePair
  <2>3. CASE m.dh.n # s.self.n
    <3>1. PICK x \in Nat, y \in Nat : x = m.dh.n /\ y = s.self.n
      BY <1>1, <2>1
    <3>2. x < y /\ y # 0
      BY <1>1, <2>3, <3>1
    <3>3. /\ t.remote # None /\ t.remote \in Key /\ t.remote.of = p /\ t.remote.n \in Nat
          /\ t.remote.n + 1 = y
      BY <2>1, <3>1, <3>2
    <3>4. m.dh.n # t.remote.n
      BY <1>1, <3>3, SamePair
    <3>5. x + 2 <= y /\ 1 < y
      BY <3>1, <3>2, <3>3, <3>4
    <3>6. t.recv # None /\ Len(t.recv.root) + 2 = 2 * y + Own(p)
          /\ Side(t.recv.root) = Side(s.root)
      BY <2>1, <3>1, <3>5
    <3>7. t.recv \in ChainKeys(Key)
      BY <3>6, StateType DEF Valid
    <3>8. Len(t.recv.root) \in Nat
      BY <3>7, KeyType
    <3>9. Len(m.key.root) = 2 * x + Own(p)
      BY <1>1, <3>1
    <3>10. Len(m.key.root) < Len(t.recv.root)
      BY <1>1, <3>5, <3>6, <3>8, <3>9
    <3> QED BY <1>1, <3>6, <3>10 DEF Passed
  <2> QED BY <2>2, <2>3
<1> QED BY <1>2, <1>3

\* A message m of those S that p, in state s, has sent comes to its peer, in state
\* t, who was handed those in T before.
Comes(p, s, t, S, T, m) ==
    /\ Valid(s) /\ Valid(t) /\ (Linked(p, s, t) \/ Linked(Peer(p), t, s))
    /\ S \in SUBSET Message /\ Stamped(p, s, t, S) /\ Filed(t, S, T)
    /\ \A o \in S : SentBy(s, o.key)
    /\ \A a, b \in S : a.key = b.key => a = b
    /\ m \in S \ T

\* From a to b there are more steps than may be skipped, and a message for each,
\* sent before m and not passed by t.
Gap(t, S, m, a, b) ==
    /\ a + MaxSkip < b
    /\ \A i \in Nat : a <= i /\ i < b =>
          \E o \in S : o.n = i /\ o.id < m.id /\ ~ Passed(t, o.key)

\* u is t after it came to what s sends.
Overtook(s, t, u) ==
    /\ u.self = Fresh(t.self) /\ u.root = Mix(s.root, Fresh(t.self), s.self)
    /\ u.remote = s.self /\ u.send # None /\ u.nsend = 0 /\ u.prev = t.nsend
    /\ u.recv # None /\ u.recv.root = s.root /\ u.nrecv <= s.nsend

\* What decrypt makes of m: it opens or too many are missing before it.
Handled(p, s, t, S, T, m, d) ==
    /\ d.key = m.key \/ (d.key = None /\ \E a, b \in Nat : Gap(t, S, m, a, b))
    /\ \/ SameTurn(t, d.state) /\ (Ahead(s, t) \/ d.state.nrecv <= s.nsend)
       \/ Linked(p, s, t) /\ Overtook(s, t, d.state)
    /\ Filed(d.state, S, T \cup {m})

\* What is handed over need not be kept.
LEMMA FiledMore ==
    ASSUME NEW t, NEW S, NEW T, NEW m, Filed(t, S, T)
    PROVE  Filed(t, S, T \cup {m})
BY DEF Filed

\* A message whose key is kept opens.
LEMMA KeptHandled ==
    ASSUME NEW p \in Party, NEW s, NEW t, NEW S, NEW T, NEW m, Comes(p, s, t, S, T, m),
           Kept(t, m) # {}
    PROVE  Handled(p, s, t, S, T, m, Decrypt(t, m))
<1>1. PICK e \in t.skipped : /\ e.dh = m.dh /\ e.n = m.n
                             /\ Decrypt(t, m) = [state |-> GivenUp(t, e), key |-> e.key]
  BY DEF Decrypt, ByKeptKey, Kept
<1>2. e.key = m.key
  BY <1>1 DEF Comes, Filed
<1>3. /\ Filed(GivenUp(t, e), S, T \cup {m}) /\ SameTurn(t, GivenUp(t, e))
      /\ GivenUp(t, e).nrecv = t.nrecv
  BY <1>2, GivenFiled DEF Comes
<1>4. Ahead(s, t) \/ t.nrecv <= s.nsend
  <2>1. CASE Linked(p, s, t)
    BY <2>1, Leading DEF Comes
  <2>2. CASE Linked(Peer(p), t, s)
    <3>1. s.send # None
      BY DEF Comes, SentBy
    <3> QED BY <2>2, <3>1, Lagging DEF Comes, Stamped
  <2> QED BY <2>1, <2>2 DEF Comes
<1> QED BY <1>1, <1>2, <1>3, <1>4 DEF Handled

\* A message of the chain that t receives opens, unless too many are missing.
LEMMA PresentHandled ==
    ASSUME NEW p \in Party, NEW s, NEW t, NEW S, NEW T, NEW m, Comes(p, s, t, S, T, m),
           Kept(t, m) = {}, m.dh = t.remote
    PROVE  Handled(p, s, t, S, T, m, Decrypt(t, m))
<1>1. /\ Valid(s) /\ Valid(t) /\ S \in SUBSET Message /\ Stamped(p, s, t, S) /\ Filed(t, S, T)
      /\ m \in S /\ m \notin T /\ m \in Message /\ s.send # None
      /\ \A a, b \in S : a.key = b.key => a = b
      /\ Linked(p, s, t) \/ Linked(Peer(p), t, s)
  BY DEF Comes, SentBy
<1>2. /\ t.recv # None /\ t.recv \in ChainKeys(Key) /\ t.nrecv \in Nat /\ t.recv.at = t.nrecv
      /\ m.key.root = t.recv.root /\ m.key.at = m.n /\ m.n \in Nat /\ Len(t.recv.root) \in Nat
      /\ s.nsend \in Nat
  <2>1. t.recv # None
    BY <1>1 DEF Stamped
  <2>2. t.recv \in ChainKeys(Key) /\ t.nrecv \in Nat /\ t.recv.at = t.nrecv /\ s.nsend \in Nat
    BY <1>1, <2>1, StateType DEF Valid, Shape
  <2> QED BY <1>1, <2>1, <2>2, KeyType DEF Filed, Message
<1>3. t.nrecv <= m.n
  <2>1. ~ Passed(t, m.key)
    BY <1>1 DEF Filed, Kept
  <2> QED BY <1>2, <2>1 DEF Passed
<1>4. Turned(t, m) = t
  BY DEF Turned
<1>5. \/ Ahead(s, t) /\ m.n < s.prev
      \/ ~ Ahead(s, t) /\ t.remote = s.self /\ m.n < s.nsend
  <2>1. CASE Linked(p, s, t)
    BY <1>1, <2>1, Leading DEF Stamped
  <2>2. CASE Linked(Peer(p), t, s)
    BY <1>1, <2>2, Lagging DEF Stamped
  <2> QED BY <1>1, <2>1, <2>2
<1>6. CASE TooFar(t, m.n)
  <2>1. Decrypt(t, m) = [state |-> t, key |-> None]
    BY <1>4, <1>6 DEF Decrypt, ByChain
  <2>2. ASSUME NEW i \in Nat, t.nrecv <= i, i < m.n
        PROVE  \E o \in S : o.n = i /\ o.id < m.id /\ ~ Passed(t, o.key)
    <3>1. PICK o \in S : o.dh = t.remote /\ o.n = i
      <4>1. CASE Ahead(s, t) /\ m.n < s.prev
        <5>1. i < s.prev
          <6>1. s.prev \in Nat
            BY <1>1, StateType DEF Valid
          <6> QED BY <1>2, <2>2, <4>1, <6>1
        <5> QED BY <1>1, <1>2, <4>1, <5>1 DEF Stamped
      <4>2. CASE t.remote = s.self /\ m.n < s.nsend
        <5>1. i < s.nsend
          BY <1>2, <2>2, <4>2
        <5> QED BY <1>1, <4>2, <5>1 DEF Stamped
      <4> QED BY <1>5, <4>1, <4>2
    <3>2. o.id < m.id
      BY <1>1, <2>2, <3>1 DEF Stamped
    <3>3. o.key.root = t.recv.root /\ o.key.at = i
      BY <1>1, <1>2, <3>1 DEF Filed
    <3>4. ~ Passed(t, o.key)
      BY <1>2, <2>2, <3>3 DEF Passed
    <3> QED BY <3>1, <3>2, <3>4
  <2>3. Gap(t, S, m, t.nrecv, m.n)
    BY <1>6, <2>2 DEF Gap, TooFar
  <2>4. SameTurn(t, t) /\ (Ahead(s, t) \/ t.nrecv <= s.nsend)
    BY <1>1, <1>2 DEF SameTurn, Stamped
  <2>5. Filed(t, S, T \cup {m})
    BY <1>1, FiledMore
  <2> QED BY <1>2, <2>1, <2>3, <2>4, <2>5 DEF Handled
<1>7. CASE ~ TooFar(t, m.n)
  <2> DEFINE u == Skip(t, m.n)
  <2>1. Decrypt(t, m) = [state |-> Advanced(u), key |-> u.recv]
    BY <1>2, <1>4, <1>7 DEF Decrypt, ByChain
  <2>2. /\ u.recv = m.key /\ Filed(Advanced(u), S, T \cup {m}) /\ SameTurn(t, Advanced(u))
        /\ Advanced(u).nrecv = m.n + 1
    BY <1>1, <1>2, <1>3, NextOpens
  <2> HIDE DEF u
  <2>3. Ahead(s, t) \/ Advanced(u).nrecv <= s.nsend
    BY <1>2, <1>5, <2>2
  <2> QED BY <2>1, <2>2, <2>3 DEF Handled
<1> QED BY <1>6, <1>7

\* What dh_ratchet makes of a state whose peer is a turn ahead.
LEMMA RatchetOvertakes ==
    ASSUME NEW p \in Party, NEW s, Valid(s), NEW t, Valid(t), Linked(p, s, t),
           NEW v, Valid(v), SameTurn(t, v)
    PROVE  LET w == Ratcheted(v, s.self)
           IN  /\ Overtook(s, t, w) /\ w.nrecv = 0 /\ w.recv.at = 0
<1> DEFINE fresh == Fresh(t.self)
           w == Ratcheted(v, s.self)
<1>1. /\ v \in States(Key) /\ v.self = t.self /\ v.root = t.root /\ v.nsend = t.nsend
      /\ s.root \in Seq(SUBSET Key) /\ s.self \in Key /\ fresh \in Key /\ s.nsend \in Nat
  <2>1. t.self \in Key /\ s.root \in Seq(SUBSET Key) /\ s.self \in Key /\ s.nsend \in Nat
    BY StateType DEF Valid
  <2> QED BY <2>1 DEF Valid, SameTurn, Fresh, Key
<1> HIDE DEF fresh
<1>2. Mix(v.root, v.self, s.self) = s.root
  <2>1. {v.self, s.self} = {s.self, t.self}
    BY <1>1
  <2> QED BY <1>1, <2>1 DEF Mix, Linked
<1> DEFINE sending == Mix(s.root, fresh, s.self)
<1>3. /\ Chain(sending) \in ChainKeys(Key) /\ Chain(s.root) \in ChainKeys(Key)
      /\ Chain(s.root).root = s.root /\ Chain(s.root).at = 0
  <2>1. Chain(sending) \in ChainKeys(Key)
    BY <1>1, MixType
  <2> QED BY <1>1, <2>1 DEF Chain, ChainKeys
<1> HIDE DEF sending
<1>4. w = [v EXCEPT !.prev = v.nsend, !.nsend = 0, !.nrecv = 0, !.remote = s.self,
                    !.recv = Chain(s.root), !.self = fresh,
                    !.root = sending, !.send = Chain(sending)]
  BY <1>1, <1>2 DEF Ratcheted, sending, fresh
<1> HIDE DEF w
<1>5. /\ w.self = fresh /\ w.root = sending /\ w.remote = s.self /\ w.send = Chain(sending)
      /\ w.nsend = 0 /\ w.prev = v.nsend /\ w.recv = Chain(s.root) /\ w.nrecv = 0
  BY <1>1, <1>4 DEF States
<1>6. w.send # None /\ w.recv # None
  BY <1>3, <1>5, NoneAssumption
<1>7. 0 <= s.nsend
  BY <1>1
<1> QED BY <1>1, <1>3, <1>5, <1>6, <1>7 DEF Overtook, w, sending, fresh

\* A message of the chain to come opens, unless too many are missing of the chain
\* before it or of its own.
LEMMA NextHandled ==
    ASSUME NEW p \in Party, NEW s, NEW t, NEW S, NEW T, NEW m, Comes(p, s, t, S, T, m),
           Kept(t, m) = {}, m.dh # t.remote
    PROVE  Handled(p, s, t, S, T, m, Decrypt(t, m))
<1>1. /\ Valid(s) /\ Valid(t) /\ S \in SUBSET Message /\ Stamped(p, s, t, S) /\ Filed(t, S, T)
      /\ m \in S /\ m \notin T /\ m \in Message
      /\ \A a, b \in S : a.key = b.key => a = b
      /\ \A o \in S : SentBy(s, o.key)
      /\ Linked(p, s, t) \/ Linked(Peer(p), t, s)
  BY DEF Comes
<1>2. Linked(p, s, t) /\ m.dh = s.self
  <2>1. ~ Passed(t, m.key)
    BY <1>1 DEF Filed, Kept
  <2> QED BY <1>1, <2>1, BehindOrNext
<1>3. /\ Ahead(s, t) /\ Len(s.root) = 2 * s.self.n + Own(p) /\ s.self \in Key /\ s.self.of = p
      /\ s.self.n \in Nat /\ (t.remote = None => s.self.n = 0)
      /\ t.remote # None => /\ t.remote \in Key /\ t.remote.of = p /\ t.remote.n \in Nat
                            /\ t.remote.n + 1 = s.self.n
      /\ t.recv # None => Len(t.recv.root) + 2 = Len(s.root) /\ t.remote # None
  BY <1>1, <1>2, Leading
<1>4. /\ m.key.root = s.root /\ m.n < s.nsend /\ m.prev = s.prev /\ m.n \in Nat /\ s.prev \in Nat
      /\ s.nsend \in Nat /\ t.nrecv \in Nat
  BY <1>1, <1>2, StateType DEF Stamped, Message, Valid
<1>5. ASSUME t.recv # None
      PROVE  /\ t.recv \in ChainKeys(Key) /\ t.recv.at = t.nrecv /\ Len(t.recv.root) \in Nat
             /\ t.recv.root # s.root /\ ~ Len(s.root) < Len(t.recv.root)
  <2>1. t.recv \in ChainKeys(Key) /\ t.recv.at = t.nrecv
    BY <1>1, <1>5, StateType DEF Valid, Shape
  <2>2. Len(t.recv.root) \in Nat
    BY <2>1, KeyType
  <2> QED BY <1>3, <1>5, <2>1, <2>2
<1>6. ASSUME NEW o \in S, o.dh # s.self, o.dh # t.remote PROVE Passed(t, o.key)
  BY <1>1, <1>6, BehindOrNext
<1> DEFINE v == Skip(t, m.prev)
           w == Ratcheted(v, m.dh)
<1>7. CASE TooFar(t, m.prev)
  <2>1. Decrypt(t, m) = [state |-> t, key |-> None]
    BY <1>7 DEF Decrypt
  <2>2. t.recv # None /\ t.nrecv + MaxSkip < s.prev
    BY <1>4, <1>7 DEF TooFar
  <2>3. ASSUME NEW i \in Nat, t.nrecv <= i, i < s.prev
        PROVE  \E o \in S : o.n = i /\ o.id < m.id /\ ~ Passed(t, o.key)
    <3>1. PICK o \in S : o.dh = t.remote /\ o.n = i
      BY <1>1, <1>3, <2>2, <2>3 DEF Stamped
    <3>2. o.dh.n < m.dh.n
      BY <1>2, <1>3, <2>2, <3>1
    <3>3. o.id < m.id
      BY <1>1, <3>2 DEF Stamped
    <3>4. o.key.root = t.recv.root /\ o.key.at = i
      BY <1>1, <2>2, <3>1 DEF Filed
    <3>5. ~ Passed(t, o.key)
      BY <1>4, <1>5, <2>2, <2>3, <3>4 DEF Passed
    <3> QED BY <3>1, <3>3, <3>5
  <2>4. Gap(t, S, m, t.nrecv, s.prev)
    BY <2>2, <2>3 DEF Gap
  <2>5. SameTurn(t, t) /\ Filed(t, S, T \cup {m})
    BY <1>1, FiledMore DEF SameTurn
  <2> QED BY <1>3, <1>4, <2>1, <2>4, <2>5 DEF Handled
<1>8. CASE ~ TooFar(t, m.prev)
  <2>1. /\ Turned(t, m) = w
        /\ Decrypt(t, m) = IF TooFar(w, m.n) \/ w.recv = None THEN [state |-> w, key |-> None]
                           ELSE [state |-> Advanced(Skip(w, m.n)), key |-> Skip(w, m.n).recv]
    BY <1>8 DEF Turned, Decrypt, ByChain
  <2>2. /\ Valid(v) /\ Later(t, v) /\ SameTurn(t, v) /\ Filed(v, S, T)
        /\ \A o \in S : t.recv # None /\ o.dh = t.remote /\ o.n < s.prev => Passed(v, o.key)
    BY <1>1, <1>4, SkipStep, SkipSame, SkipFiled
  <2> HIDE DEF v
  <2>3. /\ v.self = t.self /\ v.root = t.root /\ v.remote = t.remote
    BY <2>2 DEF SameTurn
  <2>4. ASSUME NEW o \in S \ T
        PROVE  o.dh = s.self \/ Passed(v, o.key)
    <3>1. CASE o.dh = t.remote
      <4>1. t.recv # None /\ o.n < s.prev
        BY <1>1, <1>3, <3>1 DEF Stamped
      <4> QED BY <2>2, <3>1, <4>1
    <3>2. CASE o.dh # t.remote /\ o.dh # s.self
      <4>1. Passed(t, o.key) /\ o.key \in ChainKeys(Key)
        BY <1>1, <1>6, <3>2, MessageType
      <4> QED BY <2>2, <4>1 DEF Later
    <3> QED BY <3>1, <3>2
  <2>5. Mix(v.root, v.self, s.self) = s.root
    <3>1. {v.self, s.self} = {s.self, t.self}
      BY <2>3
    <3> QED BY <1>2, <2>3, <3>1 DEF Mix, Linked
  <2>6. ASSUME NEW o \in S PROVE o.dh = s.self <=> o.key.root = s.root
    <3>1. o.dh \in Key /\ o.dh.n \in Nat /\ o.dh.of = p /\ Own(p) \in Nat
          /\ Len(o.key.root) = 2 * o.dh.n + Own(p)
      BY <1>1 DEF Stamped, Message, Key, Own
    <3>2. CASE o.key.root = s.root
      <4>1. o.dh.n = s.self.n
        <5>1. PICK x \in Nat, y \in Nat, c \in Nat : x = o.dh.n /\ y = s.self.n /\ c = Own(p)
          BY <1>3, <3>1
        <5>2. 2 * x + c = 2 * y + c
          BY <1>3, <3>1, <3>2, <5>1
        <5>3. x = y
          BY <5>2
        <5> QED BY <5>1, <5>3
      <4> QED BY <1>3, <3>1, <3>2, <4>1, SamePair
    <3>3. CASE o.dh = s.self
      BY <1>1, <3>3 DEF Stamped
    <3> QED BY <3>2, <3>3
  <2>7. v.remote # None => v.remote.n < s.self.n
    BY <1>3, <2>3
  <2>8. Filed(w, S, T)
    <3>1. \A o \in S : o.dh = s.self <=> o.key.root = Mix(v.root, v.self, s.self)
      BY <2>5, <2>6
    <3> QED BY <1>1, <1>2, <1>3, <2>2, <2>4, <2>7, <3>1, RatchetFiled
  <2>9. Valid(w) /\ Overtook(s, t, w) /\ w.nrecv = 0
    BY <1>1, <1>2, <1>3, <2>2, RatchetStep, RatchetOvertakes
  <2> HIDE DEF w
  <2>10. w.recv # None /\ w.remote = m.dh
    BY <1>2, <2>9 DEF Overtook
  <2>11. CASE TooFar(w, m.n)
    <3>1. Decrypt(t, m) = [state |-> w, key |-> None]
      BY <2>1, <2>11
    <3>2. 0 + MaxSkip < m.n
      BY <2>9, <2>11 DEF TooFar
    <3>3. ASSUME NEW i \in Nat, 0 <= i, i < m.n
          PROVE  \E o \in S : o.n = i /\ o.id < m.id /\ ~ Passed(t, o.key)
      <4>1. i < s.nsend
        BY <1>4, <3>3
      <4>2. PICK o \in S : o.dh = s.self /\ o.n = i
        BY <1>1, <4>1 DEF Stamped
      <4>3. o.id < m.id
        BY <1>1, <1>2, <3>3, <4>2 DEF Stamped
      <4>4. o.key.root = s.root
        BY <2>6, <4>2
      <4>5. ~ Passed(t, o.key)
        BY <1>5, <4>4 DEF Passed
      <4> QED BY <4>2, <4>3, <4>5
    <3>4. Gap(t, S, m, 0, m.n)
      BY <3>2, <3>3 DEF Gap
    <3>5. Filed(w, S, T \cup {m})
      BY <2>8, FiledMore
    <3> QED BY <1>2, <1>4, <2>9, <3>1, <3>4, <3>5 DEF Handled
  <2>12. CASE ~ TooFar(w, m.n)
    <3> DEFINE u == Skip(w, m.n)
    <3>1. Decrypt(t, m) = [state |-> Advanced(u), key |-> u.recv]
      BY <2>1, <2>10, <2>12
    <3>2. /\ u.recv = m.key /\ Filed(Advanced(u), S, T \cup {m}) /\ SameTurn(w, Advanced(u))
          /\ Advanced(u).nrecv = m.n + 1
      <4>1. w.nrecv <= m.n
        BY <1>4, <2>9
      <4> QED BY <1>1, <2>8, <2>9, <2>10, <4>1, NextOpens
    <3> HIDE DEF u
    <3>3. Advanced(u).nrecv <= s.nsend
      BY <1>4, <3>2
    <3>4. Overtook(s, t, Advanced(u))
      BY <2>9, <3>2, <3>3 DEF Overtook, SameTurn
    <3> QED BY <1>2, <3>1, <3>2, <3>4 DEF Handled
  <2> QED BY <2>11, <2>12
<1> QED BY <1>7, <1>8

\* Every message that comes is handled.
LEMMA AllHandled ==
    ASSUME NEW p \in Party, NEW s, NEW t, NEW S, NEW T, NEW m, Comes(p, s, t, S, T, m)
    PROVE  Handled(p, s, t, S, T, m, Decrypt(t, m))
BY KeptHandled, PresentHandled, NextHandled

\* How p, in state s, and its peer, in state t, stand to each other when they have
\* sent S and Q, and were handed U and T of them.
Between(p, s, t, S, Q, T, U) ==
    /\ Linked(p, s, t) \/ Linked(Peer(p), t, s)
    /\ Stamped(p, s, t, S) /\ Filed(t, S, T)
    /\ Stamped(Peer(p), t, s, Q) /\ Filed(s, Q, U)

\* encrypt leaves them standing as they are.
LEMMA SealBetween ==
    ASSUME NEW p \in Party, NEW s, Valid(s), NEW t, Valid(t), NEW S \in SUBSET Message, NEW Q,
           NEW T, NEW U, Between(p, s, t, S, Q, T, U), s.send # None,
           NEW m \in Message, m.dh = s.self, m.prev = s.prev, m.n = s.nsend, m.key = s.send,
           \A o \in S : o.id < m.id
    PROVE  Between(p, Sealed(s), t, S \cup {m}, Q, T, U)
<1> DEFINE u == Sealed(s)
<1>1. /\ s \in States(Key) /\ s.send \in ChainKeys(Key) /\ s.nsend \in Nat /\ s.send.root = s.root
      /\ s.send.at = s.nsend /\ Len(s.root) \in Nat
  BY StateType DEF Valid, Shape
<1>2. /\ u.self = s.self /\ u.root = s.root /\ u.remote = s.remote /\ u.recv = s.recv
      /\ u.nrecv = s.nrecv /\ u.prev = s.prev /\ u.skipped = s.skipped
      /\ u.nsend = s.nsend + 1 /\ u.send # None
  <2>1. After(s.send, 1) \in ChainKeys(Key)
    BY <1>1, OneOn
  <2>2. u = [s EXCEPT !.send = After(s.send, 1), !.nsend = s.nsend + 1]
    BY DEF Sealed
  <2> HIDE DEF u
  <2> QED BY <1>1, <2>1, <2>2, NoneAssumption DEF States
<1> HIDE DEF u
<1>3. /\ Linked(p, s, t) \/ Linked(Peer(p), t, s)
      /\ Stamped(p, s, t, S) /\ Filed(t, S, T) /\ Stamped(Peer(p), t, s, Q) /\ Filed(s, Q, U)
  BY DEF Between
<1>4. /\ Linked(p, s, t) => Linked(p, u, t)
      /\ Linked(Peer(p), t, s) => Linked(Peer(p), t, u)
  BY <1>2 DEF Linked
<1>5. Stamped(Peer(p), t, u, Q) /\ Filed(u, Q, U)
  BY <1>2, <1>3 DEF Stamped, Filed, Ahead, Passed
<1>6. /\ s.self \in Key /\ s.self.of = p /\ s.self.n \in Nat
      /\ Len(s.root) = 2 * s.self.n + Own(p)
      /\ \/ /\ Ahead(s, t) /\ t.remote # s.self
            /\ t.remote # None => t.remote.n \in Nat /\ t.remote.n + 1 = s.self.n
            /\ t.recv # None => t.remote # None /\ t.recv.root # s.root
                                /\ ~ Len(s.root) < Len(t.recv.root)
         \/ ~ Ahead(s, t) /\ t.remote = s.self /\ t.recv # None /\ t.recv.root = s.root
  <2>1. CASE Linked(p, s, t)
    <3>1. /\ Ahead(s, t) /\ s.self \in Key /\ s.self.of = p /\ s.self.n \in Nat
          /\ Len(s.root) = 2 * s.self.n + Own(p)
          /\ t.remote # None => t.remote.n \in Nat /\ t.remote.n + 1 = s.self.n
          /\ t.recv # None => t.remote # None /\ Len(t.recv.root) + 2 = Len(s.root)
      BY <2>1, Leading
    <3>2. t.remote # s.self
      BY <3>1, NoneAssumption
    <3>3. ASSUME t.recv # None
          PROVE  t.recv.root # s.root /\ ~ Len(s.root) < Len(t.recv.root)
      <4>1. t.recv \in ChainKeys(Key)
        BY <3>3, StateType DEF Valid
      <4>2. Len(t.recv.root) \in Nat
        BY <4>1, KeyType
      <4> QED BY <1>1, <3>1, <3>3, <4>2
    <3> QED BY <3>1, <3>2, <3>3
  <2>2. CASE Linked(Peer(p), t, s)
    BY <2>2, Lagging
  <2> QED BY <1>3, <2>1, <2>2
<1>7. /\ \A o \in S : /\ o.n \in Nat /\ o.id \in Nat /\ o.dh.n \in Nat /\ o.dh.n <= s.self.n
                      /\ o.dh = s.self => o.n < s.nsend
      /\ m.id \in Nat
  BY <1>3 DEF Stamped, Message, Key
<1>8. Stamped(p, u, t, S \cup {m})
  <2>1. ASSUME NEW o \in S \cup {m}
        PROVE  /\ o.dh.of = p /\ Len(o.key.root) = 2 * o.dh.n + Own(p) /\ o.dh.n <= u.self.n
               /\ o.dh = u.self => o.key.root = u.root /\ o.n < u.nsend /\ o.prev = u.prev
               /\ o.dh = t.remote => t.recv # None
               /\ Ahead(u, t) /\ o.dh = t.remote => o.n < u.prev
    <3>1. CASE o \in S
      BY <1>1, <1>2, <1>3, <1>7, <3>1 DEF Stamped, Ahead
    <3>2. CASE o = m
      BY <1>1, <1>2, <1>6, <3>2 DEF Ahead
    <3> QED BY <3>1, <3>2
  <2>2. ASSUME NEW a \in S \cup {m}, NEW b \in S \cup {m},
               a.dh.n < b.dh.n \/ (a.dh = b.dh /\ a.n < b.n)
        PROVE  a.id < b.id
    <3>1. CASE a \in S /\ b \in S
      BY <1>3, <2>2, <3>1 DEF Stamped
    <3>2. CASE a = m /\ b \in S
      BY <1>1, <1>6, <1>7, <2>2, <3>2
    <3>3. CASE a \in S /\ b = m
      BY <3>3
    <3>4. CASE a = m /\ b = m
      BY <1>1, <1>6, <2>2, <3>4
    <3> QED BY <3>1, <3>2, <3>3, <3>4
  <2>3. ASSUME NEW i \in Nat, i < u.nsend PROVE \E o \in S \cup {m} : o.dh = u.self /\ o.n = i
    <3>1. CASE i = s.nsend
      BY <1>2, <3>1
    <3>2. CASE i # s.nsend
      <4>1. i < s.nsend
        BY <1>1, <1>2, <2>3, <3>2
      <4> QED BY <1>2, <1>3, <4>1 DEF Stamped
    <3> QED BY <3>1, <3>2
  <2>4. Ahead(u, t) /\ t.recv # None =>
           \A i \in Nat : i < u.prev => \E o \in S \cup {m} : o.dh = t.remote /\ o.n = i
    BY <1>2, <1>3 DEF Stamped, Ahead
  <2>5. ~ Ahead(u, t) /\ t.recv # None => t.nrecv <= u.nsend
    <3>1. t.nrecv \in Nat
      BY StateType DEF Valid
    <3> QED BY <1>1, <1>2, <1>3, <3>1 DEF Stamped, Ahead
  <2> QED BY <2>1, <2>2, <2>3, <2>4, <2>5 DEF Stamped
<1>9. Filed(t, S \cup {m}, T)
  <2>1. \A o \in S \cup {m} : o.key.at = o.n
    BY <1>1, <1>3 DEF Filed
  <2>2. t.recv # None => \A o \in S \cup {m} : o.dh = t.remote <=> o.key.root = t.recv.root
    BY <1>1, <1>3, <1>6 DEF Filed
  <2>3. ~ Passed(t, m.key)
    <3>1. CASE Ahead(s, t)
      BY <1>1, <1>6, <3>1 DEF Passed
    <3>2. CASE ~ Ahead(s, t) /\ t.recv # None /\ t.recv.root = s.root
      <4>1. t.recv.at = t.nrecv /\ t.nrecv <= s.nsend /\ t.nrecv \in Nat
        BY <1>3, <3>2, StateType DEF Stamped, Valid, Shape
      <4> QED BY <1>1, <3>2, <4>1 DEF Passed
    <3> QED BY <1>6, <3>1, <3>2
  <2>4. \A o \in (S \cup {m}) \ T : Passed(t, o.key) =>
           \E e \in t.skipped : e.dh = o.dh /\ e.n = o.n
    BY <1>3, <2>3 DEF Filed
  <2>5. ASSUME NEW e \in t.skipped, NEW o \in S \cup {m}, e.dh = o.dh, e.n = o.n
        PROVE  e.key = o.key
    <3>1. CASE o \in S
      BY <1>3, <2>5, <3>1 DEF Filed
    <3>2. CASE o = m
      <4>1. t.remote # None /\ e.dh.n <= t.remote.n /\ e.dh = s.self /\ e.n = s.nsend
        BY <1>3, <2>5, <3>2 DEF Filed
      <4>2. t.remote = s.self
        <5>1. CASE Ahead(s, t)
          BY <1>6, <4>1, <5>1
        <5>2. CASE ~ Ahead(s, t)
          BY <1>6, <5>2
        <5> QED BY <5>1, <5>2
      <4>3. e.key.root = s.root /\ e.key.at = s.nsend
        BY <1>3, <1>6, <4>1, <4>2 DEF Filed
      <4>4. e.key \in ChainKeys(Key)
        BY StateType DEF Valid, SkippedKeys
      <4> QED BY <1>1, <3>2, <4>3, <4>4, SameKey
    <3> QED BY <3>1, <3>2
  <2> QED BY <1>3, <2>1, <2>2, <2>4, <2>5 DEF Filed
<1> QED BY <1>3, <1>4, <1>5, <1>8, <1>9 DEF Between, u

\* The key pair after another of the same party.
LEMMA FreshType ==
    ASSUME NEW k \in Key
    PROVE  Fresh(k) \in Key /\ Fresh(k).of = k.of /\ Fresh(k).n = k.n + 1
<1>1. k.n + 1 \in Nat
  BY DEF Key
<1>2. PICK n \in Nat : n = k.n + 1
  BY <1>1
<1>3. Fresh(k) = [k EXCEPT !.n = n]
  BY <1>2 DEF Fresh
<1> QED BY <1>2, <1>3 DEF Key

\* A party that comes to what the other sends is ahead from then on.
LEMMA OvertookLinked ==
    ASSUME NEW p \in Party, NEW s, Valid(s), NEW t, Valid(t), Linked(p, s, t),
           NEW u, Overtook(s, t, u)
    PROVE  Linked(Peer(p), u, s)
<1>1. /\ Peer(p) \in Party /\ Peer(Peer(p)) = p /\ Own(p) \in Nat /\ Own(Peer(p)) \in Nat
  BY PartyAssumption DEF Peer, Party, Own
<1>2. /\ t.self \in Key /\ t.self.n \in Nat /\ t.self.of = Peer(p) /\ s.self \in Key
      /\ s.root \in Seq(SUBSET Key) /\ Len(s.root) \in Nat
      /\ Len(t.root) = 2 * t.self.n + Own(Peer(p)) /\ Len(s.root) = Len(t.root) + 1
      /\ s.self.of = p /\ Len(s.root) = 2 * s.self.n + Own(p)
      /\ s.remote = t.self /\ (s.recv = None => t.self.n = 0)
      /\ s.recv # None => s.recv.root = t.root
  <2>1. Len(s.root) = Len(t.root) + 1
    BY Leading
  <2>2. t.self \in Key /\ s.self \in Key /\ s.root \in Seq(SUBSET Key) /\ Len(s.root) \in Nat
    BY StateType DEF Valid
  <2> QED BY <2>1, <2>2 DEF Linked, Key
<1>3. PICK fresh : fresh = Fresh(t.self)
  OBVIOUS
<1>4. fresh \in Key /\ fresh.of = Peer(p) /\ fresh.n = t.self.n + 1
  BY <1>2, <1>3, FreshType
<1>5. /\ u.self = fresh /\ u.root = Append(s.root, {fresh, s.self}) /\ u.remote = s.self
      /\ u.send # None /\ u.recv # None /\ u.recv.root = s.root
  BY <1>3 DEF Overtook, Mix
<1>6. Len(u.root) = 2 * u.self.n + Own(Peer(p))
  <2>1. PICK x : x = {fresh, s.self}
    OBVIOUS
  <2>2. x \in SUBSET Key /\ u.root = Append(s.root, x)
    BY <1>2, <1>4, <1>5, <2>1
  <2>3. Len(u.root) = Len(s.root) + 1
    BY <1>2, <2>2, AppendProperties
  <2>4. PICK n \in Nat, c \in Nat, l \in Nat :
           n = t.self.n /\ c = Own(Peer(p)) /\ l = Len(s.root)
    BY <1>1, <1>2
  <2>5. l = 2 * n + c + 1 /\ u.self.n = n + 1 /\ Len(u.root) = l + 1
    BY <1>2, <1>4, <1>5, <2>3, <2>4
  <2>6. Len(u.root) = 2 * (n + 1) + c
    BY <2>5
  <2> QED BY <2>4, <2>5, <2>6
<1>7. s.remote # None /\ s.remote.of = Peer(p) /\ s.remote.n + 1 = u.self.n
  BY <1>2, <1>4, <1>5, NoneAssumption
<1>8. s.recv = None => u.self.n <= 1
  <2>1. ASSUME s.recv = None PROVE u.self.n = 0 + 1
    BY <1>2, <1>4, <1>5, <2>1
  <2> QED BY <2>1
<1> QED BY <1>1, <1>2, <1>4, <1>5, <1>6, <1>7, <1>8 DEF Linked

\* decrypt leaves them one turn apart, with everything in its place.
LEMMA HandleBetween ==
    ASSUME NEW p \in Party, NEW s, Valid(s), NEW t, Valid(t), NEW S \in SUBSET Message,
           NEW Q \in SUBSET Message, NEW T, NEW U, Between(p, s, t, S, Q, T, U), NEW m,
           NEW d, Handled(p, s, t, S, T, m, d), Valid(d.state)
    PROVE  Between(p, s, d.state, S, Q, T \cup {m}, U)
<1> DEFINE u == d.state
<1>1. /\ Linked(p, s, t) \/ Linked(Peer(p), t, s)
      /\ Stamped(p, s, t, S) /\ Stamped(Peer(p), t, s, Q) /\ Filed(s, Q, U)
      /\ Filed(u, S, T \cup {m})
  BY DEF Between, Handled
<1> HIDE DEF u
<1>2. CASE SameTurn(t, u) /\ (Ahead(s, t) \/ u.nrecv <= s.nsend)
  <2>1. /\ Linked(p, s, t) => Linked(p, s, u)
        /\ Linked(Peer(p), t, s) => Linked(Peer(p), u, s)
    BY <1>2 DEF Linked, SameTurn
  <2>2. Stamped(p, s, u, S) /\ Stamped(Peer(p), u, s, Q)
    BY <1>1, <1>2 DEF Stamped, SameTurn, Ahead
  <2> QED BY <1>1, <2>1, <2>2 DEF Between, u
<1>3. CASE Linked(p, s, t) /\ Overtook(s, t, u)
  <2>1. Linked(Peer(p), u, s)
    BY <1>3, OvertookLinked
  <2>2. Peer(p) \in Party /\ Peer(Peer(p)) = p /\ Valid(u)
    BY PartyAssumption DEF Peer, Party, u
  <2>3. Ahead(u, s) /\ ~ Ahead(s, u)
    BY <2>1, <2>2, Leading
  <2>4. Stamped(p, s, u, S)
    BY <1>1, <1>3, <2>3 DEF Stamped, Overtook
  <2>5. /\ t.self \in Key /\ t.self.n \in Nat /\ u.self \in Key /\ u.self.n = t.self.n + 1
        /\ s.remote = t.self /\ t.nsend \in Nat
    <3>1. t.self \in Key /\ t.nsend \in Nat
      BY StateType DEF Valid
    <3> QED BY <1>3, <3>1 DEF Overtook, Fresh, Key, Linked
  <2>6. ASSUME NEW o \in Q
        PROVE  /\ o.dh.of = Peer(p) /\ Len(o.key.root) = 2 * o.dh.n + Own(Peer(p))
               /\ o.dh.n <= u.self.n /\ o.dh # u.self
               /\ o.dh = s.remote => s.recv # None /\ o.n < u.prev
    <3>1. o.dh \in Key /\ o.dh.n \in Nat /\ o.dh.n <= t.self.n
      BY <1>1 DEF Stamped, Message, Key
    <3>2. o.dh.n <= u.self.n /\ o.dh # u.self
      BY <2>5, <3>1
    <3>3. u.prev = t.nsend
      BY <1>3 DEF Overtook
    <3> QED BY <1>1, <2>5, <3>2, <3>3 DEF Stamped
  <2>7. \A i \in Nat : ~ i < u.nsend
    BY <1>3 DEF Overtook
  <2>8. \A i \in Nat : i < u.prev => \E o \in Q : o.dh = s.remote /\ o.n = i
    <3>1. u.prev = t.nsend /\ s.remote = t.self
      BY <1>3, <2>5 DEF Overtook
    <3> QED BY <1>1, <3>1 DEF Stamped
  <2>9. Stamped(Peer(p), u, s, Q)
    BY <1>1, <2>3, <2>6, <2>7, <2>8 DEF Stamped
  <2> QED BY <1>1, <2>1, <2>4, <2>9 DEF Between, u
<1> QED BY <1>2, <1>3 DEF Handled, u

\* While nothing is repeated or damaged the parties stay in step.
LateInv == (\A p \in Party : extra[p] = 0) => InStep

\* In step means standing as above, seen from either party.
LEMMA InStepBetween ==
    ASSUME InStep, NEW p \in Party
    PROVE  Between(p, state[p], state[Peer(p)], From(p), From(Peer(p)), taken[Peer(p)], taken[p])
<1>1. Peer(p) \in Party /\ Peer(Peer(p)) = p /\ \A q \in Party : q = p \/ q = Peer(p)
  BY PartyAssumption DEF Peer, Party
<1>2. /\ \A q \in Party : /\ Stamped(q, state[q], state[Peer(q)], From(q))
                          /\ Filed(state[Peer(q)], From(q), taken[Peer(q)])
      /\ \E q \in Party : Linked(q, state[q], state[Peer(q)])
  BY DEF InStep
<1>3. Linked(p, state[p], state[Peer(p)]) \/ Linked(Peer(p), state[Peer(p)], state[p])
  BY <1>1, <1>2
<1> QED BY <1>1, <1>2, <1>3 DEF Between

\* The same of the state a step leads to.
LEMMA BetweenInStep ==
    ASSUME NEW p \in Party,
           Between(p, state'[p], state'[Peer(p)], From(p)', From(Peer(p))', taken'[Peer(p)],
                   taken'[p])
    PROVE  InStep'
<1>1. Peer(p) \in Party /\ Peer(Peer(p)) = p /\ \A q \in Party : q = p \/ q = Peer(p)
  BY PartyAssumption DEF Peer, Party
<1>2. /\ \/ Linked(p, state'[p], state'[Peer(p)])
         \/ Linked(Peer(p), state'[Peer(p)], state'[p])
      /\ Stamped(p, state'[p], state'[Peer(p)], From(p)')
      /\ Filed(state'[Peer(p)], From(p)', taken'[Peer(p)])
      /\ Stamped(Peer(p), state'[Peer(p)], state'[p], From(Peer(p))')
      /\ Filed(state'[p], From(Peer(p))', taken'[p])
  BY DEF Between
<1>3. \E q \in Party : Linked(q, state'[q], state'[Peer(q)])
  BY <1>1, <1>2
<1>4. \A q \in Party : /\ Stamped(q, state'[q], state'[Peer(q)], From(q)')
                       /\ Filed(state'[Peer(q)], From(q)', taken'[Peer(q)])
  <2> SUFFICES ASSUME NEW q \in Party
               PROVE  /\ Stamped(q, state'[q], state'[Peer(q)], From(q)')
                      /\ Filed(state'[Peer(q)], From(q)', taken'[Peer(q)])
    OBVIOUS
  <2>1. CASE q = p
    BY <1>2, <2>1
  <2>2. CASE q = Peer(p)
    BY <1>1, <1>2, <2>2
  <2> QED BY <1>1, <2>1, <2>2
<1> QED BY <1>3, <1>4 DEF InStep

\* X3DH leaves the initiator one turn ahead.
LEMMA LateInit == Init => LateInv
<1> SUFFICES ASSUME Init PROVE InStep
  BY DEF LateInv
<1>1. /\ FirstKey(Alice) \in Key /\ FirstKey(Bob) \in Key /\ <<>> \in Seq(SUBSET Key)
      /\ Len(<<>>) = 0 /\ Alice \in Party /\ Bob \in Party /\ Peer(Alice) = Bob
      /\ Peer(Bob) = Alice /\ Own(Alice) = 1 /\ Own(Bob) = 0
      /\ \A p \in Party : p = Alice \/ p = Bob
      /\ FirstKey(Alice).of = Alice /\ FirstKey(Alice).n = 0
      /\ FirstKey(Bob).of = Bob /\ FirstKey(Bob).n = 0
  BY PartyAssumption DEF FirstKey, Key, Party, Peer, Own
<1> DEFINE r == Append(<<>>, {FirstKey(Alice), FirstKey(Bob)})
           a == state[Alice]
           b == state[Bob]
<1>2. Len(r) = 1 /\ Chain(r) \in ChainKeys(Key)
  <2>1. PICK x : x = {FirstKey(Alice), FirstKey(Bob)}
    OBVIOUS
  <2>2. x \in SUBSET Key /\ r = Append(<<>>, x)
    BY <1>1, <2>1
  <2>3. r \in Seq(SUBSET Key) /\ Len(r) = Len(<<>>) + 1
    BY <1>1, <2>2, AppendProperties
  <2> HIDE DEF r
  <2> QED BY <1>1, <2>3 DEF Chain, ChainKeys
<1>3. /\ b.self = FirstKey(Bob) /\ b.remote = None /\ b.root = <<>> /\ b.send = None
      /\ b.recv = None /\ b.skipped = {} /\ b.nsend = 0
  BY <1>1, PartyAssumption DEF Init, InitBob
<1>4. /\ a.self = FirstKey(Alice) /\ a.remote = FirstKey(Bob) /\ a.root = r
      /\ a.send = Chain(r) /\ a.recv = None /\ a.skipped = {} /\ a.nsend = 0
  BY <1>1 DEF Init, InitAlice, InitBob, Mix
<1>5. a.send # None /\ FirstKey(Bob) # None
  BY <1>1, <1>2, <1>4, NoneAssumption
<1>6. From(Alice) = {} /\ From(Bob) = {}
  BY DEF Init, From
<1>7. Linked(Alice, a, b)
  <2>1. Len(a.root) = 2 * 0 + 1 /\ Len(b.root) = 2 * 0 + 0 /\ 0 <= 1
    BY <1>1, <1>2, <1>3, <1>4
  <2>2. a.root = Append(b.root, {a.self, b.self})
    BY <1>3, <1>4
  <2> HIDE DEF a, b, r
  <2> QED BY <1>1, <1>3, <1>4, <1>5, <2>1, <2>2 DEF Linked
<1> HIDE DEF r
<1>8. /\ Stamped(Alice, a, b, {}) /\ Stamped(Bob, b, a, {})
      /\ \A T : Filed(a, {}, T) /\ Filed(b, {}, T)
  <2>1. \A i \in Nat : ~ i < 0
    OBVIOUS
  <2> HIDE DEF a, b
  <2> QED BY <1>3, <1>4, <2>1 DEF Stamped, Filed
<1>9. \A p \in Party : /\ Stamped(p, state[p], state[Peer(p)], From(p))
                       /\ Filed(state[Peer(p)], From(p), taken[Peer(p)])
  BY <1>1, <1>6, <1>8
<1> QED BY <1>1, <1>7, <1>9 DEF InStep

\* encrypt keeps the parties in step.
LEMMA EncryptLate ==
    ASSUME RatchetInv, InStep, NEW p \in Party, NEW id \in 1 .. MaxSend, Encrypt(p, id)
    PROVE  InStep'
<1>1. PICK s : s = state[p]
  OBVIOUS
<1>2. PICK m : m = [from |-> p, id |-> id, dh |-> s.self, prev |-> s.prev, n |-> s.nsend,
                    key |-> s.send]
  OBVIOUS
<1>3. /\ s.send # None /\ id = Cardinality(From(p)) + 1
      /\ state' = [state EXCEPT ![p] = Sealed(s)] /\ sent' = sent \cup {m}
      /\ UNCHANGED taken
  BY <1>1, <1>2 DEF Encrypt, From
<1>4. TypeOK /\ Parties /\ Numbered
  BY DEF RatchetInv
<1>5. Peer(p) \in Party /\ Peer(p) # p
  BY Peers
<1>6. Valid(s) /\ Valid(state[Peer(p)])
  BY <1>1, <1>4, <1>5 DEF Parties
<1>7. m \in Message
  <2>1. s.send \in ChainKeys(Key) /\ s.self \in Key /\ s.prev \in Nat /\ s.nsend \in Nat
    BY <1>3, <1>6, StateType DEF Valid
  <2> QED BY <1>2, <2>1 DEF Message
<1>8. From(p) \in SUBSET Message /\ \A o \in From(p) : o.id < m.id
  <2>1. IsFiniteSet(From(p))
    BY <1>4, FS_Subset DEF Numbered, From
  <2>2. Cardinality(From(p)) \in Nat
    BY <2>1, FS_CardinalityType
  <2>3. \A o \in From(p) : o.id <= Cardinality(From(p)) /\ o.id \in Nat /\ o \in Message
    <3>1. \A o \in From(p) : o \in sent /\ o.from = p
      BY DEF From
    <3>2. \A o \in sent : o \in Message /\ o.id \in Nat /\ o.id <= Cardinality(From(o.from))
      BY <1>4, MessageType DEF Numbered, TypeOK
    <3> QED BY <3>1, <3>2
  <2>4. From(p) \in SUBSET Message
    BY <2>3
  <2> QED BY <1>2, <1>3, <2>2, <2>3, <2>4
<1>9. Between(p, Sealed(s), state[Peer(p)], From(p) \cup {m}, From(Peer(p)), taken[Peer(p)],
              taken[p])
  <2>1. m.dh = s.self /\ m.prev = s.prev /\ m.n = s.nsend /\ m.key = s.send
    BY <1>2
  <2> QED BY <1>1, <1>3, <1>6, <1>7, <1>8, <2>1, InStepBetween, SealBetween
<1>10. /\ state'[p] = Sealed(s) /\ state'[Peer(p)] = state[Peer(p)]
       /\ From(p)' = From(p) \cup {m} /\ From(Peer(p))' = From(Peer(p))
  <2>1. state'[p] = Sealed(s) /\ state'[Peer(p)] = state[Peer(p)]
    BY <1>3, <1>4, <1>5 DEF TypeOK
  <2>2. m.from = p
    BY <1>2
  <2> QED BY <1>3, <1>5, <2>1, <2>2 DEF From
<1> QED BY <1>3, <1>9, <1>10, BetweenInStep

\* decrypt of a message that comes whole and for the first time keeps the parties in
\* step, and opens it unless too many are missing.
LEMMA ReceiveLate ==
    ASSUME RatchetInv, InStep, NEW q \in Party, NEW m \in sent, m \notin taken[q],
           Receive(q, m, m, TRUE), \A r \in Party : extra[r] = 0
    PROVE  /\ InStep'
           /\ \/ verdict'.result = "opened"
              \/ verdict'.result = "refused" /\ verdict'.missing > MaxSkip
<1>1. PICK p \in Party : p = Peer(q) /\ q = Peer(p)
  BY PartyAssumption DEF Peer, Party
<1>2. PICK s : s = state[p]
  OBVIOUS
<1>3. PICK t : t = state[q]
  OBVIOUS
<1>4. PICK d : d = Decrypt(t, m)
  OBVIOUS
<1>5. /\ m.from = p /\ state' = [state EXCEPT ![q] = d.state] /\ sent' = sent
      /\ taken' = [taken EXCEPT ![q] = @ \cup {m}]
      /\ verdict' = [result |-> IF d.key = m.key THEN "opened"
                                ELSE IF d.key = None THEN "refused" ELSE "failed",
                     missing |-> Cardinality(Missing(q, m))]
  <2>1. ~ \E r \in Party : extra'[r] > 0
    BY DEF Receive, Hand
  <2> QED BY <1>1, <1>3, <1>4, <2>1 DEF Receive, Hand
<1>6. /\ TypeOK /\ Parties /\ Numbered /\ Behind /\ KeysUnique /\ Spent
  BY DEF RatchetInv
<1>7. /\ Valid(s) /\ Valid(t) /\ From(p) \in SUBSET Message /\ From(q) \in SUBSET Message
      /\ p # q /\ m \in Message /\ m \in From(p)
  BY <1>1, <1>2, <1>3, <1>5, <1>6, Peers DEF Parties, TypeOK, From
<1>8. Between(p, s, t, From(p), From(q), taken[q], taken[p])
  BY <1>1, <1>2, <1>3, InStepBetween
<1>9. Comes(p, s, t, From(p), taken[q], m)
  <2>1. \A o \in From(p) : SentBy(s, o.key)
    BY <1>2, <1>6 DEF Behind, From
  <2>2. \A a, b \in From(p) : a.key = b.key => a = b
    BY <1>6 DEF KeysUnique, From
  <2>3. /\ Linked(p, s, t) \/ Linked(Peer(p), t, s)
        /\ Stamped(p, s, t, From(p)) /\ Filed(t, From(p), taken[q])
    BY <1>8 DEF Between
  <2> QED BY <1>7, <2>1, <2>2, <2>3 DEF Comes
<1>10. Handled(p, s, t, From(p), taken[q], m, d)
  BY <1>4, <1>9, AllHandled
<1>11. Valid(d.state)
  BY <1>4, <1>7, DecryptStep DEF Achieves
<1>12. Between(p, s, d.state, From(p), From(q), taken[q] \cup {m}, taken[p])
  BY <1>7, <1>8, <1>10, <1>11, HandleBetween
<1>13. InStep'
  <2>1. /\ state'[q] = d.state /\ state'[p] = s /\ From(p)' = From(p) /\ From(q)' = From(q)
        /\ taken'[q] = taken[q] \cup {m} /\ taken'[p] = taken[p]
    BY <1>2, <1>5, <1>6, <1>7 DEF TypeOK, From
  <2> QED BY <1>1, <1>12, <2>1, BetweenInStep
<1>14. CASE d.key = m.key
  BY <1>5, <1>13, <1>14
<1>15. CASE d.key # m.key
  <2>1. d.key = None
    BY <1>10, <1>15 DEF Handled
  <2>2. PICK a \in Nat, b \in Nat : Gap(t, From(p), m, a, b)
    BY <1>10, <1>15 DEF Handled
  <2>3. ASSUME NEW i \in Nat, a <= i, i < b
        PROVE  \E o \in Missing(q, m) : o.n = i
    <3>1. PICK o \in From(p) : o.n = i /\ o.id < m.id /\ ~ Passed(t, o.key)
      BY <2>2, <2>3 DEF Gap
    <3>2. o \in sent /\ o.from = p /\ o.id \in 1 .. MaxSend
      BY <1>6, <3>1 DEF From, Numbered
    <3>3. ~ opened[q][o.id] > 0
      BY <1>1, <1>3, <1>6, <3>1, <3>2 DEF Spent
    <3>4. opened[q][o.id] \in Nat
      BY <1>6, <3>2 DEF TypeOK
    <3>5. opened[q][o.id] = 0
      BY <3>3, <3>4
    <3> QED BY <1>5, <3>1, <3>2, <3>5 DEF Missing
  <2>4. IsFiniteSet(Missing(q, m))
    BY <1>6, FS_Subset DEF Missing, Numbered
  <2>5. Cardinality(Missing(q, m)) > MaxSkip
    BY <2>2, <2>3, <2>4, ManySteps DEF Gap
  <2> QED BY <1>5, <1>13, <1>15, <2>1, <2>5
<1> QED BY <1>14, <1>15

\* Every step keeps both.
LEMMA LateNext == RatchetInv /\ LateInv /\ LateMessagesOpen /\ [Next]_vars
                  => LateInv' /\ LateMessagesOpen'
<1> SUFFICES ASSUME RatchetInv, LateInv, LateMessagesOpen, [Next]_vars
             PROVE  LateInv' /\ LateMessagesOpen'
  OBVIOUS
<1>1. ASSUME NEW p \in Party, NEW id \in 1 .. MaxSend, Encrypt(p, id)
      PROVE  LateInv' /\ LateMessagesOpen'
  <2>1. UNCHANGED <<extra, verdict>>
    BY <1>1 DEF Encrypt
  <2>2. LateInv'
    BY <1>1, <2>1, EncryptLate DEF LateInv
  <2> QED BY <2>1, <2>2 DEF LateMessagesOpen
<1>2. ASSUME NEW p \in Party, NEW m \in sent, NEW whole \in BOOLEAN, NEW h \in Copies(m),
             Receive(p, m, h, whole)
      PROVE  LateInv' /\ LateMessagesOpen'
  <2>1. extra \in [Party -> 0 .. MaxExtra]
    BY DEF RatchetInv, TypeOK
  <2>2. CASE whole /\ h = m /\ m \notin taken[p]
    <3>1. UNCHANGED extra /\ whole = TRUE /\ h = m
      BY <1>2, <2>2 DEF Receive, Hand
    <3>2. CASE \A q \in Party : extra[q] = 0
      <4>1. InStep /\ Receive(p, m, m, TRUE)
        BY <1>2, <3>1, <3>2 DEF LateInv
      <4>2. /\ InStep'
            /\ \/ verdict'.result = "opened"
               \/ verdict'.result = "refused" /\ verdict'.missing > MaxSkip
        BY <2>2, <3>2, <4>1, ReceiveLate
      <4> QED BY <4>2 DEF LateInv, LateMessagesOpen
    <3>3. CASE ~ \A q \in Party : extra[q] = 0
      BY <3>1, <3>3 DEF LateInv, LateMessagesOpen
    <3> QED BY <3>2, <3>3
  <2>3. CASE ~ (whole /\ h = m /\ m \notin taken[p])
    <3>1. extra' = [extra EXCEPT ![p] = @ + 1]
      BY <1>2, <2>3 DEF Receive, Hand
    <3>2. extra'[p] # 0
      BY <2>1, <3>1
    <3>3. ~ \A q \in Party : extra'[q] = 0
      BY <3>2
    <3> QED BY <3>3 DEF LateInv, LateMessagesOpen
  <2> QED BY <2>2, <2>3
<1>3. CASE UNCHANGED vars
  BY <1>3 DEF vars, LateInv, LateMessagesOpen, InStep, From
<1> QED BY <1>1, <1>2, <1>3, OwnCopy DEF Next

\* While nothing is repeated or damaged every message opens, in whatever order they
\* come and whichever are lost, unless more than MAX_SKIP before it are missing
\* (decrypt, skip_messages, dh_ratchet).
THEOREM LateAlwaysOpens == Spec => []LateMessagesOpen
<1>1. Init => LateMessagesOpen
  BY DEF Init, LateMessagesOpen
<1>2. Init => RatchetInv /\ LateInv /\ LateMessagesOpen
  BY <1>1, RatchetInit, LateInit
<1>3. RatchetInv /\ LateInv /\ LateMessagesOpen /\ [Next]_vars
      => RatchetInv' /\ LateInv' /\ LateMessagesOpen'
  BY RatchetNext, LateNext
<1> QED BY <1>2, <1>3, PTL DEF Spec
=============================================================================

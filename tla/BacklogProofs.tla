---------------------------- MODULE BacklogProofs ----------------------------
(***************************************************************************)
(* Proofs about Backlog, for any rooms, senders and recipients, any limit  *)
(* and age and any number of envelopes and restarts: what the adapters     *)
(* keep, in which order they return it, and what a catch-up passes over.   *)
(***************************************************************************)
EXTENDS Backlog, FiniteSetTheorems, SequenceTheorems, TLAPS

\* Ordering by rank gives every member exactly one place, in the order of R.
LEMMA OrderedExact ==
    ASSUME NEW S, IsFiniteSet(S), NEW R,
           \A x \in S : <<x, x>> \notin R,
           \A x, y, z \in S : <<x, y>> \in R /\ <<y, z>> \in R => <<x, z>> \in R,
           \A x, y \in S : x # y => <<x, y>> \in R \/ <<y, x>> \in R
    PROVE  /\ Cardinality(S) \in Nat
           /\ Ordered(S, R) \in [1 .. Cardinality(S) -> S]
           /\ \A x \in S : \E n \in 1 .. Cardinality(S) : Ordered(S, R)[n] = x
           /\ \A i, j \in 1 .. Cardinality(S) :
                 i < j <=> <<Ordered(S, R)[i], Ordered(S, R)[j]>> \in R
<1> DEFINE Below(x) == {y \in S : <<y, x>> \in R}
           N == Cardinality(S)
           rank == [x \in S |-> Cardinality(Below(x)) + 1]
           s == Ordered(S, R)
<1>0. N \in Nat
  BY FS_CardinalityType
<1>1. ASSUME NEW x \in S
      PROVE  IsFiniteSet(Below(x)) /\ Cardinality(Below(x)) \in 0 .. N - 1
  <2>1. Below(x) \in SUBSET S /\ Below(x) # S
    OBVIOUS
  <2>2. IsFiniteSet(Below(x)) /\ Cardinality(Below(x)) <= N /\ Cardinality(Below(x)) # N
    BY <2>1, FS_Subset
  <2>3. Cardinality(Below(x)) \in Nat
    BY <2>2, FS_CardinalityType
  <2> HIDE DEF Below, N
  <2> QED BY <1>0, <2>2, <2>3
<1>2. ASSUME NEW x \in S, NEW y \in S, <<x, y>> \in R
      PROVE  rank[x] < rank[y]
  <2>1. Below(x) \cup {x} \in SUBSET Below(y) /\ x \notin Below(x)
    BY <1>2
  <2>2. Cardinality(Below(x) \cup {x}) = Cardinality(Below(x)) + 1
    BY <1>1, <2>1, FS_AddElement
  <2>3. Cardinality(Below(x) \cup {x}) <= Cardinality(Below(y))
    BY <1>1, <2>1, FS_Subset
  <2>4. Cardinality(Below(x)) \in Nat /\ Cardinality(Below(y)) \in Nat
    <3> HIDE DEF Below, N
    <3> QED BY <1>0, <1>1
  <2>5. rank[x] = Cardinality(Below(x)) + 1 /\ rank[y] = Cardinality(Below(y)) + 1
    OBVIOUS
  <2> HIDE DEF rank, Below
  <2> QED BY <2>2, <2>3, <2>4, <2>5
<1>3. rank \in [S -> 1 .. N]
  <2>1. \A x \in S : Cardinality(Below(x)) + 1 \in 1 .. N
    <3> HIDE DEF Below, N
    <3> QED BY <1>0, <1>1
  <2> QED BY <2>1
<1>4. \A x, y \in S : <<x, y>> \in R <=> rank[x] < rank[y]
  <2> SUFFICES ASSUME NEW x \in S, NEW y \in S PROVE <<x, y>> \in R <=> rank[x] < rank[y]
    OBVIOUS
  <2>1. rank[x] \in Nat /\ rank[y] \in Nat
    <3> HIDE DEF rank, N
    <3> QED BY <1>0, <1>3
  <2> HIDE DEF rank
  <2>2. CASE x = y
    BY <2>1, <2>2
  <2>3. CASE <<x, y>> \in R
    BY <1>2, <2>3
  <2>4. CASE <<y, x>> \in R
    <3>1. rank[y] < rank[x]
      BY <1>2, <2>4
    <3>2. <<x, y>> \notin R
      BY <2>4
    <3> QED BY <2>1, <3>1, <3>2
  <2> QED BY <2>2, <2>3, <2>4
<1>5. \A x, y \in S : rank[x] = rank[y] => x = y
  <2> HIDE DEF rank
  <2> SUFFICES ASSUME NEW x \in S, NEW y \in S, rank[x] = rank[y], x # y PROVE FALSE
    OBVIOUS
  <2>1. rank[x] \in Nat /\ rank[y] \in Nat
    BY <1>0, <1>3
  <2> QED BY <1>4, <2>1
<1>6. \A n \in 1 .. N : \E x \in S : rank[x] = n
  <2> HIDE DEF rank, N
  <2>1. rank \in Injection(S, 1 .. N)
    BY <1>3, <1>5 DEF Injection, IsInjective
  <2>2. IsFiniteSet(1 .. N) /\ Cardinality(1 .. N) = N
    BY <1>0, FS_Interval
  <2>3. rank \in Surjection(S, 1 .. N)
    BY <2>1, <2>2, FS_Injection DEF N
  <2> QED BY <2>3 DEF Surjection
<1>7. ASSUME NEW n \in 1 .. N PROVE s[n] \in S /\ rank[s[n]] = n
  <2>1. s[n] = CHOOSE x \in S : Cardinality(Below(x)) = n - 1
    BY DEF Ordered
  <2>2. PICK x \in S : rank[x] = n
    BY <1>6
  <2>3. Cardinality(Below(x)) = n - 1
    <3>1. Cardinality(Below(x)) \in Nat /\ rank[x] = Cardinality(Below(x)) + 1 /\ n \in Nat
      BY <1>0, <1>1
    <3> HIDE DEF rank, Below
    <3> QED BY <2>2, <3>1
  <2>4. s[n] \in S /\ Cardinality(Below(s[n])) = n - 1
    <3> HIDE DEF Below, s
    <3> QED BY <2>1, <2>3
  <2>5. rank[s[n]] = n - 1 + 1 /\ n \in Nat
    BY <1>0, <2>4
  <2> HIDE DEF rank, s
  <2> QED BY <2>4, <2>5
<1>8. s \in [1 .. N -> S]
  BY <1>7 DEF Ordered
<1> HIDE DEF s, N, rank
<1>9. \A x \in S : \E n \in 1 .. N : s[n] = x
  <2> SUFFICES ASSUME NEW x \in S PROVE \E n \in 1 .. N : s[n] = x
    OBVIOUS
  <2>1. rank[x] \in 1 .. N
    BY <1>3
  <2>2. s[rank[x]] = x
    BY <1>5, <1>7, <2>1
  <2> QED BY <2>1, <2>2
<1>10. \A i, j \in 1 .. N : i < j <=> <<s[i], s[j]>> \in R
  BY <1>4, <1>7
<1> QED BY <1>0, <1>8, <1>9, <1>10 DEF s, N

\* Positions are in rising order.
LEMMA RisingExact ==
    ASSUME NEW P \in SUBSET Nat, IsFiniteSet(P)
    PROVE  /\ Cardinality(P) \in Nat
           /\ Ordered(P, Rising(P)) \in [1 .. Cardinality(P) -> P]
           /\ \A x \in P : \E n \in 1 .. Cardinality(P) : Ordered(P, Rising(P))[n] = x
           /\ \A i, j \in 1 .. Cardinality(P) :
                 i < j <=> Ordered(P, Rising(P))[i] < Ordered(P, Rising(P))[j]
<1> DEFINE R == Rising(P)
<1>1. \A x, y \in P : <<x, y>> \in R <=> x < y
  BY DEF Rising
<1> HIDE DEF R
<1>2. /\ \A x \in P : <<x, x>> \notin R
      /\ \A x, y, z \in P : <<x, y>> \in R /\ <<y, z>> \in R => <<x, z>> \in R
      /\ \A x, y \in P : x # y => <<x, y>> \in R \/ <<y, x>> \in R
  BY <1>1
<1>3. /\ Cardinality(P) \in Nat
      /\ Ordered(P, R) \in [1 .. Cardinality(P) -> P]
      /\ \A x \in P : \E n \in 1 .. Cardinality(P) : Ordered(P, R)[n] = x
      /\ \A i, j \in 1 .. Cardinality(P) : i < j <=> <<Ordered(P, R)[i], Ordered(P, R)[j]>> \in R
  BY <1>2, OrderedExact
<1>4. \A i, j \in 1 .. Cardinality(P) : i < j <=> Ordered(P, R)[i] < Ordered(P, R)[j]
  BY <1>1, <1>3
<1> QED BY <1>3, <1>4 DEF R

\* A finite set of numbers has a least and a greatest member.
LEMMA Extremes ==
    ASSUME NEW P \in SUBSET Nat, IsFiniteSet(P), P # {}
    PROVE  /\ \E i \in P : \A j \in P : i <= j
           /\ \E i \in P : \A j \in P : j <= i
<1> DEFINE N == Cardinality(P)
           s == Ordered(P, Rising(P))
<1>1. /\ N \in Nat /\ s \in [1 .. N -> P]
      /\ \A x \in P : \E n \in 1 .. N : s[n] = x
      /\ \A i, j \in 1 .. N : i < j <=> s[i] < s[j]
  BY RisingExact
<1> HIDE DEF N, s
<1>2. N >= 1
  <2>1. PICK x \in P : TRUE
    OBVIOUS
  <2>2. PICK n \in 1 .. N : s[n] = x
    BY <1>1
  <2> QED BY <1>1
<1>3. \A j \in P : s[1] <= j /\ j <= s[N]
  <2> SUFFICES ASSUME NEW j \in P PROVE s[1] <= j /\ j <= s[N]
    OBVIOUS
  <2>1. PICK n \in 1 .. N : s[n] = j
    BY <1>1
  <2>2. 1 \in 1 .. N /\ N \in 1 .. N /\ s[1] \in Nat /\ s[N] \in Nat /\ s[n] \in Nat
    <3>1. 1 \in 1 .. N /\ N \in 1 .. N
      BY <1>1, <1>2
    <3>2. \A k \in 1 .. N : s[k] \in P
      BY <1>1
    <3> QED BY <3>1, <3>2
  <2>3. ~ (n < 1) /\ ~ (N < n)
    BY <1>1, <2>1
  <2>4. ~ (s[n] < s[1]) /\ ~ (s[N] < s[n])
    BY <1>1, <2>2, <2>3
  <2> QED BY <2>1, <2>2, <2>4
<1>4. s[1] \in P /\ s[N] \in P
  BY <1>1, <1>2
<1> QED BY <1>3, <1>4

-----------------------------------------------------------------------------
\* t is what is left of s when some messages are taken out of it.
Within(t, s) ==
    \E h \in [1 .. Len(t) -> 1 .. Len(s)] :
        /\ \A i, j \in 1 .. Len(t) : i < j => h[i] < h[j]
        /\ \A i \in 1 .. Len(t) : t[i] = s[h[i]]

\* Retaining some positions keeps the order, and exactly their messages.
LEMMA RetainExact ==
    ASSUME NEW T, NEW s \in Seq(T), NEW P \in SUBSET DOMAIN s
    PROVE  /\ Retain(s, P) \in Seq(T)
           /\ Within(Retain(s, P), s)
           /\ Elements(Retain(s, P)) = {s[i] : i \in P}
<1> DEFINE N == Cardinality(P)
           at == Ordered(P, Rising(P))
           t == Retain(s, P)
<1>1. P \in SUBSET Nat /\ IsFiniteSet(P) /\ Len(s) \in Nat /\ P \in SUBSET (1 .. Len(s))
  <2>1. DOMAIN s = 1 .. Len(s) /\ Len(s) \in Nat
    BY LenProperties
  <2>2. IsFiniteSet(1 .. Len(s)) /\ P \in SUBSET (1 .. Len(s))
    BY <2>1, FS_Interval
  <2>3. IsFiniteSet(P)
    BY <2>2, FS_Subset
  <2> QED BY <2>1, <2>2, <2>3
<1>2. /\ N \in Nat /\ at \in [1 .. N -> P]
      /\ \A x \in P : \E n \in 1 .. N : at[n] = x
      /\ \A i, j \in 1 .. N : i < j <=> at[i] < at[j]
  BY <1>1, RisingExact
<1>3. t = [n \in 1 .. N |-> s[at[n]]]
  BY <1>2 DEF Retain
<1> HIDE DEF N, at, t
<1>4. \A n \in 1 .. N : s[at[n]] \in T
  BY <1>1, <1>2, ElementOfSeq
<1>5. t \in Seq(T) /\ Len(t) = N /\ DOMAIN t = 1 .. N
  BY <1>2, <1>3, <1>4
<1>6. Within(t, s)
  <2>1. at \in [1 .. Len(t) -> 1 .. Len(s)]
    BY <1>1, <1>2, <1>5
  <2>2. \A i, j \in 1 .. Len(t) : i < j => at[i] < at[j]
    BY <1>2, <1>5
  <2>3. \A i \in 1 .. Len(t) : t[i] = s[at[i]]
    BY <1>3, <1>5
  <2> QED BY <2>1, <2>2, <2>3 DEF Within
<1>7. Elements(t) = {s[i] : i \in P}
  BY <1>2, <1>3, <1>5 DEF Elements
<1> QED BY <1>5, <1>6, <1>7 DEF t

\* A list is within itself.
LEMMA WithinSelf == ASSUME NEW T, NEW s \in Seq(T) PROVE Within(s, s)
<1> DEFINE h == [i \in 1 .. Len(s) |-> i]
<1>1. /\ h \in [1 .. Len(s) -> 1 .. Len(s)]
      /\ \A i, j \in 1 .. Len(s) : i < j => h[i] < h[j]
      /\ \A i \in 1 .. Len(s) : s[i] = s[h[i]]
  OBVIOUS
<1> HIDE DEF h
<1> QED BY <1>1 DEF Within

\* Positions whose members have a room: what OfRoom says, and that it is finite.
LEMMA OfRoomExact ==
    ASSUME NEW T, NEW s \in Seq(T), NEW r
    PROVE  /\ OfRoom(s, r) = {i \in 1 .. Len(s) : s[i].room = r}
           /\ IsFiniteSet(OfRoom(s, r)) /\ Cardinality(OfRoom(s, r)) \in Nat
           /\ OfRoom(s, r) \in SUBSET Nat
<1>1. DOMAIN s = 1 .. Len(s) /\ Len(s) \in Nat
  BY LenProperties
<1>2. OfRoom(s, r) = {i \in 1 .. Len(s) : s[i].room = r}
  BY <1>1 DEF OfRoom
<1>3. OfRoom(s, r) \in SUBSET (1 .. Len(s)) /\ IsFiniteSet(1 .. Len(s))
  BY <1>1, <1>2, FS_Interval
<1>4. IsFiniteSet(OfRoom(s, r))
  BY <1>3, FS_Subset
<1> QED BY <1>1, <1>2, <1>3, <1>4, FS_CardinalityType

\* Taking messages out leaves no more of any room.
LEMMA WithinFewer ==
    ASSUME NEW T, NEW s \in Seq(T), NEW t \in Seq(T), Within(t, s), NEW r
    PROVE  Cardinality(OfRoom(t, r)) <= Cardinality(OfRoom(s, r))
<1>1. PICK h \in [1 .. Len(t) -> 1 .. Len(s)] :
          /\ \A i, j \in 1 .. Len(t) : i < j => h[i] < h[j]
          /\ \A i \in 1 .. Len(t) : t[i] = s[h[i]]
  BY DEF Within
<1> DEFINE g == [i \in OfRoom(t, r) |-> h[i]]
<1>2. /\ OfRoom(t, r) = {i \in 1 .. Len(t) : t[i].room = r}
      /\ OfRoom(s, r) = {i \in 1 .. Len(s) : s[i].room = r}
      /\ IsFiniteSet(OfRoom(s, r))
  BY OfRoomExact
<1>3. g \in [OfRoom(t, r) -> OfRoom(s, r)]
  BY <1>1, <1>2
<1>4. \A i, j \in OfRoom(t, r) : g[i] = g[j] => i = j
  <2> SUFFICES ASSUME NEW i \in OfRoom(t, r), NEW j \in OfRoom(t, r), g[i] = g[j], i # j
               PROVE  FALSE
    OBVIOUS
  <2>1. i \in 1 .. Len(t) /\ j \in 1 .. Len(t) /\ h[i] = h[j]
    BY <1>2
  <2>2. h[i] \in Nat /\ h[j] \in Nat
    BY <2>1, LenProperties
  <2>3. i < j \/ j < i
    BY <2>1
  <2> QED BY <1>1, <2>1, <2>2, <2>3
<1> HIDE DEF g
<1>5. g \in Injection(OfRoom(t, r), OfRoom(s, r))
  BY <1>3, <1>4 DEF Injection, IsInjective
<1> QED BY <1>2, <1>5, FS_Injection

\* Order of arrival and distinctness of a list.
Arranged(s) == \A i, j \in 1 .. Len(s) : i < j => s[i].env <= s[j].env /\ s[i] # s[j]

\* Taking messages out keeps what is left in order.
LEMMA WithinArranged ==
    ASSUME NEW T, NEW s \in Seq(T), NEW t \in Seq(T), Within(t, s), Arranged(s)
    PROVE  Arranged(t) /\ Elements(t) \subseteq Elements(s)
<1>1. PICK h \in [1 .. Len(t) -> 1 .. Len(s)] :
          /\ \A i, j \in 1 .. Len(t) : i < j => h[i] < h[j]
          /\ \A i \in 1 .. Len(t) : t[i] = s[h[i]]
  BY DEF Within
<1>2. DOMAIN s = 1 .. Len(s) /\ DOMAIN t = 1 .. Len(t)
  BY LenProperties
<1>3. \A i \in 1 .. Len(t) : h[i] \in 1 .. Len(s)
  BY <1>1
<1> QED BY <1>1, <1>2, <1>3 DEF Arranged, Elements

\* The oldest message of a room in a list that has one: there is just one such
\* position, and no message of the room in the list arrived earlier.
LEMMA OldestExact ==
    ASSUME NEW T, NEW s \in Seq(T), \A m \in T : m.env \in Nat, Arranged(s), NEW r,
           OfRoom(s, r) # {}
    PROVE  \E o \in OfRoom(s, r) : /\ Oldest(s, r) = {o}
                                   /\ \A i \in OfRoom(s, r) : s[o].env <= s[i].env
<1>1. /\ OfRoom(s, r) = {i \in 1 .. Len(s) : s[i].room = r}
      /\ IsFiniteSet(OfRoom(s, r)) /\ OfRoom(s, r) \in SUBSET Nat
  BY OfRoomExact
<1>2. PICK o \in OfRoom(s, r) : \A j \in OfRoom(s, r) : o <= j
  BY <1>1, Extremes
<1>3. Oldest(s, r) = {o}
  <2>1. \A i \in Oldest(s, r) : i = o
    BY <1>1, <1>2 DEF Oldest
  <2>2. o \in Oldest(s, r)
    BY <1>2 DEF Oldest
  <2> QED BY <2>1, <2>2
<1>4. ASSUME NEW i \in OfRoom(s, r) PROVE s[o].env <= s[i].env
  <2>1. o \in 1 .. Len(s) /\ i \in 1 .. Len(s) /\ o <= i /\ s[o].env \in Nat
    <3>1. o \in 1 .. Len(s) /\ i \in 1 .. Len(s)
      BY <1>1
    <3> QED BY <1>2, <3>1, ElementOfSeq
  <2> QED BY <2>1 DEF Arranged
<1> QED BY <1>3, <1>4

\* Copies of one envelope differ in their recipients only.
Alike(m, o) == /\ m.room = o.room /\ m.from = o.from /\ m.seq = o.seq
               /\ m.run = o.run /\ m.at = o.at

\* What a message is made of; its fields are all there is to it.
LEMMA MessageType ==
    /\ \A m \in Message : /\ m.room \in Room /\ m.to \in Recipient /\ m.from \in Sender
                          /\ m.seq \in 1 .. MaxSeq /\ m.run \in 0 .. MaxRestarts
                          /\ m.at \in 0 .. Horizon /\ m.env \in 1 .. MaxArrived
                          /\ m.seq \in Nat /\ m.env \in Nat /\ m.run \in Nat /\ m.at \in Nat
    /\ \A m, o \in Message : m.env = o.env /\ m.to = o.to /\ Alike(m, o) => m = o
<1>1. ASSUME NEW m \in Message
      PROVE  /\ m.room \in Room /\ m.to \in Recipient /\ m.from \in Sender
             /\ m.seq \in 1 .. MaxSeq /\ m.run \in 0 .. MaxRestarts
             /\ m.at \in 0 .. Horizon /\ m.env \in 1 .. MaxArrived
             /\ m.seq \in Nat /\ m.env \in Nat /\ m.run \in Nat /\ m.at \in Nat
  <2>1. /\ m.room \in Room /\ m.to \in Recipient /\ m.from \in Sender
        /\ m.seq \in 1 .. MaxSeq /\ m.run \in 0 .. MaxRestarts
        /\ m.at \in 0 .. Horizon /\ m.env \in 1 .. MaxArrived
    BY DEF Message
  <2> QED BY <2>1
<1>2. ASSUME NEW m \in Message, NEW o \in Message, m.env = o.env, m.to = o.to, Alike(m, o)
      PROVE  m = o
  <2>1. /\ m = [room |-> m.room, to |-> m.to, from |-> m.from, seq |-> m.seq,
                run |-> m.run, at |-> m.at, env |-> m.env]
        /\ o = [room |-> o.room, to |-> o.to, from |-> o.from, seq |-> o.seq,
                run |-> o.run, at |-> o.at, env |-> o.env]
    BY DEF Message
  <2> QED BY <1>2, <2>1 DEF Alike
<1> QED BY <1>1, <1>2

\* What a limit comes to: with a limit of 0 the latest message stays.
Limit(cap) == IF cap = 0 THEN 1 ELSE cap

\* store_message of the list: the new message comes last, what makes place for
\* it is of its room and older than all others there, and the limit is kept.
LEMMA MemoryStoreExact ==
    ASSUME NEW s \in Seq(Message), Arranged(s), NEW m \in Message, NEW cap \in Nat,
           Cardinality(OfRoom(s, m.room)) <= Limit(cap)
    PROVE  \E t \in Seq(Message) :
              /\ MemoryStore(s, m, cap) = Append(t, m)
              /\ Within(t, s)
              /\ Cardinality(OfRoom(t, m.room)) < Limit(cap)
              /\ \A x \in Elements(s) \ Elements(t) :
                    /\ x.room = m.room
                    /\ \A y \in Elements(s) : y.room = m.room => x.env <= y.env
<1> DEFINE room == OfRoom(s, m.room)
           keep == DOMAIN s \ Oldest(s, m.room)
           t == Retain(s, keep)
<1>0. /\ DOMAIN s = 1 .. Len(s) /\ room = {i \in 1 .. Len(s) : s[i].room = m.room}
      /\ IsFiniteSet(room) /\ Cardinality(room) \in Nat
  BY OfRoomExact, LenProperties
<1>1. CASE ~ Overfull(s, m.room, cap)
  <2>1. MemoryStore(s, m, cap) = Append(s, m)
    BY <1>1 DEF MemoryStore
  <2>2. Cardinality(room) < cap
    BY <1>0, <1>1 DEF Overfull
  <2>3. Within(s, s)
    BY WithinSelf
  <2>4. Cardinality(room) < Limit(cap)
    <3> HIDE DEF room
    <3> QED BY <1>0, <2>2 DEF Limit
  <2> QED BY <2>1, <2>3, <2>4
<1>2. CASE Overfull(s, m.room, cap)
  <2>1. MemoryStore(s, m, cap) = Append(t, m)
    BY <1>2 DEF MemoryStore
  <2>2. /\ t \in Seq(Message) /\ Within(t, s) /\ Elements(t) = {s[i] : i \in keep}
    BY RetainExact
  <2>3. CASE room = {}
    <3>1. Oldest(s, m.room) = {} /\ Cardinality(room) = 0
      BY <2>3, FS_EmptySet DEF Oldest
    <3>2. Elements(t) = Elements(s)
      BY <2>2, <3>1 DEF Elements
    <3>3. cap = 0
      BY <1>2, <3>1 DEF Overfull
    <3>4. Cardinality(OfRoom(t, m.room)) <= 0
      BY <2>2, <3>1, WithinFewer
    <3> HIDE DEF t, keep, room
    <3>5. Cardinality(OfRoom(t, m.room)) \in Nat
      BY <2>2, OfRoomExact
    <3>6. Cardinality(OfRoom(t, m.room)) < Limit(cap)
      BY <3>3, <3>4, <3>5 DEF Limit
    <3> QED BY <2>1, <2>2, <3>2, <3>6
  <2>4. CASE room # {}
    <3>1. PICK o \in room : /\ Oldest(s, m.room) = {o}
                            /\ \A i \in room : s[o].env <= s[i].env
      BY <2>4, MessageType, OldestExact
    <3>2. ASSUME NEW x \in Elements(s) \ Elements(t)
          PROVE  x.room = m.room /\ \A y \in Elements(s) : y.room = m.room => x.env <= y.env
      <4>1. PICK i \in DOMAIN s : x = s[i]
        BY DEF Elements
      <4>2. i = o
        BY <2>2, <3>1, <4>1
      <4>3. \A y \in Elements(s) : y.room = m.room => \E j \in room : y = s[j]
        BY <1>0 DEF Elements
      <4> HIDE DEF room, t, keep
      <4> QED BY <1>0, <3>1, <4>1, <4>2, <4>3
    <3>3. Cardinality(OfRoom(t, m.room)) <= Cardinality(room) - 1
      <4>1. PICK h \in [1 .. Len(t) -> 1 .. Len(s)] :
                /\ \A i, j \in 1 .. Len(t) : i < j => h[i] < h[j]
                /\ \A i \in 1 .. Len(t) : t[i] = s[h[i]]
        BY <2>2 DEF Within
      <4>2. OfRoom(t, m.room) = {i \in 1 .. Len(t) : t[i].room = m.room}
        BY <2>2, OfRoomExact
      <4> DEFINE g == [i \in OfRoom(t, m.room) |-> h[i]]
      <4>3. \A i \in 1 .. Len(t) : s[h[i]] \in Elements(t)
        <5>1. DOMAIN t = 1 .. Len(t)
          BY <2>2, LenProperties
        <5> QED BY <4>1, <5>1 DEF Elements
      <4>4. \A i \in 1 .. Len(t) : h[i] # o
        <5> SUFFICES ASSUME NEW i \in 1 .. Len(t), h[i] = o PROVE FALSE
          OBVIOUS
        <5>1. PICK j \in keep : s[j] = s[o]
          BY <2>2, <4>3
        <5>2. j # o /\ j \in 1 .. Len(s) /\ o \in 1 .. Len(s)
          BY <1>0, <3>1
        <5>3. j < o \/ o < j
          BY <5>2
        <5> QED BY <5>1, <5>2, <5>3 DEF Arranged
      <4>5. g \in [OfRoom(t, m.room) -> room \ {o}]
        BY <1>0, <4>1, <4>2, <4>4
      <4>6. \A i, j \in OfRoom(t, m.room) : g[i] = g[j] => i = j
        <5> SUFFICES ASSUME NEW i \in OfRoom(t, m.room), NEW j \in OfRoom(t, m.room),
                            g[i] = g[j], i # j
                     PROVE  FALSE
          OBVIOUS
        <5>1. i \in 1 .. Len(t) /\ j \in 1 .. Len(t) /\ h[i] = h[j]
          BY <4>2
        <5>2. (i < j \/ j < i) /\ h[i] \in Int /\ h[j] \in Int
          <6>1. h[i] \in 1 .. Len(s) /\ h[j] \in 1 .. Len(s)
            BY <4>1, <5>1
          <6>2. i \in Int /\ j \in Int
            BY <5>1
          <6> HIDE DEF g
          <6> QED BY <6>1, <6>2
        <5>3. /\ i < j => h[i] < h[j]
              /\ j < i => h[j] < h[i]
          BY <4>1, <5>1
        <5> HIDE DEF g, t
        <5> QED BY <5>1, <5>2, <5>3
      <4> HIDE DEF g, room
      <4>7. g \in Injection(OfRoom(t, m.room), room \ {o})
        BY <4>5, <4>6 DEF Injection, IsInjective
      <4>8. IsFiniteSet(room \ {o}) /\ Cardinality(room \ {o}) = Cardinality(room) - 1
        BY <1>0, <3>1, FS_RemoveElement
      <4> QED BY <4>7, <4>8, FS_Injection
    <3> HIDE DEF t, keep, room
    <3>4. Cardinality(OfRoom(t, m.room)) \in Nat
      BY <2>2, OfRoomExact
    <3>5. Cardinality(OfRoom(t, m.room)) < Limit(cap)
      <4>1. Cardinality(room) <= Limit(cap)
        BY DEF room
      <4> QED BY <1>0, <3>3, <3>4, <4>1 DEF Limit
    <3> QED BY <2>1, <2>2, <3>2, <3>5
  <2> QED BY <2>3, <2>4
<1> QED BY <1>1, <1>2

\* One more message at the end.
LEMMA AppendExact ==
    ASSUME NEW T, NEW t \in Seq(T), NEW m \in T, Arranged(t),
           \A x \in Elements(t) : x.env <= m.env /\ x # m
    PROVE  /\ Append(t, m) \in Seq(T) /\ Arranged(Append(t, m))
           /\ Elements(Append(t, m)) = Elements(t) \cup {m}
           /\ \A r : r # m.room => OfRoom(Append(t, m), r) = OfRoom(t, r)
           /\ Cardinality(OfRoom(Append(t, m), m.room)) <= Cardinality(OfRoom(t, m.room)) + 1
<1> DEFINE u == Append(t, m)
           n == Len(t) + 1
<1>1. /\ u \in Seq(T) /\ Len(t) \in Nat /\ Len(u) = n /\ u[n] = m
      /\ \A i \in 1 .. Len(t) : u[i] = t[i]
      /\ DOMAIN t = 1 .. Len(t) /\ DOMAIN u = 1 .. n
  BY AppendProperties, LenProperties
<1> HIDE DEF u
<1>2. Elements(u) = Elements(t) \cup {m}
  <2>1. \A i \in 1 .. n : i = n \/ i \in 1 .. Len(t)
    BY <1>1
  <2>2. n \in 1 .. n /\ \A i \in 1 .. Len(t) : i \in 1 .. n
    BY <1>1
  <2> HIDE DEF n
  <2> QED BY <1>1, <2>1, <2>2 DEF Elements
<1>3. Arranged(u)
  <2> SUFFICES ASSUME NEW i \in 1 .. Len(u), NEW j \in 1 .. Len(u), i < j
               PROVE  u[i].env <= u[j].env /\ u[i] # u[j]
    BY DEF Arranged
  <2>1. i \in 1 .. Len(t) /\ u[i] = t[i] /\ t[i] \in Elements(t)
    BY <1>1 DEF Elements
  <2>2. CASE j = n
    BY <1>1, <2>1, <2>2
  <2>3. CASE j # n
    BY <1>1, <2>1, <2>3 DEF Arranged
  <2> QED BY <2>2, <2>3
<1>4. \A r : r # m.room => OfRoom(u, r) = OfRoom(t, r)
  <2> SUFFICES ASSUME NEW r, r # m.room PROVE OfRoom(u, r) = OfRoom(t, r)
    OBVIOUS
  <2>1. \A i : i \in 1 .. n <=> i = n \/ i \in 1 .. Len(t)
    BY <1>1
  <2>2. n \notin 1 .. Len(t)
    BY <1>1
  <2> HIDE DEF n
  <2> QED BY <1>1, <2>1, <2>2 DEF OfRoom
<1>5. Cardinality(OfRoom(u, m.room)) <= Cardinality(OfRoom(t, m.room)) + 1
  <2>1. OfRoom(u, m.room) = OfRoom(t, m.room) \cup {n}
    <3>1. \A i : i \in 1 .. n <=> i = n \/ i \in 1 .. Len(t)
      BY <1>1
    <3>2. n \notin 1 .. Len(t)
      BY <1>1
    <3> HIDE DEF n
    <3> QED BY <1>1, <3>1, <3>2 DEF OfRoom
  <2>2. IsFiniteSet(OfRoom(t, m.room)) /\ Cardinality(OfRoom(t, m.room)) \in Nat
    BY OfRoomExact
  <2>3. Cardinality(OfRoom(t, m.room) \cup {n}) <= Cardinality(OfRoom(t, m.room)) + 1
    <3> DEFINE S == OfRoom(t, m.room)
    <3>1. IsFiniteSet(S) /\ Cardinality(S) \in Nat
      BY <2>2
    <3> HIDE DEF n, S
    <3>2. Cardinality(S \cup {n}) = IF n \in S THEN Cardinality(S) ELSE Cardinality(S) + 1
      BY <3>1, FS_AddElement
    <3>3. Cardinality(S \cup {n}) <= Cardinality(S) + 1
      BY <3>1, <3>2
    <3> QED BY <3>3 DEF S
  <2> QED BY <2>1, <2>3
<1> QED BY <1>1, <1>2, <1>3, <1>4, <1>5 DEF u

-----------------------------------------------------------------------------
\* fetch_backlog of the list: what was asked for, in the order of the list.
LEMMA MemoryFetchExact ==
    ASSUME NEW s \in Seq(Message), NEW r, NEW q, NEW n
    PROVE  LET f == MemoryFetch(s, r, q, n)
           IN  /\ f \in Seq(Message) /\ Within(f, s)
               /\ Elements(f) = {m \in Elements(s) : m.room = r /\ m.to = q /\ m.seq > n}
<1> DEFINE P == {i \in OfRoom(s, r) : s[i].to = q /\ s[i].seq > n}
           f == Retain(s, P)
<1>1. P \in SUBSET DOMAIN s
  BY DEF OfRoom
<1>2. f \in Seq(Message) /\ Within(f, s) /\ Elements(f) = {s[i] : i \in P}
  <2> HIDE DEF P
  <2> QED BY <1>1, RetainExact
<1>3. {s[i] : i \in P} = {m \in Elements(s) : m.room = r /\ m.to = q /\ m.seq > n}
  BY DEF Elements, OfRoom
<1> QED BY <1>2, <1>3 DEF MemoryFetch

\* fetch_backlog of the table: what was asked for, in the order of Listed.
LEMMA SqliteFetchExact ==
    ASSUME NEW t \in SUBSET Message, IsFiniteSet(t),
           \A m, o \in t : m.env = o.env => Alike(m, o),
           NEW r, NEW q, NEW n
    PROVE  LET f == SqliteFetch(t, r, q, n)
           IN  /\ DOMAIN f \subseteq Nat
               /\ Elements(f) = {m \in t : m.room = r /\ m.to = q /\ m.seq > n}
               /\ \A i, j \in DOMAIN f : i < j <=> Listed(f[i], f[j])
<1> DEFINE answer == {m \in t : m.room = r /\ m.to = q /\ Asked(m, n)}
           R == {e \in answer \X answer : Listed(e[1], e[2])}
           f == Ordered(answer, R)
<1>1. IsFiniteSet(answer) /\ answer \in SUBSET Message
  BY FS_Subset
<1>2. \A m, o \in answer : m.env = o.env => m = o
  BY MessageType
<1>3. \A m, o \in answer : <<m, o>> \in R <=> Listed(m, o)
  OBVIOUS
<1>4. \A m \in answer : m.seq \in Nat /\ m.env \in Nat
  BY MessageType
<1> HIDE DEF answer, R, f
<1>5. /\ \A m \in answer : <<m, m>> \notin R
      /\ \A m, o, p \in answer : <<m, o>> \in R /\ <<o, p>> \in R => <<m, p>> \in R
      /\ \A m, o \in answer : m # o => <<m, o>> \in R \/ <<o, m>> \in R
  <2>1. \A m \in answer : <<m, m>> \notin R
    BY <1>3, <1>4 DEF Listed
  <2>2. \A m, o, p \in answer : <<m, o>> \in R /\ <<o, p>> \in R => <<m, p>> \in R
    BY <1>3, <1>4 DEF Listed
  <2>3. \A m, o \in answer : m # o => <<m, o>> \in R \/ <<o, m>> \in R
    <3> SUFFICES ASSUME NEW m \in answer, NEW o \in answer, m # o
                 PROVE  <<m, o>> \in R \/ <<o, m>> \in R
      OBVIOUS
    <3>1. m.env # o.env
      BY <1>2
    <3>2. Listed(m, o) \/ Listed(o, m)
      BY <1>4, <3>1 DEF Listed
    <3> QED BY <1>3, <3>2
  <2> QED BY <2>1, <2>2, <2>3
<1>6. /\ Cardinality(answer) \in Nat
      /\ f \in [1 .. Cardinality(answer) -> answer]
      /\ \A m \in answer : \E k \in 1 .. Cardinality(answer) : f[k] = m
      /\ \A i, j \in 1 .. Cardinality(answer) : i < j <=> <<f[i], f[j]>> \in R
  BY <1>1, <1>5, OrderedExact DEF f
<1>7. DOMAIN f = 1 .. Cardinality(answer) /\ DOMAIN f \subseteq Nat
  BY <1>6
<1>8. Elements(f) = answer
  BY <1>6, <1>7 DEF Elements
<1>9. \A i, j \in DOMAIN f : i < j <=> Listed(f[i], f[j])
  <2>1. \A i \in DOMAIN f : f[i] \in answer
    BY <1>6, <1>7
  <2> QED BY <1>3, <1>6, <1>7, <2>1
<1>10. answer = {m \in t : m.room = r /\ m.to = q /\ m.seq > n}
  BY DEF answer, Asked
<1>11. f = SqliteFetch(t, r, q, n)
  BY DEF SqliteFetch, f, answer, R
<1> QED BY <1>7, <1>8, <1>9, <1>10, <1>11
-----------------------------------------------------------------------------
(* The invariant *)

\* The messages the past knows of.
Past == stored \cup seen

\* What the adapters hold was stored and has neither expired nor been deleted.
Held == Elements(list) \subseteq stored /\ rows \subseteq stored

\* Copies of one envelope are alike.
CopiesAlike == \A m, o \in Past : m.env = o.env => Alike(m, o)

\* Nothing has come from beyond the latest envelope and the latest number.
Latest == \A m \in Past : /\ m.env <= arrived /\ m.run <= run[m.from]
                          /\ m.run = run[m.from] => m.seq <= number[m.from]

\* Within one run a later envelope has a higher number.
Climbing == \A m, o \in Past : OneRun(m, o) /\ o.env > m.env => o.seq > m.seq

\* What expires or is deleted goes with all its copies, returned or not.
Together == \A m \in stored, o \in seen : o.env = m.env => o \in stored

\* The last number known is that of a message returned.
LastReturned == \A r \in Room, q \in Recipient :
    last[r][q] > 0 => \E o \in seen : o.room = r /\ o.to = q /\ o.seq = last[r][q]

\* What makes the properties of the backlog inductive.
BacklogInv == /\ TypeOK /\ IsFiniteSet(rows) /\ Held /\ Arranged(list) /\ CopiesAlike
              /\ Latest /\ Climbing /\ Together /\ LastReturned
              /\ ListWithinCap /\ ListKeepsNewest /\ TableKeepsNewest
              /\ PassedOverByOthers

\* The invariant holds at the start.
LEMMA BacklogInit == Init => BacklogInv
<1> SUFFICES ASSUME Init PROVE BacklogInv
  OBVIOUS
<1> USE BacklogAssumption DEF Init
<1>1. TypeOK /\ IsFiniteSet(rows)
  <2>1. IsFiniteSet({})
    BY FS_EmptySet
  <2> QED BY <2>1 DEF TypeOK
<1>2. Elements(list) = {} /\ Past = {} /\ DOMAIN list = {} /\ Len(list) = 0 /\ Kept = {}
  BY DEF Elements, Past, Kept
<1>3. Held /\ Arranged(list) /\ CopiesAlike /\ Latest /\ Climbing /\ Together
  BY <1>2 DEF Held, Arranged, CopiesAlike, Latest, Climbing, Together
<1>4. LastReturned
  BY DEF LastReturned
<1>5. ListWithinCap
  <2>1. \A r \in Room : OfRoom(list, r) = {} /\ Cardinality({}) = 0
    BY <1>2, FS_EmptySet DEF OfRoom
  <2>2. 0 <= IF Cap = 0 THEN 1 ELSE Cap
    BY DEF BacklogAssumption
  <2>3. \A r \in Room : Cardinality(OfRoom(list, r)) = 0
    BY <2>1
  <2> QED BY <2>2, <2>3 DEF ListWithinCap
<1>6. ListKeepsNewest /\ TableKeepsNewest /\ PassedOverByOthers
  BY <1>2 DEF ListKeepsNewest, TableKeepsNewest, PassedOverByOthers, PassedOver
<1> QED BY <1>1, <1>3, <1>4, <1>5, <1>6 DEF BacklogInv

-----------------------------------------------------------------------------
(* The steps *)

\* What the adapter that is asked keeps was stored.
LEMMA KeptStored == BacklogInv => Kept \subseteq stored
BY DEF BacklogInv, Held, Kept

\* Messages that are lost or retained by room and age: every step that stores
\* and returns nothing.  What is forgotten of the past goes with its copies, and
\* what goes from the list or the table alone leaves the newest there.
LEMMA LosingInv ==
    ASSUME BacklogInv, TypeOK', stored' \subseteq stored, seen' = seen, last' = last,
           arrived' = arrived, adapter' = adapter,
           \A s \in Sender : \/ run'[s] = run[s] /\ number'[s] = number[s]
                             \/ run'[s] = run[s] + 1,
           \A m \in stored', o \in stored : m.env = o.env => o \in stored',
           list' \in Seq(Message), Within(list', list), rows' \subseteq rows, Held',
           ListKeepsNewest', TableKeepsNewest'
    PROVE  BacklogInv'
<1>1. /\ TypeOK /\ Held /\ CopiesAlike /\ Latest /\ Climbing /\ Together /\ LastReturned
      /\ Arranged(list) /\ ListWithinCap /\ PassedOverByOthers /\ IsFiniteSet(rows)
  BY DEF BacklogInv
<1>2. IsFiniteSet(rows')
  BY <1>1, FS_Subset
<1>3. list \in Seq(Message) /\ Arranged(list') /\ Elements(list') \subseteq Elements(list)
  <2>1. list \in Seq(Message)
    BY <1>1 DEF TypeOK
  <2> QED BY <1>1, <2>1, WithinArranged
<1>4. Past' \subseteq Past
  BY DEF Past
<1>5. CopiesAlike' /\ Climbing'
  BY <1>1, <1>4 DEF CopiesAlike, Climbing, Alike, OneRun
<1>6. Together' /\ LastReturned'
  BY <1>1 DEF Together, LastReturned
<1>7. Latest'
  <2> SUFFICES ASSUME NEW m \in Past'
               PROVE  /\ m.env <= arrived /\ m.run <= run'[m.from]
                      /\ m.run = run'[m.from] => m.seq <= number'[m.from]
    BY DEF Latest
  <2>1. /\ m.env <= arrived /\ m.run <= run[m.from]
        /\ m.run = run[m.from] => m.seq <= number[m.from]
    BY <1>1, <1>4 DEF Latest
  <2>2. m.from \in Sender /\ m.run \in Nat /\ run[m.from] \in Nat
    <3>1. m \in Message
      BY <1>1, <1>4 DEF TypeOK, Past
    <3>2. run[m.from] \in 0 .. MaxRestarts
      BY <1>1, <3>1, MessageType DEF TypeOK
    <3> QED BY <3>1, <3>2, MessageType
  <2> QED BY <2>1, <2>2
<1>8. ListWithinCap'
  <2> SUFFICES ASSUME NEW r \in Room
               PROVE  Cardinality(OfRoom(list', r)) <= IF Cap = 0 THEN 1 ELSE Cap
    BY DEF ListWithinCap
  <2>1. Cardinality(OfRoom(list, r)) <= IF Cap = 0 THEN 1 ELSE Cap
    BY <1>1 DEF ListWithinCap
  <2>2. Cardinality(OfRoom(list', r)) <= Cardinality(OfRoom(list, r))
    BY <1>3, WithinFewer
  <2>3. /\ Cardinality(OfRoom(list, r)) \in Nat /\ Cardinality(OfRoom(list', r)) \in Nat
        /\ Cap \in Nat
    BY <1>3, OfRoomExact, BacklogAssumption
  <2> QED BY <2>1, <2>2, <2>3
<1>9. PassedOverByOthers'
  <2>1. Kept' \subseteq Kept
    BY <1>3 DEF Kept
  <2>2. PassedOver' \subseteq PassedOver
    BY <2>1 DEF PassedOver
  <2> QED BY <1>1, <2>2 DEF PassedOverByOthers, OneRun
<1> QED BY <1>2, <1>3, <1>5, <1>6, <1>7, <1>8, <1>9 DEF BacklogInv

\* What is kept of a list by a room or an age, as a set.
LEMMA RetainHeld ==
    ASSUME NEW s \in Seq(Message), NEW keep \in SUBSET Message
    PROVE  LET t == Retain(s, {i \in DOMAIN s : s[i] \in keep})
           IN  /\ t \in Seq(Message) /\ Within(t, s)
               /\ Elements(t) = Elements(s) \cap keep
<1> DEFINE P == {i \in DOMAIN s : s[i] \in keep}
           t == Retain(s, P)
<1>1. P \in SUBSET DOMAIN s
  OBVIOUS
<1>2. t \in Seq(Message) /\ Within(t, s) /\ Elements(t) = {s[i] : i \in P}
  <2> HIDE DEF P
  <2> QED BY <1>1, RetainExact
<1>3. {s[i] : i \in P} = Elements(s) \cap keep
  BY DEF Elements
<1> QED BY <1>2, <1>3

\* Forgetting all messages but those of `keep' everywhere, with their copies.
LEMMA ForgetInv ==
    ASSUME BacklogInv, NEW keep \in SUBSET Message,
           \A m, o \in stored : Alike(m, o) => (m \in keep <=> o \in keep),
           list' = Retain(list, {i \in DOMAIN list : list[i] \in keep}),
           rows' = rows \cap keep, stored' = stored \cap keep,
           UNCHANGED <<now, adapter, rooms, last, number, run, arrived, seen>>
    PROVE  BacklogInv'
<1>1. /\ TypeOK /\ Held /\ CopiesAlike /\ ListKeepsNewest /\ TableKeepsNewest
  BY DEF BacklogInv
<1>2. list' \in Seq(Message) /\ Within(list', list) /\ Elements(list') = Elements(list) \cap keep
  <2>1. list \in Seq(Message)
    BY <1>1 DEF TypeOK
  <2> QED BY <2>1, RetainHeld
<1>3. TypeOK'
  BY <1>1, <1>2 DEF TypeOK
<1>4. Held'
  BY <1>1, <1>2 DEF Held
<1>5. \A m \in stored', o \in stored : m.env = o.env => o \in stored'
  BY <1>1 DEF CopiesAlike, Past
<1>6. ListKeepsNewest'
  BY <1>1, <1>2 DEF ListKeepsNewest
<1>7. TableKeepsNewest'
  BY <1>1 DEF TableKeepsNewest, OneRun
<1> QED BY <1>2, <1>3, <1>4, <1>5, <1>6, <1>7, LosingInv

\* purge_expired of both adapters.
LEMMA PurgeExpiredInv == BacklogInv /\ PurgeExpired => BacklogInv'
<1> SUFFICES ASSUME BacklogInv, PurgeExpired PROVE BacklogInv'
  OBVIOUS
<1> DEFINE keep == {m \in Message : m.at >= Cutoff}
<1>1. list \in Seq(Message) /\ rows \subseteq Message /\ stored \subseteq Message
  BY DEF BacklogInv, TypeOK
<1>2. \A i \in DOMAIN list : list[i] \in Message
  BY <1>1
<1>3. {i \in DOMAIN list : list[i].at >= Cutoff} = {i \in DOMAIN list : list[i] \in keep}
  BY <1>2
<1>4. list' = Retain(list, {i \in DOMAIN list : list[i] \in keep})
  BY <1>3 DEF PurgeExpired, MemoryPurge
<1>5. rows' = rows \cap keep /\ stored' = stored \cap keep
  BY <1>1 DEF PurgeExpired, SqlitePurge
<1>6. \A m, o \in stored : Alike(m, o) => (m \in keep <=> o \in keep)
  BY <1>1 DEF Alike
<1>7. keep \in SUBSET Message
  OBVIOUS
<1>8. UNCHANGED <<now, adapter, rooms, last, number, run, arrived, seen>>
  BY DEF PurgeExpired
<1> HIDE DEF keep
<1> QED BY <1>4, <1>5, <1>6, <1>7, <1>8, ForgetInv

\* delete_room of the list, and the table emptied of the room.
LEMMA DeleteRoomInv == ASSUME BacklogInv, NEW r \in Room, DeleteRoom(r) PROVE BacklogInv'
<1> DEFINE keep == {m \in Message : m.room # r}
<1>1. list \in Seq(Message) /\ rows \subseteq Message /\ stored \subseteq Message
  BY DEF BacklogInv, TypeOK
<1>2. \A i \in DOMAIN list : list[i] \in Message
  BY <1>1
<1>3. DOMAIN list \ OfRoom(list, r) = {i \in DOMAIN list : list[i] \in keep}
  BY <1>2 DEF OfRoom
<1>4. list' = Retain(list, {i \in DOMAIN list : list[i] \in keep})
  BY <1>3 DEF DeleteRoom, MemoryDelete
<1>5. rows' = rows \cap keep /\ stored' = stored \cap keep
  BY <1>1 DEF DeleteRoom, InRoom
<1>6. \A m, o \in stored : Alike(m, o) => (m \in keep <=> o \in keep)
  BY <1>1 DEF Alike
<1>7. keep \in SUBSET Message
  OBVIOUS
<1>8. UNCHANGED <<now, adapter, rooms, last, number, run, arrived, seen>>
  BY DEF DeleteRoom
<1> HIDE DEF keep
<1> QED BY <1>4, <1>5, <1>6, <1>7, <1>8, ForgetInv

\* purge_excess of the table: of one run, what is left out has lower numbers
\* than all that is kept.
LEMMA PurgeExcessInv == ASSUME BacklogInv, NEW r \in Room, PurgeExcess(r) PROVE BacklogInv'
<1>1. /\ TypeOK /\ Held /\ Climbing /\ ListKeepsNewest /\ TableKeepsNewest
  BY DEF BacklogInv
<1>2. PICK keep \in KeptByExcess(rows, r, Cap) : rows' = (rows \ InRoom(rows, r)) \cup keep
  BY DEF PurgeExcess
<1>3. /\ keep \subseteq InRoom(rows, r)
      /\ \A a \in keep, b \in InRoom(rows, r) \ keep : a.seq >= b.seq
  BY DEF KeptByExcess, Ranked
<1>4. UNCHANGED <<now, adapter, rooms, list, last, history, seen>>
  BY DEF PurgeExcess
<1>5. rows' \subseteq rows
  BY <1>2, <1>3 DEF InRoom
<1>6. TypeOK' /\ Held' /\ ListKeepsNewest'
  BY <1>1, <1>4, <1>5 DEF TypeOK, Held, ListKeepsNewest, history
<1>7. TableKeepsNewest'
  <2> SUFFICES ASSUME NEW m \in stored, NEW o \in stored, m.room = o.room, OneRun(m, o),
                      o.env > m.env, m \in rows'
               PROVE  o \in rows'
    BY <1>4 DEF TableKeepsNewest, OneRun, history
  <2>1. m \in rows /\ o \in rows
    BY <1>1, <1>5 DEF TableKeepsNewest
  <2>2. CASE m.room # r
    BY <1>2, <2>1, <2>2 DEF InRoom
  <2>3. CASE m.room = r
    <3>1. m \in keep /\ o \in InRoom(rows, r)
      BY <1>2, <2>1, <2>3 DEF InRoom
    <3>2. o.seq > m.seq /\ o.seq \in Nat /\ m.seq \in Nat
      BY <1>1, MessageType DEF Climbing, Past, TypeOK
    <3>3. o \in keep
      BY <1>3, <3>1, <3>2
    <3> QED BY <1>2, <3>3
  <2> QED BY <2>2, <2>3
<1>8. list \in Seq(Message) /\ Within(list, list)
  BY <1>1, WithinSelf DEF TypeOK
<1> QED BY <1>4, <1>5, <1>6, <1>7, <1>8, LosingInv DEF history

\* The host is started again.
LEMMA ReopenInv == BacklogInv /\ Reopen => BacklogInv'
<1> SUFFICES ASSUME BacklogInv, Reopen PROVE BacklogInv'
  OBVIOUS
<1>1. TypeOK /\ Held /\ TableKeepsNewest
  BY DEF BacklogInv
<1>2. UNCHANGED <<now, adapter, rooms, rows, last, history, seen>> /\ list' = <<>>
  BY DEF Reopen
<1>3. list' \in Seq(Message) /\ Within(list', list) /\ Elements(list') = {}
  <2>1. list' \in Seq(Message) /\ Len(list') = 0 /\ DOMAIN list' = {}
    BY <1>2
  <2>2. list \in Seq(Message)
    BY <1>1 DEF TypeOK
  <2>3. PICK h : h \in [1 .. Len(list') -> 1 .. Len(list)]
    <3>1. [i \in 1 .. Len(list') |-> 1] \in [1 .. Len(list') -> 1 .. Len(list)]
      BY <2>1
    <3> QED BY <3>1
  <2>4. \A i \in 1 .. Len(list') : FALSE
    BY <2>1
  <2>5. Within(list', list)
    BY <2>3, <2>4 DEF Within
  <2> QED BY <2>1, <2>5 DEF Elements
<1>4. TypeOK' /\ Held' /\ ListKeepsNewest' /\ TableKeepsNewest'
  BY <1>1, <1>2, <1>3
     DEF TypeOK, Held, ListKeepsNewest, TableKeepsNewest, OneRun, history
<1> QED BY <1>2, <1>3, <1>4, LosingInv DEF history

\* Time passes, a room is stored or a sender joins again: no message moves.
LEMMA StillInv ==
    ASSUME BacklogInv, Tick \/ (\E r \in Room : StoreRoom(r))
                            \/ (\E s \in Sender : SenderRestarts(s))
    PROVE  BacklogInv'
<1>1. /\ TypeOK /\ Held /\ ListKeepsNewest /\ TableKeepsNewest
  BY DEF BacklogInv
<1>2. UNCHANGED <<list, rows, last, stored, arrived, adapter, seen>>
  BY DEF Tick, StoreRoom, SenderRestarts, content, history
<1>3. TypeOK'
  <2>1. CASE Tick
    BY <1>1, <2>1, BacklogAssumption DEF Tick, TypeOK, content, history
  <2>2. ASSUME NEW r \in Room, StoreRoom(r) PROVE TypeOK'
    BY <1>1, <2>2 DEF StoreRoom, TypeOK, history
  <2>3. ASSUME NEW s \in Sender, SenderRestarts(s) PROVE TypeOK'
    <3>1. run' \in [Sender -> 0 .. MaxRestarts] /\ number' \in [Sender -> 0 .. MaxSeq]
      BY <1>1, <2>3, BacklogAssumption DEF SenderRestarts, TypeOK
    <3> QED BY <1>1, <2>3, <3>1 DEF SenderRestarts, TypeOK, content
  <2> QED BY <2>1, <2>2, <2>3
<1>4. \A s \in Sender : \/ run'[s] = run[s] /\ number'[s] = number[s]
                        \/ run'[s] = run[s] + 1
  BY <1>1 DEF Tick, StoreRoom, SenderRestarts, TypeOK, history
<1>5. Held' /\ ListKeepsNewest' /\ TableKeepsNewest'
  BY <1>1, <1>2 DEF Held, ListKeepsNewest, TableKeepsNewest, OneRun
<1>6. list \in Seq(Message) /\ Within(list, list)
  BY <1>1, WithinSelf DEF TypeOK
<1> QED BY <1>2, <1>3, <1>4, <1>5, <1>6, LosingInv

\* A message that is new to the past is stored: it arrives last, is alike to the
\* copies of its envelope and has the highest number of its run so far.
LEMMA PutInv ==
    ASSUME BacklogInv, NEW c \in Message, Put(c), c \notin Past,
           \A m \in Past : /\ m.env <= c.env
                           /\ m.env = c.env => Alike(m, c)
                           /\ m.env < c.env /\ OneRun(m, c) => m.seq < c.seq,
           \A o \in seen : o.env = c.env => o \in stored,
           number' \in [Sender -> 0 .. MaxSeq], arrived' \in 0 .. MaxArrived, Latest'
    PROVE  BacklogInv'
<1>1. /\ TypeOK /\ Held /\ CopiesAlike /\ Latest /\ Climbing /\ Together /\ LastReturned
      /\ Arranged(list) /\ ListWithinCap /\ ListKeepsNewest /\ TableKeepsNewest
      /\ PassedOverByOthers /\ IsFiniteSet(rows)
  BY DEF BacklogInv
<1>2. /\ list \in Seq(Message) /\ stored \subseteq Message /\ seen \subseteq Message
      /\ rows \subseteq Message /\ Past \subseteq Message /\ Cap \in Nat
      /\ last \in [Room -> [Recipient -> 0 .. MaxSeq]]
  BY <1>1, BacklogAssumption DEF TypeOK, Past
<1>3. /\ rows' = rows \cup {c} /\ stored' = stored \cup {c} /\ Past' = Past \cup {c}
      /\ seen' = seen /\ last' = last /\ run' = run /\ adapter' = adapter
      /\ now' = now /\ rooms' = rooms /\ list' = MemoryStore(list, c, Cap)
  BY DEF Put, Past
<1>4. c.room \in Room /\ c.to \in Recipient /\ c.seq \in Nat /\ c.env \in Nat
  BY MessageType
<1>5. PICK t \in Seq(Message) :
              /\ list' = Append(t, c)
              /\ Within(t, list)
              /\ Cardinality(OfRoom(t, c.room)) < Limit(Cap)
              /\ \A x \in Elements(list) \ Elements(t) :
                    /\ x.room = c.room
                    /\ \A y \in Elements(list) : y.room = c.room => x.env <= y.env
  <2>2. Cardinality(OfRoom(list, c.room)) <= Limit(Cap)
    BY <1>1, <1>4 DEF ListWithinCap, Limit
  <2>3. list \in Seq(Message) /\ Arranged(list) /\ Cap \in Nat
    BY <1>1, <1>2
  <2>4. \E t \in Seq(Message) :
              /\ MemoryStore(list, c, Cap) = Append(t, c)
              /\ Within(t, list)
              /\ Cardinality(OfRoom(t, c.room)) < Limit(Cap)
              /\ \A x \in Elements(list) \ Elements(t) :
                    /\ x.room = c.room
                    /\ \A y \in Elements(list) : y.room = c.room => x.env <= y.env
    BY <2>2, <2>3, MemoryStoreExact
  <2> QED BY <1>3, <2>4
<1>6. Arranged(t) /\ Elements(t) \subseteq Elements(list)
  BY <1>1, <1>2, <1>5, WithinArranged
<1>7. /\ list' \in Seq(Message) /\ Arranged(list') /\ Elements(list') = Elements(t) \cup {c}
      /\ \A r : r # c.room => OfRoom(list', r) = OfRoom(t, r)
      /\ Cardinality(OfRoom(list', c.room)) <= Cardinality(OfRoom(t, c.room)) + 1
  <2>1. \A x \in Elements(t) : x.env <= c.env /\ x # c
    BY <1>1, <1>6 DEF Held, Past
  <2> QED BY <1>5, <1>6, <2>1, AppendExact
<1>8. TypeOK' /\ IsFiniteSet(rows')
  <2>1. IsFiniteSet(rows')
    BY <1>1, <1>3, FS_AddElement
  <2> QED BY <1>1, <1>3, <1>7, <2>1 DEF TypeOK
<1>9. Held'
  BY <1>1, <1>3, <1>6, <1>7 DEF Held
<1>10. CopiesAlike'
  BY <1>1, <1>3 DEF CopiesAlike, Alike
<1>11. Climbing'
  <2> SUFFICES ASSUME NEW m \in Past', NEW o \in Past', OneRun(m, o), o.env > m.env
               PROVE  o.seq > m.seq
    BY DEF Climbing, OneRun
  <2>1. m.env \in Nat /\ o.env \in Nat /\ m.seq \in Nat /\ o.seq \in Nat
    BY <1>2, <1>3, MessageType
  <2>2. CASE m = c
    <3>1. o \in Past
      BY <1>3, <2>1, <2>2
    <3> QED BY <2>1, <2>2, <3>1
  <2>3. CASE m # c /\ o = c
    BY <1>3, <2>1, <2>3
  <2>4. CASE m # c /\ o # c
    BY <1>1, <1>3, <2>4 DEF Climbing
  <2> QED BY <2>2, <2>3, <2>4
<1>12. Together' /\ LastReturned'
  <2>1. Together'
    BY <1>1, <1>3 DEF Together
  <2>2. LastReturned'
    BY <1>1, <1>3 DEF LastReturned
  <2> QED BY <2>1, <2>2
<1>13. ListWithinCap'
  <2> SUFFICES ASSUME NEW r \in Room
               PROVE  Cardinality(OfRoom(list', r)) <= IF Cap = 0 THEN 1 ELSE Cap
    BY DEF ListWithinCap
  <2>1. /\ Cardinality(OfRoom(list', r)) \in Nat /\ Cardinality(OfRoom(t, r)) \in Nat
        /\ Cardinality(OfRoom(list, r)) \in Nat
    BY <1>2, <1>7, OfRoomExact
  <2>2. CASE r = c.room
    BY <1>2, <1>5, <1>7, <2>1, <2>2 DEF Limit
  <2>3. CASE r # c.room
    <3>1. Cardinality(OfRoom(list', r)) = Cardinality(OfRoom(t, r))
      BY <1>7, <2>3
    <3>2. Cardinality(OfRoom(t, r)) <= Cardinality(OfRoom(list, r))
      BY <1>2, <1>5, WithinFewer
    <3>3. Cardinality(OfRoom(list, r)) <= IF Cap = 0 THEN 1 ELSE Cap
      BY <1>1 DEF ListWithinCap
    <3> QED BY <1>2, <2>1, <3>1, <3>2, <3>3
  <2> QED BY <2>2, <2>3
<1>14. ListKeepsNewest'
  <2> SUFFICES ASSUME NEW m \in stored', NEW o \in stored', m.room = o.room, o.env > m.env,
                      m \in Elements(list')
               PROVE  o \in Elements(list')
    BY DEF ListKeepsNewest
  <2>1. m.env \in Nat /\ o.env \in Nat
    BY <1>2, <1>3, MessageType
  <2>2. CASE o = c
    BY <1>7, <2>2
  <2>3. CASE o # c
    <3>1. o \in stored /\ o.env <= c.env
      BY <1>3, <2>3 DEF Past
    <3>2. m # c
      BY <1>4, <2>1, <3>1
    <3>3. m \in stored /\ m \in Elements(t) /\ m \in Elements(list)
      BY <1>3, <1>6, <1>7, <3>2
    <3>4. o \in Elements(list)
      BY <1>1, <3>1, <3>3 DEF ListKeepsNewest
    <3>5. o \in Elements(t)
      <4> SUFFICES ASSUME o \notin Elements(t) PROVE FALSE
        OBVIOUS
      <4>1. o.room = c.room /\ o.env <= m.env
        BY <1>5, <3>3, <3>4
      <4> QED BY <2>1, <4>1
    <3> QED BY <1>7, <3>5
  <2> QED BY <2>2, <2>3
<1>15. TableKeepsNewest'
  <2> SUFFICES ASSUME NEW m \in stored', NEW o \in stored', m.room = o.room, OneRun(m, o),
                      o.env > m.env, m \in rows'
               PROVE  o \in rows'
    BY DEF TableKeepsNewest, OneRun
  <2>1. m.env \in Nat /\ o.env \in Nat
    BY <1>2, <1>3, MessageType
  <2>2. CASE o = c
    BY <1>3, <2>2
  <2>3. CASE o # c
    <3>1. o \in stored /\ o.env <= c.env
      BY <1>3, <2>3 DEF Past
    <3>2. m # c
      BY <1>4, <2>1, <3>1
    <3> QED BY <1>1, <1>3, <3>1, <3>2 DEF TableKeepsNewest
  <2> QED BY <2>2, <2>3
<1>16. PassedOverByOthers'
  <2> SUFFICES ASSUME NEW m \in PassedOver'
               PROVE  \E o \in seen : /\ o.room = m.room /\ o.to = m.to
                                      /\ ~ OneRun(m, o) /\ o.seq >= m.seq
    BY <1>3 DEF PassedOverByOthers, OneRun
  <2>1. m \in Kept' /\ m.seq <= last[m.room][m.to] /\ m \notin seen
    BY <1>3 DEF PassedOver
  <2>2. CASE m # c
    <3>1. m \in Kept
      BY <1>3, <1>6, <1>7, <2>1, <2>2 DEF Kept
    <3>2. m \in PassedOver
      BY <2>1, <3>1 DEF PassedOver
    <3> QED BY <1>1, <3>2 DEF PassedOverByOthers
  <2>3. CASE m = c
    <3>1. last[c.room][c.to] \in Nat /\ c.seq > 0
      <4>1. last[c.room][c.to] \in 0 .. MaxSeq /\ c.seq \in 1 .. MaxSeq
        BY <1>2, <1>4, MessageType
      <4> QED BY <4>1
    <3>2. last[c.room][c.to] > 0
      BY <1>4, <2>1, <2>3, <3>1
    <3>3. PICK o \in seen : o.room = c.room /\ o.to = c.to /\ o.seq = last[c.room][c.to]
      BY <1>1, <1>4, <3>2 DEF LastReturned
    <3>4. o \in Past /\ o \in Message /\ o.env \in Nat /\ o.seq \in Nat
      BY <1>2, MessageType DEF Past
    <3>5. ~ OneRun(c, o)
      <4> SUFFICES ASSUME OneRun(c, o) PROVE FALSE
        OBVIOUS
      <4>1. o.env <= c.env /\ OneRun(o, c)
        BY <3>4 DEF OneRun
      <4>2. CASE o.env < c.env
        <5>1. o.seq < c.seq
          BY <3>4, <4>1, <4>2
        <5> QED BY <1>4, <2>1, <2>3, <3>1, <3>3, <3>4, <5>1
      <4>3. CASE o.env = c.env
        <5>1. Alike(o, c)
          BY <3>4, <4>3
        <5>2. o = c
          BY <3>3, <3>4, <4>3, <5>1, MessageType
        <5> QED BY <3>4, <5>2
      <4> QED BY <1>4, <3>4, <4>1, <4>2, <4>3
    <3>6. o.seq >= c.seq
      BY <1>4, <2>1, <2>3, <3>1, <3>3
    <3> QED BY <2>3, <3>3, <3>5, <3>6
  <2> QED BY <2>2, <2>3
<1> QED BY <1>7, <1>8, <1>9, <1>10, <1>11, <1>12, <1>13, <1>14, <1>15, <1>16
        DEF BacklogInv

\* store_message for the first recipient of an envelope.
LEMMA StoreMessageInv ==
    ASSUME BacklogInv, NEW r \in Room, NEW q \in Recipient, NEW s \in Sender,
           NEW n \in 1 .. MaxSeq, StoreMessage(r, s, q, n)
    PROVE  BacklogInv'
<1> DEFINE c == [room |-> r, to |-> q, from |-> s, seq |-> n, run |-> run[s],
                 at |-> now, env |-> arrived + 1]
<1>1. TypeOK /\ Latest /\ Together
  BY DEF BacklogInv
<1>2. /\ Put(c) /\ number[s] < n /\ arrived < MaxArrived
      /\ number' = [number EXCEPT ![s] = n] /\ arrived' = arrived + 1
  BY DEF StoreMessage
<1>3. /\ arrived \in Nat /\ MaxArrived \in Nat /\ MaxSeq \in Nat /\ MaxRestarts \in Nat
      /\ run[s] \in 0 .. MaxRestarts /\ number[s] \in 0 .. MaxSeq /\ now \in 0 .. Horizon
      /\ Past \subseteq Message
  BY <1>1, BacklogAssumption DEF TypeOK, Past
<1>4. c \in Message
  <2>1. arrived + 1 \in 1 .. MaxArrived
    BY <1>2, <1>3
  <2> QED BY <1>3, <2>1 DEF Message
<1>5. /\ c.room = r /\ c.to = q /\ c.from = s /\ c.seq = n /\ c.run = run[s]
      /\ c.env = arrived + 1
  OBVIOUS
<1> HIDE DEF c
<1>6. \A m \in Past : /\ m.env \in Nat /\ m.env <= arrived /\ m.seq \in Nat
                      /\ m.run = run[m.from] => m.seq <= number[m.from]
  BY <1>1, <1>3, MessageType DEF Latest
<1>7. \A m \in Past : m.env < c.env
  BY <1>3, <1>5, <1>6
<1>8. c \notin Past
  BY <1>3, <1>5, <1>6
<1>9. \A m \in Past : OneRun(m, c) => m.seq < c.seq
  <2> SUFFICES ASSUME NEW m \in Past, OneRun(m, c) PROVE m.seq < c.seq
    OBVIOUS
  <2>1. m.from = s /\ m.run = run[s]
    BY <1>5 DEF OneRun
  <2>2. m.seq <= number[s] /\ m.seq \in Nat
    BY <1>6, <2>1
  <2> QED BY <1>2, <1>3, <1>5, <2>2
<1>10. \A m \in Past : /\ m.env <= c.env
                       /\ m.env = c.env => Alike(m, c)
                       /\ m.env < c.env /\ OneRun(m, c) => m.seq < c.seq
  BY <1>3, <1>5, <1>6, <1>7, <1>9
<1>11. \A o \in seen : o.env = c.env => o \in stored
  <2>1. \A o \in seen : o.env < c.env /\ o.env \in Nat
    BY <1>6, <1>7 DEF Past
  <2> QED BY <1>3, <1>5, <2>1
<1>12. number' \in [Sender -> 0 .. MaxSeq] /\ arrived' \in 0 .. MaxArrived
  BY <1>1, <1>2, <1>3 DEF TypeOK
<1>13. Latest'
  <2>1. Past' = Past \cup {c} /\ run' = run
    BY <1>2 DEF Put, Past
  <2> SUFFICES ASSUME NEW m \in Past'
               PROVE  /\ m.env <= arrived' /\ m.run <= run[m.from]
                      /\ m.run = run[m.from] => m.seq <= number'[m.from]
    BY <2>1 DEF Latest
  <2>2. CASE m = c
    BY <1>1, <1>2, <1>3, <1>5, <2>2 DEF TypeOK
  <2>3. CASE m # c
    <3>1. m \in Past /\ m.from \in Sender
      BY <1>3, <2>1, <2>3, MessageType
    <3>2. /\ m.env <= arrived /\ m.run <= run[m.from] /\ m.env \in Nat /\ m.seq \in Nat
          /\ m.run = run[m.from] => m.seq <= number[m.from]
      BY <1>1, <1>6, <3>1 DEF Latest
    <3>3. number'[m.from] = IF m.from = s THEN n ELSE number[m.from]
      BY <1>1, <1>2, <3>1 DEF TypeOK
    <3> QED BY <1>2, <1>3, <3>2, <3>3
  <2> QED BY <2>2, <2>3
<1> QED BY <1>2, <1>4, <1>8, <1>10, <1>11, <1>12, <1>13, PutInv

\* store_message for one more recipient of the latest envelope.
LEMMA StoreCopyInv ==
    ASSUME BacklogInv, NEW m \in stored, NEW q \in Recipient, StoreCopy(m, q)
    PROVE  BacklogInv'
<1> DEFINE c == [m EXCEPT !.to = q]
<1>1. TypeOK /\ Latest /\ Together /\ CopiesAlike /\ Climbing
  BY DEF BacklogInv
<1>2. /\ Put(c) /\ m.env = arrived /\ UNCHANGED <<number, arrived>>
      /\ \A o \in stored : o.env = arrived => o.to # q
  BY DEF StoreCopy
<1>3. m \in Message /\ m \in Past /\ Past \subseteq Message /\ arrived \in Nat
  BY <1>1, BacklogAssumption DEF TypeOK, Past
<1>4. /\ c \in Message /\ c.to = q /\ c.env = m.env /\ c.room = m.room /\ c.from = m.from
      /\ c.seq = m.seq /\ c.run = m.run /\ c.at = m.at
  BY <1>3 DEF Message
<1> HIDE DEF c
<1>5. \A o \in Past : o.env \in Nat /\ o.env <= c.env
  BY <1>1, <1>2, <1>3, <1>4, MessageType DEF Latest
<1>6. \A o \in Past : o.env = c.env => Alike(o, c)
  BY <1>1, <1>3, <1>4 DEF CopiesAlike, Alike
<1>7. \A o \in Past : o.env < c.env /\ OneRun(o, c) => o.seq < c.seq
  <2> SUFFICES ASSUME NEW o \in Past, o.env < c.env, OneRun(o, c) PROVE o.seq < c.seq
    OBVIOUS
  <2>1. OneRun(o, m) /\ m.env > o.env
    BY <1>3, <1>4, <1>5, MessageType DEF OneRun
  <2>2. m.seq > o.seq /\ m.seq \in Nat /\ o.seq \in Nat
    BY <1>1, <1>3, <2>1, MessageType DEF Climbing
  <2> QED BY <1>4, <2>2
<1>8. \A o \in seen : o.env = c.env => o \in stored
  BY <1>1, <1>4 DEF Together
<1>9. c \notin Past
  BY <1>2, <1>4, <1>8 DEF Past
<1>10. number' \in [Sender -> 0 .. MaxSeq] /\ arrived' \in 0 .. MaxArrived
  BY <1>1, <1>2 DEF TypeOK
<1>11. Latest'
  <2>1. Past' = Past \cup {c} /\ run' = run
    BY <1>2 DEF Put, Past
  <2>2. \A o \in Past' : \E p \in Past : /\ o.env = p.env /\ o.run = p.run
                                         /\ o.from = p.from /\ o.seq = p.seq
    BY <1>3, <1>4, <2>1
  <2> SUFFICES ASSUME NEW o \in Past'
               PROVE  /\ o.env <= arrived /\ o.run <= run[o.from]
                      /\ o.run = run[o.from] => o.seq <= number[o.from]
    BY <1>2, <2>1 DEF Latest
  <2>3. PICK p \in Past : o.env = p.env /\ o.run = p.run /\ o.from = p.from /\ o.seq = p.seq
    BY <2>2
  <2> QED BY <1>1, <2>3 DEF Latest
<1> QED BY <1>2, <1>4, <1>5, <1>6, <1>7, <1>8, <1>9, <1>10, <1>11, PutInv

\* The answer to a catch-up: what the adapter keeps for the recipient above the
\* last number it knows.
LEMMA FetchedExact ==
    ASSUME BacklogInv, NEW r \in Room, NEW q \in Recipient
    PROVE  Elements(Fetched(r, q)) =
              {m \in Kept : m.room = r /\ m.to = q /\ m.seq > last[r][q]}
<1>1. /\ list \in Seq(Message) /\ rows \in SUBSET Message /\ IsFiniteSet(rows)
      /\ \A m, o \in rows : m.env = o.env => Alike(m, o)
  BY DEF BacklogInv, TypeOK, Held, CopiesAlike, Past
<1>2. CASE adapter = "memory"
  BY <1>1, <1>2, MemoryFetchExact DEF Fetched, Kept
<1>3. CASE adapter # "memory"
  BY <1>1, <1>3, SqliteFetchExact DEF Fetched, Kept
<1> QED BY <1>2, <1>3

\* A recipient asks for what it has missed.
LEMMA CatchUpInv ==
    ASSUME BacklogInv, NEW r \in Room, NEW q \in Recipient, CatchUp(r, q)
    PROVE  BacklogInv'
<1> DEFINE answer == Elements(Fetched(r, q))
           numbers == {m.seq : m \in answer}
           n == CHOOSE k \in numbers : \A j \in numbers : j <= k
<1>1. /\ TypeOK /\ Held /\ CopiesAlike /\ Latest /\ Climbing /\ Together /\ LastReturned
      /\ Arranged(list) /\ ListWithinCap /\ ListKeepsNewest /\ TableKeepsNewest
      /\ PassedOverByOthers /\ IsFiniteSet(rows)
  BY DEF BacklogInv
<1>2. /\ answer # {} /\ last' = [last EXCEPT ![r][q] = n] /\ seen' = seen \cup answer
      /\ UNCHANGED <<now, adapter, content, history>>
  BY DEF CatchUp
<1>3. answer = {m \in Kept : m.room = r /\ m.to = q /\ m.seq > last[r][q]}
  BY FetchedExact
<1>4. Kept \subseteq stored /\ stored \subseteq Message
  BY <1>1, KeptStored DEF TypeOK
<1>5. /\ last \in [Room -> [Recipient -> 0 .. MaxSeq]] /\ last[r][q] \in Nat
      /\ MaxSeq \in Nat
  <2>1. last \in [Room -> [Recipient -> 0 .. MaxSeq]] /\ MaxSeq \in Nat
    BY <1>1, BacklogAssumption DEF TypeOK
  <2>2. last[r][q] \in 0 .. MaxSeq
    BY <2>1
  <2> QED BY <2>1, <2>2
<1> HIDE DEF answer
<1>6. numbers \in SUBSET (1 .. MaxSeq) /\ numbers # {}
  <2>1. \A m \in answer : m.seq \in 1 .. MaxSeq
    BY <1>3, <1>4, MessageType
  <2> QED BY <1>2, <2>1
<1>7. n \in numbers /\ \A j \in numbers : j <= n
  <2> HIDE DEF numbers
  <2>1. IsFiniteSet(1 .. MaxSeq) /\ numbers \in SUBSET Nat
    BY <1>5, <1>6, FS_Interval
  <2>2. IsFiniteSet(numbers)
    BY <1>6, <2>1, FS_Subset
  <2>3. \E k \in numbers : \A j \in numbers : j <= k
    BY <1>6, <2>1, <2>2, Extremes
  <2> QED BY <2>3
<1>8. PICK top \in answer : top.seq = n
  BY <1>7
<1>9. n \in 1 .. MaxSeq /\ \A m \in answer : m.seq <= n
  BY <1>6, <1>7
<1> HIDE DEF n, numbers
<1>10. /\ last' \in [Room -> [Recipient -> 0 .. MaxSeq]] /\ last'[r][q] = n
       /\ \A s \in Room, p \in Recipient : s # r \/ p # q => last'[s][p] = last[s][p]
  <2>1. last' = [last EXCEPT ![r] = [last[r] EXCEPT ![q] = n]]
    BY <1>2
  <2>2. n \in 0 .. MaxSeq
    BY <1>9
  <2>3. [last[r] EXCEPT ![q] = n] \in [Recipient -> 0 .. MaxSeq]
    BY <1>5, <2>2
  <2>4. last' \in [Room -> [Recipient -> 0 .. MaxSeq]]
    BY <1>5, <2>1, <2>3
  <2>5. last'[r] = [last[r] EXCEPT ![q] = n] /\ \A s \in Room : s # r => last'[s] = last[s]
    BY <1>5, <2>1
  <2>6. last[r] \in [Recipient -> 0 .. MaxSeq]
    BY <1>5
  <2>7. last'[r][q] = n /\ \A p \in Recipient : p # q => last'[r][p] = last[r][p]
    BY <2>5, <2>6
  <2> QED BY <2>4, <2>5, <2>7
<1>11. /\ rows' = rows /\ list' = list /\ stored' = stored /\ arrived' = arrived
       /\ run' = run /\ number' = number /\ Kept' = Kept /\ Past' = Past
       /\ adapter' = adapter /\ now' = now /\ rooms' = rooms
  <2>1. /\ rows' = rows /\ list' = list /\ stored' = stored /\ arrived' = arrived
        /\ run' = run /\ number' = number /\ adapter' = adapter /\ now' = now
        /\ rooms' = rooms
    BY <1>2 DEF content, history
  <2>2. Past' = Past
    BY <1>2, <1>3, <1>4, <2>1 DEF Past
  <2> QED BY <2>1, <2>2 DEF Kept
<1>12. TypeOK'
  BY <1>1, <1>2, <1>3, <1>4, <1>10, <1>11 DEF TypeOK
<1>13. /\ Held' /\ CopiesAlike' /\ Latest' /\ Climbing' /\ Arranged(list') /\ IsFiniteSet(rows')
       /\ ListWithinCap' /\ ListKeepsNewest' /\ TableKeepsNewest'
  BY <1>1, <1>11 DEF Held, CopiesAlike, Latest, Climbing, ListWithinCap, ListKeepsNewest,
                     TableKeepsNewest, OneRun, Alike
<1>14. Together'
  BY <1>1, <1>2, <1>3, <1>4, <1>11 DEF Together
<1>15. LastReturned'
  <2> SUFFICES ASSUME NEW s \in Room, NEW p \in Recipient, last'[s][p] > 0
               PROVE  \E o \in seen' : o.room = s /\ o.to = p /\ o.seq = last'[s][p]
    BY DEF LastReturned
  <2>1. CASE s = r /\ p = q
    BY <1>2, <1>3, <1>8, <1>10, <2>1
  <2>2. CASE s # r \/ p # q
    BY <1>1, <1>2, <1>10, <2>2 DEF LastReturned
  <2> QED BY <2>1, <2>2
<1>16. PassedOver' \subseteq PassedOver
  <2> SUFFICES ASSUME NEW m \in PassedOver' PROVE m \in PassedOver
    OBVIOUS
  <2>1. m \in Kept /\ m.seq <= last'[m.room][m.to] /\ m \notin seen /\ m \notin answer
    BY <1>2, <1>11 DEF PassedOver
  <2>2. m.room \in Room /\ m.to \in Recipient /\ m.seq \in Nat
    BY <1>4, <2>1, MessageType
  <2>3. CASE m.room = r /\ m.to = q
    <3>1. ~ (m.seq > last[r][q])
      BY <1>3, <2>1, <2>3
    <3>2. m.seq <= last[r][q]
      BY <1>5, <2>2, <3>1
    <3> QED BY <2>1, <2>3, <3>2 DEF PassedOver
  <2>4. CASE m.room # r \/ m.to # q
    BY <1>10, <2>1, <2>2, <2>4 DEF PassedOver
  <2> QED BY <2>3, <2>4
<1>17. PassedOverByOthers'
  BY <1>1, <1>2, <1>16 DEF PassedOverByOthers, OneRun
<1> QED BY <1>12, <1>13, <1>14, <1>15, <1>17 DEF BacklogInv

\* Every step keeps the invariant.
LEMMA BacklogStep == BacklogInv /\ [Next]_vars => BacklogInv'
<1>1. ASSUME BacklogInv, Next PROVE BacklogInv'
  BY <1>1, StillInv, PurgeExpiredInv, ReopenInv, PurgeExcessInv, DeleteRoomInv,
     StoreCopyInv, StoreMessageInv, CatchUpInv DEF Next
<1>2. ASSUME BacklogInv, UNCHANGED vars PROVE BacklogInv'
  <2>1. /\ UNCHANGED <<now, adapter, rooms, list, rows, last, number, run>>
        /\ UNCHANGED <<arrived, stored, seen>>
    BY <1>2 DEF vars, content, history
  <2>2. Past' = Past /\ Kept' = Kept /\ PassedOver' = PassedOver
    BY <2>1 DEF Past, Kept, PassedOver
  <2>3. TypeOK' /\ IsFiniteSet(rows') /\ Held' /\ Arranged(list') /\ CopiesAlike' /\ Latest'
    BY <1>2, <2>1, <2>2 DEF BacklogInv, TypeOK, Held, CopiesAlike, Latest, Alike
  <2>4. Climbing' /\ Together' /\ LastReturned' /\ ListWithinCap'
    BY <1>2, <2>1, <2>2 DEF BacklogInv, Climbing, Together, LastReturned, ListWithinCap, OneRun
  <2>5. ListKeepsNewest' /\ TableKeepsNewest' /\ PassedOverByOthers'
    BY <1>2, <2>1, <2>2
       DEF BacklogInv, ListKeepsNewest, TableKeepsNewest, PassedOverByOthers, OneRun
  <2> QED BY <2>3, <2>4, <2>5 DEF BacklogInv
<1> QED BY <1>1, <1>2
-----------------------------------------------------------------------------
(* Theorems *)

\* The invariant holds in every reachable state.
THEOREM BacklogInvariant == Spec => []BacklogInv
BY BacklogInit, BacklogStep, PTL DEF Spec

\* Every variable of the backlog stays in its type.
THEOREM BacklogTypeCorrect == Spec => []TypeOK
<1>1. BacklogInv => TypeOK
  BY DEF BacklogInv
<1> QED BY <1>1, BacklogInvariant, PTL

\* The list keeps the limit of every room, one message where the limit is 0
\* (store_message of storage_memory.rs).
THEOREM ListAlwaysWithinCap == Spec => []ListWithinCap
<1>1. BacklogInv => ListWithinCap
  BY DEF BacklogInv
<1> QED BY <1>1, BacklogInvariant, PTL

\* What has gone from the list is older than all it has of the same room.
THEOREM ListAlwaysKeepsNewest == Spec => []ListKeepsNewest
<1>1. BacklogInv => ListKeepsNewest
  BY DEF BacklogInv
<1> QED BY <1>1, BacklogInvariant, PTL

\* What has gone from the table is older than all it has of the same room and run.
THEOREM TableAlwaysKeepsNewest == Spec => []TableKeepsNewest
<1>1. BacklogInv => TableKeepsNewest
  BY DEF BacklogInv
<1> QED BY <1>1, BacklogInvariant, PTL

\* The messages of one run never hide each other from a catch-up, whichever
\* adapter it asks.
THEOREM OneRunNeverHides == Spec => []PassedOverByOthers
<1>1. BacklogInv => PassedOverByOthers
  BY DEF BacklogInv
<1> QED BY <1>1, BacklogInvariant, PTL

\* Both adapters return the messages of one run in the same order.
THEOREM AdaptersAlwaysAgree == Spec => []AdaptersAgree
<1>1. BacklogInv => AdaptersAgree
  <2> SUFFICES ASSUME BacklogInv, NEW r \in Room, NEW q \in Recipient,
                      NEW m, NEW o,
                      m \in Elements(MemoryFetch(list, r, q, 0)),
                      m \in Elements(SqliteFetch(rows, r, q, 0)),
                      o \in Elements(MemoryFetch(list, r, q, 0)),
                      o \in Elements(SqliteFetch(rows, r, q, 0)),
                      OneRun(m, o), Before(MemoryFetch(list, r, q, 0), m, o)
               PROVE  Before(SqliteFetch(rows, r, q, 0), m, o)
    BY DEF AdaptersAgree
  <2> DEFINE f == MemoryFetch(list, r, q, 0)
             g == SqliteFetch(rows, r, q, 0)
  <2>1. /\ list \in Seq(Message) /\ Arranged(list) /\ rows \in SUBSET Message
        /\ IsFiniteSet(rows) /\ rows \subseteq stored
        /\ \A x, y \in rows : x.env = y.env => Alike(x, y)
        /\ Climbing
    BY DEF BacklogInv, TypeOK, Held, CopiesAlike, Past
  <2>2. f \in Seq(Message) /\ Arranged(f)
    <3>1. f \in Seq(Message) /\ Within(f, list)
      BY <2>1, MemoryFetchExact
    <3> HIDE DEF f
    <3> QED BY <2>1, <3>1, WithinArranged
  <2>3. /\ DOMAIN g \subseteq Nat
        /\ Elements(g) = {x \in rows : x.room = r /\ x.to = q /\ x.seq > 0}
        /\ \A i, j \in DOMAIN g : i < j <=> Listed(g[i], g[j])
    BY <2>1, SqliteFetchExact
  <2>4. m \in Elements(g) /\ o \in Elements(g) /\ Before(f, m, o)
    OBVIOUS
  <2> HIDE DEF f, g
  <2>5. m.env <= o.env /\ m # o
    <3>1. PICK i, j \in DOMAIN f : i < j /\ f[i] = m /\ f[j] = o
      BY <2>4 DEF Before
    <3>2. i \in 1 .. Len(f) /\ j \in 1 .. Len(f)
      BY <2>2, <3>1
    <3> QED BY <2>2, <3>1, <3>2 DEF Arranged
  <2>6. m \in rows /\ o \in rows /\ m.to = o.to /\ m \in Message /\ o \in Message
    BY <2>1, <2>3, <2>4
  <2>7. m.env # o.env
    BY <2>1, <2>5, <2>6, MessageType
  <2>8. m.seq < o.seq
    <3>1. m.env \in Nat /\ o.env \in Nat /\ m.seq \in Nat /\ o.seq \in Nat
      BY <2>6, MessageType
    <3>2. o.env > m.env /\ m \in Past /\ o \in Past
      BY <2>1, <2>5, <2>6, <2>7, <3>1 DEF Past
    <3>3. o.seq > m.seq
      BY <2>1, <3>2 DEF Climbing
    <3> QED BY <3>1, <3>3
  <2>9. PICK i, j \in DOMAIN g : g[i] = m /\ g[j] = o
    BY <2>4 DEF Elements
  <2>10. i < j
    BY <2>3, <2>8, <2>9 DEF Listed
  <2>11. Before(g, m, o)
    BY <2>9, <2>10 DEF Before
  <2> QED BY <2>11 DEF g
<1> QED BY <1>1, BacklogInvariant, PTL
=============================================================================

----------------------------- MODULE RoomProofs -----------------------------
(***************************************************************************)
(* Proofs about Room, for any set of fingerprints and any limits: the      *)
(* variables keep their types, the active members stay within the limit,   *)
(* the owner stays, and revocation is final.                               *)
(***************************************************************************)
EXTENDS Room, FiniteSetTheorems, SequenceTheorems, TLAPS

\* What the specification says of one room; the room in service and the stored
\* one both satisfy it, so a load preserves it.
Owns(r) == /\ r.members # <<>>
           /\ r.members[1].role = "Owner"
           /\ r.members[1].status = "Active"

Sound(r) == r # None => /\ ActiveCount(r) <= r.max
                        /\ Owns(r)

\* Rooms are numbered in the order of their creation.
Numbered(r) == r # None => r.id <= made

RoomInv == /\ TypeOK
           /\ Sound(room) /\ Sound(stored)
           /\ Numbered(room) /\ Numbered(stored)
-----------------------------------------------------------------------------
(* The operators on a room. *)

\* Clamping yields a limit between the two ends, and at least one.
LEMMA ClampInRange == \A m \in Nat : Clamp(m) \in MinRoom .. MaxRoom /\ Clamp(m) >= 1
BY RoomAssumption DEF Clamp

\* The active entries of a room are finitely many.
LEMMA ActiveFinite ==
    ASSUME NEW r \in RoomState
    PROVE  IsFiniteSet(ActiveEntries(r)) /\ ActiveCount(r) \in Nat
<1>1. r.members \in Seq(Member)
  BY DEF RoomState
<1>2. Entries(r) = 1 .. Len(r.members) /\ Len(r.members) \in Nat
  BY <1>1 DEF Entries
<1>3. IsFiniteSet(1 .. Len(r.members))
  BY <1>2, FS_Interval
<1>4. ActiveEntries(r) \in SUBSET (1 .. Len(r.members))
  BY <1>2 DEF ActiveEntries
<1>5. IsFiniteSet(ActiveEntries(r))
  BY <1>3, <1>4, FS_Subset
<1> QED
  BY <1>5, FS_CardinalityType DEF ActiveCount

\* A room just created is well typed, within its limit and owned.
LEMMA CreatedSound ==
    ASSUME NEW f \in Fp, NEW m \in Nat, NEW n \in 1 .. MaxRooms,
           NEW r, r = [id |-> n, max |-> Clamp(m),
                       members |-> <<NewMember(f, "Owner")>>]
    PROVE  r \in RoomState /\ Sound(r)
<1>1. NewMember(f, "Owner") \in Member
  BY DEF NewMember, Member, Roles
<1>2. r \in RoomState
  BY <1>1, ClampInRange DEF RoomState
<1>3. ActiveEntries(r) = {1}
  BY DEF ActiveEntries, Entries, NewMember
<1>4. ActiveCount(r) = 1
  BY <1>3, FS_Singleton DEF ActiveCount
<1>5. r.max >= 1 /\ r.max \in Nat
  BY ClampInRange, RoomAssumption
<1>6. Owns(r)
  BY DEF Owns, NewMember
<1> QED
  BY <1>2, <1>4, <1>5, <1>6 DEF Sound

\* An addition puts one active entry behind those there are.
LEMMA AddedEntries ==
    ASSUME NEW r \in RoomState, NEW f \in Fp, NEW role \in Roles
    PROVE  /\ Added(r, f, role) \in RoomState
           /\ Added(r, f, role).id = r.id /\ Added(r, f, role).max = r.max
           /\ Len(r.members) \in Nat /\ Entries(r) = 1 .. Len(r.members)
           /\ Entries(Added(r, f, role)) = Entries(r) \cup {Len(r.members) + 1}
           /\ \A i \in Entries(r) : Added(r, f, role).members[i] = r.members[i]
           /\ Added(r, f, role).members[Len(r.members) + 1] = NewMember(f, role)
<1> DEFINE list == Append(r.members, NewMember(f, role))
<1>1. r.members \in Seq(Member)
  BY DEF RoomState
<1>2. NewMember(f, role) \in Member
  BY DEF NewMember, Member
<1>3. /\ list \in Seq(Member)
      /\ DOMAIN list = (DOMAIN r.members) \cup {Len(r.members) + 1}
      /\ \A i \in DOMAIN r.members : list[i] = r.members[i]
      /\ list[Len(r.members) + 1] = NewMember(f, role)
      /\ Len(r.members) \in Nat /\ DOMAIN r.members = 1 .. Len(r.members)
  BY <1>1, <1>2
<1> HIDE DEF list
<1>4. Added(r, f, role) = [r EXCEPT !.members = list]
  BY DEF Added, list
<1>5. /\ Added(r, f, role).members = list
      /\ Added(r, f, role).id = r.id /\ Added(r, f, role).max = r.max
      /\ Added(r, f, role) \in RoomState
  BY <1>3, <1>4 DEF RoomState
<1> QED
  BY <1>3, <1>5 DEF Entries

\* Adding a member to a room that is not full keeps it sound.
LEMMA AddedSound ==
    ASSUME NEW r \in RoomState, NEW f \in Fp, NEW role \in Roles,
           r # None, Sound(r), ~ IsFull(r)
    PROVE  Added(r, f, role) \in RoomState /\ Sound(Added(r, f, role))
<1> DEFINE a == Added(r, f, role)
<1>1. a \in RoomState /\ a.max = r.max /\ r.max \in Nat
  BY AddedEntries, RoomAssumption DEF RoomState
<1>2. ActiveEntries(a) = ActiveEntries(r) \cup {Len(r.members) + 1}
  <2>1. /\ Entries(a) = Entries(r) \cup {Len(r.members) + 1}
        /\ \A i \in Entries(r) : a.members[i] = r.members[i]
    BY AddedEntries
  <2>2. a.members[Len(r.members) + 1].status = "Active"
    <3>1. a.members[Len(r.members) + 1] = NewMember(f, role)
      BY AddedEntries
    <3> QED
      BY <3>1 DEF NewMember
  <2> HIDE DEF a
  <2> QED
    BY <2>1, <2>2 DEF ActiveEntries
<1>3. ActiveCount(a) <= ActiveCount(r) + 1
  <2>1. IsFiniteSet(ActiveEntries(r)) /\ Cardinality(ActiveEntries(r)) \in Nat
    BY ActiveFinite DEF ActiveCount
  <2>2. Cardinality(ActiveEntries(r) \cup {Len(r.members) + 1}) =
           IF Len(r.members) + 1 \in ActiveEntries(r)
           THEN Cardinality(ActiveEntries(r)) ELSE Cardinality(ActiveEntries(r)) + 1
    BY <2>1, FS_AddElement
  <2> QED
    BY <1>2, <2>1, <2>2 DEF ActiveCount
<1>4. ActiveCount(r) < r.max
  BY <1>1, ActiveFinite DEF IsFull
<1>5. ActiveCount(a) <= a.max
  BY <1>1, <1>3, <1>4, ActiveFinite
<1>6. Owns(a)
  <2>1. 1 \in Entries(r)
    BY r.members \in Seq(Member), AddedEntries DEF Sound, Owns, RoomState
  <2>2. 1 \in Entries(a) /\ a.members[1] = r.members[1]
    BY <2>1, AddedEntries
  <2>3. a.members # <<>>
    BY <2>2 DEF Entries
  <2> QED
    BY <2>2, <2>3 DEF Sound, Owns
<1> QED
  BY <1>1, <1>5, <1>6 DEF Sound

\* A revocation keeps every entry in place, with its fingerprint and role, and
\* activates none.
LEMMA RevokedEntries ==
    ASSUME NEW r \in RoomState, NEW f \in Fp
    PROVE  /\ Revoked(r, f) \in RoomState
           /\ Revoked(r, f).id = r.id /\ Revoked(r, f).max = r.max
           /\ Entries(Revoked(r, f)) = Entries(r)
           /\ \A i \in Entries(r) :
                 /\ Revoked(r, f).members[i].fp = r.members[i].fp
                 /\ Revoked(r, f).members[i].role = r.members[i].role
                 /\ Revoked(r, f).members[i].status =
                      IF i \in Find(r, f) THEN "Revoked" ELSE r.members[i].status
<1> DEFINE list == [i \in DOMAIN r.members |->
                      IF i \in Find(r, f)
                      THEN [r.members[i] EXCEPT !.status = "Revoked"]
                      ELSE r.members[i]]
<1>1. r.members \in Seq(Member)
  BY DEF RoomState
<1>2. \A i \in DOMAIN r.members : r.members[i] \in Member
  BY <1>1
<1>3. \A i \in DOMAIN r.members : list[i] \in Member
  BY <1>2 DEF Member
<1>4. list \in Seq(Member)
  <2>1. Len(r.members) \in Nat /\ DOMAIN r.members = 1 .. Len(r.members)
    BY <1>1
  <2>2. list \in [1 .. Len(r.members) -> Member]
    BY <1>3, <2>1
  <2> QED
    BY <2>1, <2>2, SeqDef
<1>5. Revoked(r, f) = [r EXCEPT !.members = list]
  BY DEF Revoked
<1>6. /\ Revoked(r, f).members = list
      /\ Revoked(r, f).id = r.id /\ Revoked(r, f).max = r.max
      /\ Revoked(r, f) \in RoomState
  BY <1>4, <1>5 DEF RoomState
<1> HIDE DEF list
<1>7. DOMAIN list = DOMAIN r.members
  BY DEF list
<1>8. \A i \in DOMAIN r.members :
         /\ list[i].fp = r.members[i].fp
         /\ list[i].role = r.members[i].role
         /\ list[i].status =
              IF i \in Find(r, f) THEN "Revoked" ELSE r.members[i].status
  BY <1>2 DEF list, Member
<1> QED
  BY <1>6, <1>7, <1>8 DEF Entries

\* What a look-up finds among the first n entries depends on their fingerprints.
LEMMA FindSame ==
    ASSUME NEW r, NEW v, NEW f, NEW n \in Nat,
           1 .. n \subseteq Entries(r), 1 .. n \subseteq Entries(v),
           \A i \in 1 .. n : v.members[i].fp = r.members[i].fp
    PROVE  \A i \in 1 .. n : i \in Find(v, f) <=> i \in Find(r, f)
<1> TAKE i \in 1 .. n
<1>1. \A j \in 1 .. i - 1 : j \in 1 .. n
  OBVIOUS
<1>2. (\A j \in 1 .. i - 1 : v.members[j].fp # f)
        <=> (\A j \in 1 .. i - 1 : r.members[j].fp # f)
  BY <1>1
<1> QED
  BY <1>2 DEF Find

\* Revoking anybody but an owner keeps the room sound.
LEMMA RevokedSound ==
    ASSUME NEW r \in RoomState, NEW f \in Fp, r # None, Sound(r), MayRevoke(r, f)
    PROVE  Revoked(r, f) \in RoomState /\ Sound(Revoked(r, f))
<1> DEFINE v == Revoked(r, f)
<1>1. /\ v \in RoomState /\ v.max = r.max /\ v.max \in Nat
      /\ Entries(v) = Entries(r)
  BY RevokedEntries, RoomAssumption DEF RoomState
<1>2. ActiveEntries(v) \in SUBSET ActiveEntries(r)
  BY RevokedEntries DEF ActiveEntries
<1>3. ActiveCount(v) <= ActiveCount(r)
  BY <1>2, ActiveFinite, FS_Subset DEF ActiveCount
<1>4. ActiveCount(v) <= v.max
  BY <1>1, <1>3, ActiveFinite DEF Sound
<1>5. 1 \notin Find(r, f)
  <2>1. \A i, j \in Find(r, f) : i = j
    BY r.members \in Seq(Member), DOMAIN r.members = 1 .. Len(r.members),
       Len(r.members) \in Nat DEF Find, Entries, RoomState
  <2> QED
    BY <2>1 DEF MayRevoke, Sound, Owns
<1>6. 1 \in Entries(r)
  BY r.members \in Seq(Member) DEF Sound, Owns, Entries, RoomState
<1>7. Owns(v)
  <2>1. v.members[1].role = "Owner" /\ v.members[1].status = "Active"
    BY <1>5, <1>6, RevokedEntries DEF Sound, Owns
  <2>2. v.members # <<>>
    BY <1>1, <1>6, v.members \in Seq(Member) DEF Entries, RoomState
  <2> QED
    BY <2>1, <2>2 DEF Owns
<1> QED
  BY <1>1, <1>4, <1>7 DEF Sound
-----------------------------------------------------------------------------
(* The inductive invariant. *)

\* The initial state satisfies the invariant.
LEMMA InitRoomInv == Init => RoomInv
BY RoomAssumption DEF Init, RoomInv, TypeOK, Sound, Numbered

\* Every operation of RoomService preserves it.
LEMMA NextRoomInv == RoomInv /\ [Next]_vars => RoomInv'
<1> SUFFICES ASSUME RoomInv, [Next]_vars PROVE RoomInv'
  OBVIOUS
<1> USE DEF RoomInv
<1>0. room # None => room \in RoomState
  BY DEF TypeOK
<1>1. ASSUME NEW f \in Fp, NEW m \in Requested, CreateRoom(f, m) PROVE RoomInv'
  <2>1. made' \in 1 .. MaxRooms /\ m \in Nat
    BY <1>1, RoomAssumption DEF CreateRoom, TypeOK
  <2>2. room' \in RoomState /\ Sound(room')
    BY <1>1, <2>1, CreatedSound DEF CreateRoom
  <2>3. stored' \in RoomState \cup {None} /\ Sound(stored')
    BY <1>1 DEF CreateRoom, TypeOK
  <2>4. Numbered(stored)' /\ Numbered(room)'
    BY <1>1, RoomAssumption DEF CreateRoom, TypeOK, RoomState, Numbered
  <2> QED
    BY <1>1, <2>1, <2>2, <2>3, <2>4 DEF CreateRoom, TypeOK, Sound, ActiveCount, ActiveEntries, Entries, Owns, Numbered
<1>2. ASSUME NEW c \in Fp, NEW f \in Fp, NEW role \in Roles,
             AddMember(c, f, role)
      PROVE  RoomInv'
  <2>1. room' \in RoomState /\ Sound(room') /\ room'.id = room.id
    BY <1>0, <1>2, AddedSound, AddedEntries DEF AddMember, MayAdd
  <2> QED
    BY <1>2, <2>1 DEF AddMember, TypeOK, Sound, ActiveCount, ActiveEntries, Entries, Owns, Numbered
<1>3. ASSUME NEW c \in Fp, NEW f \in Fp, RevokeMember(c, f) PROVE RoomInv'
  <2>1. room' \in RoomState /\ Sound(room') /\ room'.id = room.id
    BY <1>0, <1>3, RevokedSound, RevokedEntries DEF RevokeMember
  <2> QED
    BY <1>3, <2>1 DEF RevokeMember, TypeOK, Sound, ActiveCount, ActiveEntries, Entries, Owns, Numbered
<1>4. CASE StoreRoom
  BY <1>4 DEF StoreRoom, TypeOK, Sound, ActiveCount, ActiveEntries, Entries, Owns, Numbered
<1>5. CASE LoadRoom
  BY <1>5 DEF LoadRoom, TypeOK, Sound, ActiveCount, ActiveEntries, Entries, Owns, Numbered
<1>6. CASE UNCHANGED vars
  BY <1>6 DEF vars, TypeOK, Sound, ActiveCount, ActiveEntries, Entries, Owns, Numbered
<1> QED
  BY <1>1, <1>2, <1>3, <1>4, <1>5, <1>6 DEF Next

\* The invariant holds in every reachable state.
THEOREM RoomInvariant == Spec => []RoomInv
BY InitRoomInv, NextRoomInv, PTL DEF Spec

\* Every variable of Room keeps its type.
THEOREM RoomTypeCorrect == Spec => []TypeOK
<1>1. RoomInv => TypeOK
  BY DEF RoomInv
<1> QED
  BY <1>1, RoomInvariant, PTL

\* However members are added, revoked, stored and loaded, the active members of
\* a room never exceed its limit.
THEOREM LimitHolds == Spec => []ActiveWithinLimit
<1>1. RoomInv => ActiveWithinLimit
  BY DEF RoomInv, Sound, ActiveWithinLimit, WithinLimit
<1> QED
  BY <1>1, RoomInvariant, PTL

\* The member a room was created with is an active owner for ever.
THEOREM OwnerAlwaysStays == Spec => []OwnerStays
<1>1. RoomInv => OwnerStays
  <2> SUFFICES ASSUME RoomInv, room # None
               PROVE  \E i \in Find(room, room.members[1].fp) :
                        /\ room.members[i].role = "Owner"
                        /\ room.members[i].status = "Active"
    BY DEF OwnerStays, Owned
  <2>1. room.members \in Seq(Member) /\ Owns(room)
    BY DEF RoomInv, TypeOK, RoomState, Sound
  <2>2. 1 \in Find(room, room.members[1].fp)
    BY <2>1 DEF Find, Entries, Owns
  <2> QED
    BY <2>1, <2>2 DEF Owns
<1> QED
  BY <1>1, RoomInvariant, PTL

\* Once revoked, a fingerprint is not authorized in that room again: adding it
\* anew puts its new entry behind the revoked one.
THEOREM RevocationAlwaysFinal == Spec => RevocationIsFinal
<1>1. ASSUME RoomInv, [Next]_vars, NEW f \in Fp,
             room # None, \E i \in Entries(room) : room.members[i].fp = f,
             ~ IsAuthorized(room, f),
             room'.id = room.id, room' # stored
      PROVE  ~ IsAuthorized(room, f)'
  <2>0. /\ room \in RoomState /\ room.members \in Seq(Member)
        /\ made \in Nat /\ room.id \in Nat /\ room.id <= made
    BY <1>1, RoomAssumption DEF RoomInv, TypeOK, RoomState, Numbered
  <2>1. ASSUME NEW g \in Fp, NEW m \in Requested, CreateRoom(g, m) PROVE FALSE
    <3>1. room'.id = made + 1
      BY <2>1 DEF CreateRoom
    <3> QED
      BY <1>1, <2>0, <3>1
  <2>2. ASSUME NEW c \in Fp, NEW g \in Fp, NEW role \in Roles,
               AddMember(c, g, role)
        PROVE  ~ IsAuthorized(room, f)'
    <3>1. room' = Added(room, g, role)
      BY <2>2 DEF AddMember
    <3>2. PICK j \in Entries(room) : room.members[j].fp = f
      BY <1>1
    <3>3. /\ Len(room.members) \in Nat /\ Entries(room) = 1 .. Len(room.members)
          /\ Entries(room') = Entries(room) \cup {Len(room.members) + 1}
          /\ \A i \in Entries(room) : room'.members[i] = room.members[i]
      BY <2>0, <3>1, AddedEntries
    <3>4. Len(room.members) + 1 \notin Find(room', f)
      BY <3>2, <3>3 DEF Find
    <3>5. \A i \in Entries(room) : i \in Find(room', f) <=> i \in Find(room, f)
      BY <3>3, FindSame
    <3>6. \A i \in Find(room', f) : /\ i \in Find(room, f)
                                    /\ room'.members[i] = room.members[i]
      <4> TAKE i \in Find(room', f)
      <4>1. i \in Entries(room)
        BY <3>3, <3>4 DEF Find
      <4> QED
        BY <3>3, <3>5, <4>1
    <3> QED
      BY <1>1, <3>6 DEF IsAuthorized
  <2>3. ASSUME NEW c \in Fp, NEW g \in Fp, RevokeMember(c, g)
        PROVE  ~ IsAuthorized(room, f)'
    <3>1. room' = Revoked(room, g)
      BY <2>3 DEF RevokeMember
    <3>2. /\ Entries(room) = 1 .. Len(room.members) /\ Len(room.members) \in Nat
          /\ Entries(room') = Entries(room)
          /\ \A i \in Entries(room) :
                /\ room'.members[i].fp = room.members[i].fp
                /\ room'.members[i].status =
                     IF i \in Find(room, g) THEN "Revoked" ELSE room.members[i].status
      BY <2>0, <3>1, RevokedEntries DEF Entries
    <3>3. \A i \in Entries(room) : i \in Find(room', f) <=> i \in Find(room, f)
      BY <3>2, FindSame
    <3>4. \A i \in Find(room', f) : i \in Entries(room) /\ i \in Find(room, f)
      BY <3>2, <3>3 DEF Find
    <3>5. \A i \in Find(room, f) : room.members[i].status # "Active"
      BY <1>1 DEF IsAuthorized
    <3> QED
      BY <3>2, <3>4, <3>5 DEF IsAuthorized
  <2>4. CASE StoreRoom
    BY <1>1, <2>4 DEF StoreRoom, IsAuthorized, Find, Entries
  <2>5. CASE LoadRoom
    BY <1>1, <2>5 DEF LoadRoom
  <2>6. CASE UNCHANGED vars
    BY <1>1, <2>6 DEF vars, IsAuthorized, Find, Entries
  <2> QED
    BY <1>1, <2>1, <2>2, <2>3, <2>4, <2>5, <2>6 DEF Next
<1>2. RoomInv /\ [Next]_vars =>
        [\A f \in Fp :
           /\ room # None
           /\ \E i \in Entries(room) : room.members[i].fp = f
           /\ ~ IsAuthorized(room, f)
           /\ room'.id = room.id /\ room' # stored
           => ~ IsAuthorized(room, f)']_vars
  BY <1>1
<1> QED
  BY <1>2, RoomInvariant, PTL DEF Spec, RevocationIsFinal
=============================================================================

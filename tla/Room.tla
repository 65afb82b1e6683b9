-------------------------------- MODULE Room --------------------------------
(***************************************************************************)
(* Membership of a room: the Room entity of sanctum-domain                 *)
(* (entities/room.rs, entities/member.rs) driven by RoomService of         *)
(* sanctum-app.  The list of members only grows: a revoked member keeps    *)
(* its entry, and every look-up finds the first entry of a fingerprint.    *)
(***************************************************************************)
EXTENDS Naturals, Sequences, FiniteSets

CONSTANTS Fp,          \* fingerprints
          Requested,   \* values of max_members a room is asked for
          MinRoom,     \* least max_members after clamping: 2
          MaxRoom,     \* greatest one: 50
          None,        \* no room loaded yet, nothing stored
          MaxEntries,  \* bound: entries of the list of members
          MaxRooms     \* bound: rooms created

ASSUME RoomAssumption == /\ MinRoom \in Nat \ {0}
                         /\ MaxRoom \in Nat
                         /\ MinRoom <= MaxRoom
                         /\ Requested \subseteq Nat
                         /\ {MaxEntries, MaxRooms} \subseteq Nat

VARIABLES room,     \* RoomService.room
          stored,   \* the room last handed to the storage adapter
          made      \* rooms created so far; the id of the latest one

vars == <<room, stored, made>>

Roles == {"Member", "Admin", "Owner"}
Member == [fp : Fp, role : Roles, status : {"Active", "Revoked"}]
RoomState == [id : 1 .. MaxRooms, max : MinRoom .. MaxRoom, members : Seq(Member)]

NewMember(f, role) == [fp |-> f, role |-> role, status |-> "Active"]
CanManage(role) == role \in {"Owner", "Admin"}   \* can_invite and can_kick

\* Variant of Clamp: the lower limit is not applied.
ClampAbove(m) == IF m > MaxRoom THEN MaxRoom ELSE m

Clamp(m) == IF m < MinRoom THEN MinRoom ELSE IF m > MaxRoom THEN MaxRoom ELSE m

Entries(r) == DOMAIN r.members
ActiveEntries(r) == {i \in Entries(r) : r.members[i].status = "Active"}
ActiveCount(r) == Cardinality(ActiveEntries(r))

\* Variant of IsFull: one entry past the limit.
IsFullLate(r) == ActiveCount(r) > r.max

IsFull(r) == ActiveCount(r) >= r.max

\* Variant of Find: the last entry of f that is active, else any.
FindActive(r, f) ==
    {i \in Entries(r) : /\ r.members[i].fp = f
                        /\ r.members[i].status = "Active"}

\* find_member: the index of the first entry of f, if there is one.
Find(r, f) == {i \in Entries(r) : /\ r.members[i].fp = f
                                  /\ \A j \in 1 .. i - 1 : r.members[j].fp # f}

IsAuthorized(r, f) == \E i \in Find(r, f) : r.members[i].status = "Active"

\* Room::add_member and Room::revoke_member: may they go through?
MayAdd(r, f) == ~ IsFull(r) /\ ~ IsAuthorized(r, f)

\* Variant of MayRevoke: the owner is no exception.
MayRevokeAnyone(r, f) == Find(r, f) # {}

MayRevoke(r, f) == \E i \in Find(r, f) : r.members[i].role # "Owner"

Added(r, f, role) == [r EXCEPT !.members = Append(@, NewMember(f, role))]

Revoked(r, f) ==
    [r EXCEPT !.members = [i \in DOMAIN @ |->
        IF i \in Find(r, f) THEN [@[i] EXCEPT !.status = "Revoked"] ELSE @[i]]]

\* RoomService asks only for the role of the caller's entry.
Permitted(r, caller) == \E i \in Find(r, caller) : CanManage(r.members[i].role)
-----------------------------------------------------------------------------
Init == room = None /\ stored = None /\ made = 0

CreateRoom(owner, max) ==
    /\ made < MaxRooms
    /\ made' = made + 1
    /\ room' = [id |-> made', max |-> Clamp(max),
                members |-> <<NewMember(owner, "Owner")>>]
    /\ UNCHANGED stored

\* A call that returns an error changes nothing: it is a stutter.
AddMember(caller, f, role) ==
    /\ room # None
    /\ Len(room.members) < MaxEntries
    /\ Permitted(room, caller) /\ MayAdd(room, f)
    /\ room' = Added(room, f, role)
    /\ UNCHANGED <<stored, made>>

RevokeMember(caller, f) ==
    /\ room # None
    /\ Permitted(room, caller) /\ MayRevoke(room, f)
    /\ room' = Revoked(room, f)
    /\ UNCHANGED <<stored, made>>

\* The storage adapter keeps a copy of the room ...
StoreRoom == /\ room # None
             /\ stored' = room
             /\ UNCHANGED <<room, made>>

\* ... and load_room puts it back, as after a restart.
LoadRoom == /\ stored # None
            /\ room' = stored
            /\ UNCHANGED <<stored, made>>

Next == \/ \E f \in Fp, m \in Requested : CreateRoom(f, m)
        \/ \E c, f \in Fp : \/ RevokeMember(c, f)
                            \/ \E role \in Roles : AddMember(c, f, role)
        \/ StoreRoom \/ LoadRoom

Spec == Init /\ [][Next]_vars
-----------------------------------------------------------------------------
(* Properties *)

\* Every variable stays in its type.
TypeOK == /\ room \in RoomState \cup {None}
          /\ stored \in RoomState \cup {None}
          /\ made \in 0 .. MaxRooms

WithinLimit(r) == r # None => ActiveCount(r) <= r.max

\* No sequence of additions, revocations, stores and loads takes the active
\* members of a room over its limit (room.rs, third invariant of Room).
ActiveWithinLimit == WithinLimit(room)

Owned(r) == r # None => \E i \in Find(r, r.members[1].fp) :
                          /\ r.members[i].role = "Owner"
                          /\ r.members[i].status = "Active"

\* The member a room was created with stays an active owner of it, whoever
\* revokes whom (room.rs, first invariant of Room).
OwnerStays == Owned(room)

\* A fingerprint revoked in a room is not authorized there again, even when it
\* is added again: is_authorized sees the first entry.  Loading the stored room
\* alone can undo a revocation made since.
RevocationIsFinal ==
    [][\A f \in Fp :
          /\ room # None
          /\ \E i \in Entries(room) : room.members[i].fp = f
          /\ ~ IsAuthorized(room, f)
          /\ room'.id = room.id /\ room' # stored
          => ~ IsAuthorized(room, f)']_vars
=============================================================================

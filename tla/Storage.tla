------------------------------ MODULE Storage ------------------------------
(***************************************************************************)
(* The two backlog stores of sanctum-infra as operators on their content:  *)
(* storage_memory.rs keeps a list of messages, storage_sqlite.rs a table.  *)
(* A message records its room, recipient, sender, sequence number, when it *)
(* was stored, and the arrival number `env' of its envelope at the host.   *)
(***************************************************************************)
EXTENDS Naturals, Sequences, FiniteSets

\* The members of S in the order R, a set of pairs: each comes after those that
\* R puts before it.
Ordered(S, R) == [n \in 1 .. Cardinality(S) |->
                    CHOOSE x \in S : Cardinality({y \in S : <<y, x>> \in R}) = n - 1]

Rising(positions) == {e \in positions \X positions : e[1] < e[2]}

\* What is left of a list when only some positions are retained.
Retain(list, positions) ==
    LET at == Ordered(positions, Rising(positions))
    IN  [n \in DOMAIN at |-> list[at[n]]]

(* MemoryStorageAdapter *)

OfRoom(list, room) == {i \in DOMAIN list : list[i].room = room}

\* Variant of Oldest: taken from the other end.
OldestFromEnd(list, room) == {i \in OfRoom(list, room) :
                                \A j \in OfRoom(list, room) : i >= j}

\* Position of the oldest message of a room, if there is one.
Oldest(list, room) == {i \in OfRoom(list, room) :
                         \A j \in OfRoom(list, room) : i <= j}

\* Variant of Overfull: room is made one message too late.
OverfullLate(list, room, cap) == Cardinality(OfRoom(list, room)) > cap

Overfull(list, room, cap) == Cardinality(OfRoom(list, room)) >= cap

\* store_message: at the cap the oldest message of the room makes place.
MemoryStore(list, m, cap) ==
    Append(IF Overfull(list, m.room, cap)
           THEN Retain(list, DOMAIN list \ Oldest(list, m.room)) ELSE list, m)

\* fetch_backlog, in the order of storage.
MemoryFetch(list, room, to, since) ==
    Retain(list, {i \in OfRoom(list, room) : list[i].to = to /\ list[i].seq > since})

MemoryPurge(list, cutoff) == Retain(list, {i \in DOMAIN list : list[i].at >= cutoff})

MemoryDelete(list, room) == Retain(list, DOMAIN list \ OfRoom(list, room))
-----------------------------------------------------------------------------
(* SqliteStorageAdapter *)

\* Variant of Listed: rows are listed from the latest number on.
ListedBackwards(a, b) == a.seq > b.seq \/ (a.seq = b.seq /\ a.env < b.env)

\* ORDER BY sequence_number; equal numbers come in the order of their rows.
Listed(a, b) == a.seq < b.seq \/ (a.seq = b.seq /\ a.env < b.env)

\* Variant of Asked: the number after the one asked for is left out.
AskedAfterNext(m, since) == m.seq > since + 1

Asked(m, since) == m.seq > since

SqliteFetch(rows, room, to, since) ==
    LET answer == {m \in rows : m.room = room /\ m.to = to /\ Asked(m, since)}
    IN  Ordered(answer, {e \in answer \X answer : Listed(e[1], e[2])})

SqlitePurge(rows, cutoff) == {m \in rows : m.at >= cutoff}

InRoom(rows, room) == {m \in rows : m.room = room}

\* Variant of Ranked: the lowest numbers rank first.
RankedUp(a, b) == a.seq <= b.seq

\* ORDER BY sequence_number DESC.
Ranked(a, b) == a.seq >= b.seq

\* What purge_excess may keep of a room: the `limit' rows that rank first, any
\* of those that rank alike.
KeptByExcess(rows, room, limit) ==
    {keep \in SUBSET InRoom(rows, room) :
        /\ Cardinality(keep) = IF Cardinality(InRoom(rows, room)) <= limit
                               THEN Cardinality(InRoom(rows, room)) ELSE limit
        /\ \A a \in keep, b \in InRoom(rows, room) \ keep : Ranked(a, b)}
=============================================================================

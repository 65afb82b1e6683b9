------------------------------ MODULE Backlog ------------------------------
(***************************************************************************)
(* The backlog of a host: both storage adapters side by side, fed with the *)
(* same messages, and recipients that come back and ask one of them for    *)
(* what they have missed since the last number they know.  The host may be *)
(* restarted, and so may the senders, whose chat loops number from one     *)
(* again.  No code of the repository drives the adapters yet; the callers  *)
(* are those of their tests and of the documented catch-up.                *)
(***************************************************************************)
EXTENDS Storage

CONSTANTS Room, Sender, Recipient,
          Cap,      \* max_messages_per_room
          MaxAge,   \* backlog_max_age_hours
          MaxSeq,     \* bound: sequence number of a sender
          MaxArrived, \* bound: envelopes that arrive
          MaxRestarts, \* bound: restarts, all of one sender
          Copied,     \* bound: envelopes with several absent recipients
          Horizon     \* bound: latest time

ASSUME BacklogAssumption ==
    /\ {Cap, MaxAge, MaxSeq, MaxArrived, MaxRestarts, Horizon} \subseteq Nat
    /\ Copied \subseteq 1 .. MaxArrived

VARIABLES now,
          rooms,    \* keys of the rooms table
          list,     \* MemoryStorageAdapter.messages
          rows,     \* rows of the messages table
          adapter,  \* the adapter that the recipients ask
          last,     \* last[r][q]: last number q knows in room r
          number,   \* number of each sender's latest envelope
          run,      \* the run of each sender, which gave it
          arrived,  \* history: envelopes that have arrived
          stored,   \* history: messages stored, but for expired and deleted ones
          seen      \* history: messages returned

content == <<rooms, list, rows>>
history == <<number, run, arrived, stored>>
vars == <<now, adapter, content, last, history, seen>>

Message == [room : Room, to : Recipient, from : Sender, seq : 1 .. MaxSeq,
            run : 0 .. MaxRestarts, at : 0 .. Horizon, env : 1 .. MaxArrived]

Elements(s) == {s[i] : i \in DOMAIN s}

Init == /\ now = 0
        /\ rooms = {} /\ list = <<>> /\ rows = {}
        /\ adapter \in {"memory", "sqlite"}
        /\ last = [r \in Room |-> [q \in Recipient |-> 0]]
        /\ number = [s \in Sender |-> 0] /\ run = [s \in Sender |-> 0] /\ arrived = 0 /\ stored = {}
        /\ seen = {}

Tick == /\ now < Horizon
        /\ now' = now + 1
        /\ UNCHANGED <<adapter, content, last, history, seen>>

StoreRoom(r) == /\ rooms' = rooms \cup {r}
                /\ UNCHANGED <<now, adapter, list, rows, last, history, seen>>

\* The table refuses messages of a room it does not know (its foreign key).
Put(m) == /\ m.room \in rooms
          /\ list' = MemoryStore(list, m, Cap)
          /\ rows' = rows \cup {m}
          /\ stored' = stored \cup {m}
          /\ UNCHANGED <<now, adapter, rooms, last, run, seen>>

\* An envelope of s is stored for q, the first of its absent recipients; the
\* numbers skipped went to nobody absent.
StoreMessage(r, s, q, n) ==
    /\ number[s] < n /\ arrived < MaxArrived
    /\ number' = [number EXCEPT ![s] = n]
    /\ arrived' = arrived + 1
    /\ Put([room |-> r, to |-> q, from |-> s, seq |-> n, run |-> run[s], at |-> now,
            env |-> arrived + 1])

\* The same envelope is stored for one more of them.
StoreCopy(m, q) ==
    /\ m.env = arrived /\ m.at = now /\ m.env \in Copied
    /\ \A o \in stored : o.env = arrived => o.to # q
    /\ Put([m EXCEPT !.to = q])
    /\ UNCHANGED <<number, arrived>>

Cutoff == IF now > MaxAge THEN now - MaxAge ELSE 0

PurgeExpired == /\ list' = MemoryPurge(list, Cutoff)
                /\ rows' = SqlitePurge(rows, Cutoff)
                /\ stored' = {m \in stored : m.at >= Cutoff}
                /\ UNCHANGED <<now, adapter, rooms, last, number, run, arrived, seen>>

PurgeExcess(r) ==
    /\ \E keep \in KeptByExcess(rows, r, Cap) :
          rows' = (rows \ InRoom(rows, r)) \cup keep
    /\ UNCHANGED <<now, adapter, rooms, list, last, history, seen>>

\* Only the memory adapter has delete_room; purge_excess with a limit of 0
\* empties the room in the table.
DeleteRoom(r) ==
    /\ list' = MemoryDelete(list, r)
    /\ rows' = rows \ InRoom(rows, r)
    /\ stored' = {m \in stored : m.room # r}
    /\ UNCHANGED <<now, adapter, rooms, last, number, run, arrived, seen>>

\* The host is started again: the list is new, the table is opened, and created
\* only where it is missing.
Reopen == /\ list' = <<>>
          /\ UNCHANGED <<now, adapter, rooms, rows, last, history, seen>>

\* A sender joins again, and its next message is number one.
SenderRestarts(s) == /\ number[s] > 0 /\ run[s] < MaxRestarts
                     /\ \A t \in Sender \ {s} : run[t] = 0
                     /\ run' = [run EXCEPT ![s] = @ + 1]
                     /\ number' = [number EXCEPT ![s] = 0]
                     /\ UNCHANGED <<now, adapter, content, last, arrived, stored, seen>>

Fetched(r, q) == IF adapter = "memory" THEN MemoryFetch(list, r, q, last[r][q])
                 ELSE SqliteFetch(rows, r, q, last[r][q])

Kept == IF adapter = "memory" THEN Elements(list) ELSE rows

\* q asks for what came after the last number it knows, and remembers the
\* highest number of the answer.
CatchUp(r, q) ==
    LET answer  == Elements(Fetched(r, q))
        numbers == {m.seq : m \in answer}
    IN  /\ answer # {}
        /\ last' = [last EXCEPT ![r][q] =
                      CHOOSE n \in numbers : \A k \in numbers : k <= n]
        /\ seen' = seen \cup answer
        /\ UNCHANGED <<now, adapter, content, history>>

Next == \/ Tick \/ PurgeExpired \/ Reopen
        \/ \E s \in Sender : SenderRestarts(s)
        \/ \E r \in Room : StoreRoom(r) \/ PurgeExcess(r) \/ DeleteRoom(r)
        \/ \E m \in stored, q \in Recipient : StoreCopy(m, q)
        \/ \E r \in Room, q \in Recipient :
              \/ \E s \in Sender, n \in 1 .. MaxSeq : StoreMessage(r, s, q, n)
              \/ CatchUp(r, q)

Spec == Init /\ [][Next]_vars
-----------------------------------------------------------------------------
(* Properties *)

\* Every variable stays in its type.
TypeOK == /\ now \in 0 .. Horizon /\ adapter \in {"memory", "sqlite"} /\ rooms \subseteq Room
          /\ list \in Seq(Message) /\ rows \subseteq Message
          /\ last \in [Room -> [Recipient -> 0 .. MaxSeq]]
          /\ number \in [Sender -> 0 .. MaxSeq] /\ run \in [Sender -> 0 .. MaxRestarts] /\ arrived \in 0 .. MaxArrived
          /\ stored \subseteq Message /\ seen \subseteq Message

\* The list never holds more messages of a room than the room's limit, whatever
\* the other rooms hold; a limit of 0 still lets the latest one in, which is
\* added after the oldest has gone (store_message of storage_memory.rs).
ListWithinCap == \A r \in Room : Cardinality(OfRoom(list, r)) <= IF Cap = 0 THEN 1 ELSE Cap

\* If a message has gone, so have those of its room that arrived before it.
\* What the list evicts for want of room is the oldest of the same room.
ListKeepsNewest ==
    \A m, o \in stored : m.room = o.room /\ o.env > m.env /\ m \in Elements(list)
                        => o \in Elements(list)

OneRun(m, o) == m.from = o.from /\ m.run = o.run

\* purge_excess keeps the newest messages of each run of a sender, whenever the
\* host was started again (storage_sqlite.rs, "keep newest N"; it ranks by
\* numbers, so not the newest of several senders, nor of several runs of one).
TableKeepsNewest ==
    \A m, o \in stored : /\ m.room = o.room /\ OneRun(m, o)
                         /\ o.env > m.env /\ m \in rows
                         => o \in rows

PassedOver == {m \in Kept : m.seq <= last[m.room][m.to] /\ m \notin seen}

\* A kept message that a catch-up will not ask for any more, as it asks from the
\* last number the recipient knows, is passed over only for one with a number as
\* high of another sender, or of another run of its sender: the messages of one
\* run never hide each other, whatever is evicted, purged or lost with the
\* host's memory in between (architecture.md 4.6).
PassedOverByOthers ==
    \A m \in PassedOver : \E o \in seen : /\ o.room = m.room /\ o.to = m.to
                                          /\ ~ OneRun(m, o) /\ o.seq >= m.seq

Before(s, m, o) == \E i, j \in DOMAIN s : i < j /\ s[i] = m /\ s[j] = o

\* Messages of one run that both adapters return come in the same order from both
\* (the test memory_and_sqlite_backlog_consistent).
AdaptersAgree ==
    \A r \in Room, q \in Recipient :
        LET fromList == MemoryFetch(list, r, q, 0)
            fromRows == SqliteFetch(rows, r, q, 0)
        IN  \A m, o \in Elements(fromList) \cap Elements(fromRows) :
               OneRun(m, o) /\ Before(fromList, m, o) => Before(fromRows, m, o)
=============================================================================

----------------------------- MODULE HostRelay -----------------------------
(***************************************************************************)
(* The relay of a room: sanctum-infra/host_listener.rs over the shared     *)
(* HostService.  Every accepted connection is a task of its own; tasks     *)
(* share the HostService, the map of outbound channels, the alias map      *)
(* (each behind a tokio Mutex) and one broadcast channel.  A step is what  *)
(* a task does between two points where it may wait.                       *)
(***************************************************************************)
EXTENDS Naturals, Sequences, FiniteSets

CONSTANTS Conn,          \* connections accepted, one task each (conn_id)
          Fp,            \* fingerprints
          Owner,         \* the member a room starts with
          None,          \* no connection, no holder of a lock
          MaxMembers,    \* RoomConfig.max_members
          OutCap,        \* capacity of an outbound channel: 256
          BroadcastCap,  \* capacity of the broadcast channel: 1024
          Overlap,       \* bound: peers that may connect again before the host
                         \* has noticed that their former connection is dead
          Talkers,       \* bound: connections that send room messages
          MaxFrames,     \* bound: room messages read from one of them
          MaxPings,      \* bound: pings read from one connection
          Leavers,       \* bound: connections whose client may go away
          Slow,          \* bound: connections whose client may stop reading
          Stops          \* bound: may the host be told to shut down?

ASSUME RelayAssumption ==
    /\ Owner \in Fp
    /\ None \notin Conn
    /\ {MaxMembers, OutCap, BroadcastCap} \subseteq Nat \ {0}
    /\ {MaxFrames, MaxPings} \subseteq Nat
    /\ Overlap \subseteq Fp /\ Stops \in BOOLEAN
    /\ {Talkers, Leavers, Slow} \subseteq SUBSET Conn

VARIABLES
    pc,           \* where each task is
    fp,           \* the fingerprint a connection authenticates as
    open,         \* is the client's end of the connection still there?
    stalled,      \* clients that do not read: a write to them waits
    down,         \* has the host been told to shut down?
    members,      \* active members of the room
    connected,    \* HostService.connected_clients: fingerprint -> connection
    ready,        \* fingerprints whose entry has ready = true
    doubled,      \* history: connections that were registered at the same time
                  \* as another one of the same peer
    channels,     \* keys of the clients map
    out,          \* outbound channels
    aliases,      \* keys of the alias map
    bcast,        \* announcements ever put on the broadcast channel
    cursor,       \* announcements each task is done with
    deaf,         \* tasks that go on waiting in a select! whose broadcast
                  \* branch an Err(Lagged) has switched off
    hostLock, clientsLock, aliasLock,
    pending,      \* recipients a routing task has still to serve
    target,       \* connection id it looked up
    greet,        \* peers a joining task has still to name
    sent, pings,  \* frames read so far
    inbox,        \* history: room messages each task has taken from its
                  \* channel to write them, the last one perhaps not yet written
    told,         \* history: PeerReady frames written to each client
    lagged,       \* history: tasks that lost announcements
    owed          \* history: tasks in their loop when the latest message of
                  \* a task was given its recipients

world == <<fp, open, stalled, down>>
host == <<members, connected, ready, doubled>>
maps == <<channels, out, aliases>>
locks == <<hostLock, clientsLock, aliasLock>>
routing == <<pending, target, owed, sent, pings, inbox>>
announcing == <<bcast, cursor, lagged, told, greet>>
vars == <<pc, deaf, world, host, maps, locks, routing, announcing>>

\* Phases of handle_client.
Joining == {"auth", "verify", "register"}
Starting == {"alias", "channel", "subscribe", "greet", "greeting", "announce"}
Looping == {"loop", "pong", "writing", "telling",
            "snapshot", "route", "routeClients", "deliver"}
Leaving == {"cleanHost", "cleanClients", "cleanAlias"}
Over == {"rejected", "aborted", "done"}
Registered == Starting \cup Looping \cup Leaving
Phase == {"idle"} \cup Joining \cup Starting \cup Looping \cup Leaving \cup Over

Message == [from : Conn, n : 1 .. MaxFrames]

Init == /\ pc = [c \in Conn |-> "idle"]
        /\ fp = [c \in Conn |-> Owner]
        /\ open = [c \in Conn |-> TRUE] /\ stalled = {} /\ down = FALSE
        /\ members = {Owner} /\ connected = [f \in Fp |-> None] /\ ready = {}
        /\ doubled = {} /\ deaf = {}
        /\ channels = {} /\ out = [c \in Conn |-> <<>>]
        /\ aliases = {} /\ bcast = <<>> /\ cursor = [c \in Conn |-> 0]
        /\ hostLock = None /\ clientsLock = None /\ aliasLock = None
        /\ pending = [c \in Conn |-> {}] /\ target = [c \in Conn |-> None]
        /\ greet = [c \in Conn |-> {}]
        /\ sent = [c \in Conn |-> 0] /\ pings = [c \in Conn |-> 0]
        /\ inbox = [c \in Conn |-> <<>>]
        /\ told = [c \in Conn |-> [f \in Fp |-> 0]]
        /\ lagged = {} /\ owed = [c \in Conn |-> {}]

\* A task that goes on has left the select! call in which it was deaf.
Goto(c, from, to) == /\ pc[c] = from
                     /\ pc' = [pc EXCEPT ![c] = to]
                     /\ deaf' = deaf \ {c}

\* A task that ends drops its receivers; what its client got is forgotten.
Drop(c) == /\ out' = [out EXCEPT ![c] = <<>>]
           /\ cursor' = [cursor EXCEPT ![c] = 0]
           /\ inbox' = [inbox EXCEPT ![c] = <<>>]
           /\ told' = [told EXCEPT ![c] = [f \in Fp |-> 0]]
           /\ owed' = [owed EXCEPT ![c] = {}]
-----------------------------------------------------------------------------
(* Clients and the network. *)

\* A client connects and will authenticate as f.
Connect(c, f) ==
    /\ ~ down
    /\ f \in Overlap \/ \A d \in Conn : fp[d] = f => pc[d] \in {"idle"} \cup Over
    /\ Goto(c, "idle", "auth")
    /\ fp' = [fp EXCEPT ![c] = f]
    /\ UNCHANGED <<open, stalled, down, host, maps, locks, routing,
                   announcing>>

Disconnect(c) ==
    /\ pc[c] \notin {"idle"} \cup Over
    /\ c \in Leavers /\ open[c]
    /\ open' = [open EXCEPT ![c] = FALSE]
    /\ UNCHANGED <<pc, deaf, fp, stalled, down, host, maps, locks, routing,
                   announcing>>

Stall(c) == /\ c \in Slow \ stalled
            /\ open[c] /\ pc[c] \in Starting \cup Looping
            /\ stalled' = stalled \cup {c}
            /\ UNCHANGED <<pc, deaf, fp, open, down, host, maps, locks,
                           routing, announcing>>

\* A client that was slow reads on.
Resume(c) == /\ c \in stalled /\ open[c]
             /\ stalled' = stalled \ {c}
             /\ UNCHANGED <<pc, deaf, fp, open, down, host, maps, locks,
                            routing, announcing>>

Shutdown == /\ Stops /\ ~ down
            /\ down' = TRUE
            /\ UNCHANGED <<pc, deaf, fp, open, stalled, host, maps, locks,
                           routing, announcing>>

\* A write to the client returns: it is delivered, lost or fails.
Writable(c) == ~ open[c] \/ c \notin stalled

\* Where the loop goes on after a write: one to a client that has gone may fail
\* or still be taken by the socket.
AfterWrite(c) == IF open[c] THEN {"loop"} ELSE {"loop", "cleanHost"}
-----------------------------------------------------------------------------
(* authenticate_client *)

\* The fingerprint becomes a member unless it is one; a full room is ignored.
AddMember(c) ==
    /\ hostLock = None
    /\ Goto(c, "auth", "verify")
    /\ members' = IF Cardinality(members) < MaxMembers
                  THEN members \cup {fp[c]} ELSE members
    /\ UNCHANGED <<world, connected, ready, doubled, maps, locks, routing,
                   announcing>>

\* The set of active members is read again, verified and the result sent.
Verify(c) ==
    /\ hostLock = None
    /\ fp[c] \in members
    /\ Goto(c, "verify", "register")
    /\ UNCHANGED <<world, host, maps, locks, routing, announcing>>

\* No usable response arrives.
HandshakeFails(c) ==
    /\ Goto(c, "auth", "rejected")
    /\ UNCHANGED <<world, host, maps, locks, routing, announcing>>

\* Verification fails (not a member, stale challenge) or the result is not sent.
Reject(c) ==
    /\ hostLock = None
    /\ Goto(c, "verify", "rejected")
    /\ UNCHANGED <<world, host, maps, locks, routing, announcing>>
-----------------------------------------------------------------------------
(* handle_client, up to its loop *)

\* History: the peer of c, which registers, may still be registered elsewhere.
Doubles(c) ==
    LET others == {d \in Conn \ {c} : pc[d] \in Registered /\ fp[d] = fp[c]}
    IN  doubled' = IF others = {} THEN doubled ELSE doubled \cup others \cup {c}

\* Variant of Register: an entry already there is kept.
RegisterKeepsOld(c) ==
    /\ hostLock = None
    /\ Goto(c, "register", "alias")
    /\ connected' = [connected EXCEPT ![fp[c]] = IF @ = None THEN c ELSE @]
    /\ ready' = ready \cup {fp[c]}
    /\ Doubles(c)
    /\ UNCHANGED <<world, members, maps, locks, routing, announcing>>

\* register_client and mark_client_ready under one lock; an entry of the same
\* fingerprint is replaced.
Register(c) ==
    /\ hostLock = None
    /\ fp[c] \in members   \* is_authorized: the host revokes nobody
    /\ Goto(c, "register", "alias")
    /\ connected' = [connected EXCEPT ![fp[c]] = c]
    /\ ready' = ready \cup {fp[c]}
    /\ Doubles(c)
    /\ UNCHANGED <<world, members, maps, locks, routing, announcing>>

InsertAlias(c) ==
    /\ aliasLock = None
    /\ Goto(c, "alias", "channel")
    /\ aliases' = aliases \cup {fp[c]}
    /\ UNCHANGED <<world, host, channels, out, locks, routing, announcing>>

CreateChannel(c) ==
    /\ clientsLock = None
    /\ Goto(c, "channel", "subscribe")
    /\ channels' = channels \cup {c}
    /\ UNCHANGED <<world, host, out, aliases, locks, routing, announcing>>

Subscribe(c) ==
    /\ Goto(c, "subscribe", "greet")
    /\ cursor' = [cursor EXCEPT ![c] = Len(bcast)]
    /\ UNCHANGED <<world, host, maps, locks, routing, bcast, lagged, told,
                   greet>>

\* Phase 3 keeps the alias map locked while it writes to the client.
GreetBegin(c) ==
    /\ aliasLock = None
    /\ Goto(c, "greet", "greeting")
    /\ aliasLock' = c
    /\ greet' = [greet EXCEPT ![c] = aliases \ {fp[c]}]
    /\ UNCHANGED <<world, host, maps, hostLock, clientsLock, routing, bcast,
                   cursor, lagged, told>>

Tell(c, f) == told' = IF open[c] THEN [told EXCEPT ![c][f] = @ + 1] ELSE told

GreetOne(c) ==
    /\ pc[c] = "greeting" /\ Writable(c)
    /\ \E f \in greet[c] : /\ Tell(c, f)
                           /\ greet' = [greet EXCEPT ![c] = @ \ {f}]
    /\ UNCHANGED <<pc, deaf, world, host, maps, locks, routing, bcast,
                   cursor, lagged>>

GreetEnd(c) ==
    /\ greet[c] = {}
    /\ Goto(c, "greeting", "announce")
    /\ aliasLock' = None
    /\ UNCHANGED <<world, host, maps, hostLock, clientsLock, routing,
                   announcing>>

\* Variant of Announce: a task skips to its own announcement.
AnnounceSkipsToOwn(c) ==
    /\ Goto(c, "announce", "loop")
    /\ bcast' = Append(bcast, fp[c])
    /\ cursor' = [cursor EXCEPT ![c] = Len(bcast) + 1]
    /\ UNCHANGED <<world, host, maps, locks, routing, lagged, told, greet>>

\* Phase 4: every subscribed task will see the announcement, this one too.
Announce(c) ==
    /\ Goto(c, "announce", "loop")
    /\ bcast' = Append(bcast, fp[c])
    /\ UNCHANGED <<world, host, maps, locks, routing, cursor, lagged, told,
                   greet>>
-----------------------------------------------------------------------------
(* handle_client, its loop: reading from the client *)

ReadRoomMessage(c) ==
    /\ c \in Talkers /\ open[c] /\ sent[c] < MaxFrames
    /\ Goto(c, "loop", "snapshot")
    /\ sent' = [sent EXCEPT ![c] = @ + 1]
    /\ UNCHANGED <<world, host, maps, locks, pending, target, owed, pings,
                   inbox, announcing>>

\* Variant of RouteRecipients: the sender is one of them.
RouteRecipientsAll(f) == {g \in ready : connected[g] # None}

RouteRecipients(f) == {g \in ready : connected[g] # None /\ g # f}

\* Variant of Snapshot: the lock outlives the computation.
SnapshotKeepsLock(c) ==
    /\ hostLock = None
    /\ Goto(c, "snapshot", "route")
    /\ hostLock' = c
    /\ pending' = [pending EXCEPT ![c] = RouteRecipients(fp[c])]
    /\ owed' = [owed EXCEPT ![c] = {d \in Conn : pc[d] \in Looping /\ fp[d] # fp[c]}]
    /\ UNCHANGED <<world, host, maps, clientsLock, aliasLock, target, sent,
                   pings, inbox, announcing>>

\* The recipients are computed under the lock, which is then released.
Snapshot(c) ==
    /\ hostLock = None
    /\ Goto(c, "snapshot", "route")
    /\ pending' = [pending EXCEPT ![c] = RouteRecipients(fp[c])]
    /\ owed' = [owed EXCEPT ![c] = {d \in Conn : pc[d] \in Looping /\ fp[d] # fp[c]}]
    /\ UNCHANGED <<world, host, maps, locks, target, sent, pings, inbox,
                   announcing>>

\* Variant of RouteLookup: the lock outlives a recipient that has gone.
RouteLookupKeepsLock(c) ==
    /\ pc[c] = "route" /\ hostLock = None
    /\ hostLock' = c
    /\ \E f \in pending[c] :
          /\ pending' = [pending EXCEPT ![c] = @ \ {f}]
          /\ IF connected[f] = None
             THEN UNCHANGED <<pc, target>>
             ELSE /\ pc' = [pc EXCEPT ![c] = "routeClients"]
                  /\ target' = [target EXCEPT ![c] = connected[f]]
    /\ UNCHANGED <<deaf, world, host, maps, clientsLock, aliasLock, owed,
                   sent, pings, inbox, announcing>>

\* One recipient: the HostService is locked again and its connection looked up.
RouteLookup(c) ==
    /\ pc[c] = "route" /\ hostLock = None
    /\ \E f \in pending[c] :
          /\ pending' = [pending EXCEPT ![c] = @ \ {f}]
          /\ IF connected[f] = None
             THEN UNCHANGED <<pc, target, hostLock>>
             ELSE /\ pc' = [pc EXCEPT ![c] = "routeClients"]
                  /\ target' = [target EXCEPT ![c] = connected[f]]
                  /\ hostLock' = c
    /\ UNCHANGED <<deaf, world, host, maps, clientsLock, aliasLock, owed,
                   sent, pings, inbox, announcing>>

RouteLockClients(c) ==
    /\ clientsLock = None
    /\ Goto(c, "routeClients", "deliver")
    /\ clientsLock' = c
    /\ UNCHANGED <<world, host, maps, hostLock, aliasLock, routing,
                   announcing>>

\* A receiver exists until its task returns.
Receiving(d) == d \in channels /\ pc[d] \notin Over

\* Variant of RouteDeliver: a recipient without a channel ends the fan-out.
RouteDeliverGivesUp(c) ==
    LET d == target[c]
    IN  /\ Receiving(d) => Len(out[d]) < OutCap
        /\ Goto(c, "deliver", "route")
        /\ out' = IF Receiving(d)
                  THEN [out EXCEPT ![d] = Append(@, [from |-> c, n |-> sent[c]])]
                  ELSE out
        /\ pending' = IF Receiving(d) THEN pending
                      ELSE [pending EXCEPT ![c] = {}]
        /\ hostLock' = None /\ clientsLock' = None
        /\ target' = [target EXCEPT ![c] = None]
        /\ UNCHANGED <<world, host, channels, aliases, aliasLock, owed,
                       sent, pings, inbox, announcing>>

\* `tx.send(frame).await' with both locks held: it waits while the channel is
\* full, and is skipped when the recipient has no channel.
RouteDeliver(c) ==
    LET d == target[c]
    IN  /\ Receiving(d) => Len(out[d]) < OutCap
        /\ Goto(c, "deliver", "route")
        /\ out' = IF Receiving(d)
                  THEN [out EXCEPT ![d] = Append(@, [from |-> c, n |-> sent[c]])]
                  ELSE out
        /\ hostLock' = None /\ clientsLock' = None
        /\ target' = [target EXCEPT ![c] = None]
        /\ UNCHANGED <<world, host, channels, aliases, aliasLock, pending, owed,
                       sent, pings, inbox, announcing>>

RouteEnd(c) ==
    /\ pending[c] = {}
    /\ Goto(c, "route", "loop")
    /\ UNCHANGED <<world, host, maps, locks, routing, announcing>>

ReadPing(c) ==
    /\ open[c] /\ pings[c] < MaxPings
    /\ Goto(c, "loop", "pong")
    /\ pings' = [pings EXCEPT ![c] = @ + 1]
    /\ UNCHANGED <<world, host, maps, locks, pending, target, owed, sent,
                   inbox, announcing>>

\* A frame of any other type is dropped; the loop selects anew.
ReadOther(c) ==
    /\ open[c] /\ c \in deaf
    /\ Goto(c, "loop", "loop")
    /\ UNCHANGED <<world, host, maps, locks, routing, announcing>>

\* `send_frame(&pong).await?' leaves the function, not the loop, on an error.
Pong(c) ==
    /\ Writable(c)
    /\ \/ /\ Goto(c, "pong", "loop")
          /\ UNCHANGED <<out, cursor, inbox, told, owed>>
       \/ /\ ~ open[c]
          /\ Goto(c, "pong", "aborted")
          /\ Drop(c)
    /\ UNCHANGED <<world, host, channels, aliases, locks, pending, target, sent,
                   pings, bcast, lagged, greet>>
-----------------------------------------------------------------------------
(* handle_client, its loop: writing to the client *)

\* The branch of the outbound channel is chosen: the frame is out of it.
DrainOut(c) ==
    /\ out[c] # <<>>
    /\ Goto(c, "loop", "writing")
    /\ out' = [out EXCEPT ![c] = Tail(@)]
    /\ inbox' = [inbox EXCEPT ![c] = Append(@, Head(out[c]))]
    /\ UNCHANGED <<world, host, channels, aliases, locks, pending, target,
                   owed, sent, pings, announcing>>

\* Inside `send_frame(&frame).await' a task reads nothing and sees no token.
WriteOut(c) ==
    /\ Writable(c)
    /\ \E next \in AfterWrite(c) : Goto(c, "writing", next)
    /\ UNCHANGED <<world, host, maps, locks, routing, announcing>>

\* The broadcast channel has dropped the next announcement: Err(Lagged) does
\* not match the pattern and the branch is off until the next select!.
Overrun(c) ==
    /\ pc[c] = "loop" /\ c \notin deaf
    /\ Len(bcast) - cursor[c] > BroadcastCap
    /\ cursor' = [cursor EXCEPT ![c] = Len(bcast) - BroadcastCap]
    /\ lagged' = lagged \cup {c} /\ deaf' = deaf \cup {c}
    /\ UNCHANGED <<pc, world, host, maps, locks, routing, bcast, told, greet>>

\* The branch of the broadcast channel is chosen: the task's own announcement is
\* passed over, any other is to be written.
TakeAnnouncement(c) ==
    LET f == bcast[cursor[c] + 1]
    IN  /\ c \notin deaf
        /\ cursor[c] < Len(bcast) /\ Len(bcast) - cursor[c] <= BroadcastCap
        /\ \/ /\ f = fp[c] /\ Goto(c, "loop", "loop")
              /\ cursor' = [cursor EXCEPT ![c] = @ + 1]
           \/ /\ f # fp[c] /\ Goto(c, "loop", "telling")
              /\ UNCHANGED cursor
        /\ UNCHANGED <<world, host, maps, locks, routing, bcast, told, lagged,
                       greet>>

\* The announcement has been written.
WriteAnnouncement(c) ==
    /\ Writable(c)
    /\ \E next \in AfterWrite(c) : Goto(c, "telling", next)
    /\ cursor' = [cursor EXCEPT ![c] = @ + 1]
    /\ Tell(c, bcast[cursor[c] + 1])
    /\ UNCHANGED <<world, host, maps, locks, routing, bcast, lagged, greet>>
-----------------------------------------------------------------------------
(* handle_client, after its loop *)

\* Variant of LeaveLoop: the cancellation token is not watched.
LeaveLoopDeaf(c) ==
    /\ ~ open[c]
    /\ Goto(c, "loop", "cleanHost")
    /\ UNCHANGED <<world, host, maps, locks, routing, announcing>>

LeaveLoop(c) ==
    /\ ~ open[c] \/ down
    /\ Goto(c, "loop", "cleanHost")
    /\ UNCHANGED <<world, host, maps, locks, routing, announcing>>

\* remove_client: by fingerprint, whoever is registered under it.
CleanHost(c) ==
    /\ hostLock = None
    /\ Goto(c, "cleanHost", "cleanClients")
    /\ connected' = [connected EXCEPT ![fp[c]] = None]
    /\ ready' = ready \ {fp[c]}
    /\ UNCHANGED <<world, members, doubled, maps, locks, routing, announcing>>

CleanClients(c) ==
    /\ clientsLock = None
    /\ Goto(c, "cleanClients", "cleanAlias")
    /\ channels' = channels \ {c}
    /\ UNCHANGED <<world, host, out, aliases, locks, routing, announcing>>

CleanAlias(c) ==
    /\ aliasLock = None
    /\ Goto(c, "cleanAlias", "done")
    /\ aliases' = aliases \ {fp[c]}
    /\ Drop(c)
    /\ UNCHANGED <<world, host, channels, locks, pending, target, sent, pings,
                   bcast, lagged, greet>>
-----------------------------------------------------------------------------
\* What the task of connection c does on its own.
Task(c) == \/ Verify(c) \/ Reject(c)
           \/ Register(c) \/ InsertAlias(c) \/ CreateChannel(c) \/ Subscribe(c)
           \/ GreetBegin(c) \/ GreetOne(c) \/ GreetEnd(c) \/ Announce(c)
           \/ Snapshot(c) \/ RouteLookup(c) \/ RouteLockClients(c)
           \/ RouteDeliver(c) \/ RouteEnd(c) \/ Pong(c)
           \/ DrainOut(c) \/ WriteOut(c)
           \/ Overrun(c) \/ TakeAnnouncement(c) \/ WriteAnnouncement(c)
           \/ LeaveLoop(c) \/ CleanHost(c) \/ CleanClients(c) \/ CleanAlias(c)

\* What its client makes it do.
Client(c) == \/ \E f \in Fp : Connect(c, f)
             \/ AddMember(c) \/ HandshakeFails(c)
             \/ Disconnect(c) \/ Stall(c) \/ Resume(c)
             \/ ReadRoomMessage(c) \/ ReadPing(c) \/ ReadOther(c)

Next == \/ Shutdown
        \/ \E c \in Conn : Task(c) \/ Client(c)

Spec == Init /\ [][Next]_vars

\* The runtime keeps polling every task that can go on.
FairSpec == Spec /\ \A c \in Conn : WF_vars(Task(c))
=============================================================================

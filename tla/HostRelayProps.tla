--------------------------- MODULE HostRelayProps ---------------------------
(* What the relay owes its clients: the properties of HostRelay. *)
EXTENDS HostRelay

\* Every variable stays in its type.
TypeOK ==
    /\ pc \in [Conn -> Phase] /\ fp \in [Conn -> Fp]
    /\ open \in [Conn -> BOOLEAN] /\ stalled \subseteq Slow /\ down \in BOOLEAN
    /\ members \subseteq Fp /\ connected \in [Fp -> Conn \cup {None}]
    /\ ready \subseteq Fp /\ doubled \subseteq Conn /\ deaf \subseteq Conn
    /\ channels \subseteq Conn /\ out \in [Conn -> Seq(Message)]
    /\ aliases \subseteq Fp
    /\ bcast \in Seq(Fp) /\ cursor \in [Conn -> 0 .. Len(bcast)]
    /\ {hostLock, clientsLock, aliasLock} \subseteq Conn \cup {None}
    /\ pending \in [Conn -> SUBSET Fp] /\ target \in [Conn -> Conn \cup {None}]
    /\ greet \in [Conn -> SUBSET Fp]
    /\ sent \in [Conn -> 0 .. MaxFrames] /\ pings \in [Conn -> 0 .. MaxPings]
    /\ inbox \in [Conn -> Seq(Message)]
    /\ told \in [Conn -> [Fp -> Nat]]
    /\ lagged \subseteq Conn /\ owed \in [Conn -> SUBSET Conn]

\* Phases in which a task's registration is in force.
Serving == Starting \cup Looping \cup {"cleanHost"}

\* A serving task has its entry in connected_clients, unless its peer was ever
\* registered twice at once: cleaning up one connection then takes the entry of
\* the other (remove_client).  And an entry names a task of that peer that still
\* serves, or that ended on a failed pong and left its entry behind.
RegistrationCoherent ==
    /\ \A c \in Conn \ doubled : pc[c] \in Serving => connected[fp[c]] = c
    /\ \A f \in Fp : connected[f] # None =>
          /\ fp[connected[f]] = f
          /\ pc[connected[f]] \in Serving \cup {"aborted"}

\* A client in its loop that has lost no announcement has been told of every
\* other client in its loop, or will be by an announcement its task is not done
\* with, whichever way their joins interleave: alias before subscription before
\* greeting before announcement.  A peer that was registered twice at once may
\* be missed: one of its tasks takes the alias of the other away.
PeersIntroduced ==
    \A c \in Conn, d \in Conn \ doubled :
        /\ pc[c] \in Looping /\ pc[d] \in Looping
        /\ open[c] /\ fp[c] # fp[d] /\ c \notin lagged
        => \/ told[c][fp[d]] > 0
           \/ \E i \in cursor[c] + 1 .. Len(bcast) : bcast[i] = fp[d]

\* Everything ever put into the channel of c, in order.
Received(c) == inbox[c] \o out[c]

\* The messages of one sender reach each client in the order they were read
\* from the sender, none of them twice, and none comes back to the sender.
SenderOrder ==
    \A c \in Conn : LET r == Received(c)
                    IN  \A i \in 1 .. Len(r) :
                          /\ fp[r[i].from] # fp[c]
                          /\ \A j \in 1 .. i - 1 :
                                r[j].from = r[i].from => r[j].n < r[i].n

\* Once a task is back in its loop its message has reached the channel of every
\* client that was in its loop when the recipients were chosen, and has neither
\* left it nor gone away since, nor was ever registered twice at once.
NoneForgotten ==
    \A c \in Conn : pc[c] = "loop" /\ sent[c] > 0 =>
        \A d \in owed[c] \ doubled : pc[d] \in Looping /\ open[d] =>
            \E i \in 1 .. Len(Received(d)) :
                Received(d)[i] = [from |-> c, n |-> sent[c]]

\* A task that holds the HostService can go on, unless it waits for room in the
\* channel of a client: the lock order allows no other way to wedge the host.
HolderWaitsOnlyForRoom ==
    \A c \in Conn : hostLock = c =>
        \/ ENABLED Task(c)
        \/ /\ pc[c] = "deliver" /\ clientsLock = c
           /\ Len(out[target[c]]) = OutCap /\ pc[target[c]] \notin Over

-----------------------------------------------------------------------------
(* What may hold a task up: a client that does not read, and a full channel  *)
(* at the end of which nobody is.                                           *)

\* Phases of the fan-out of a message.
Routing == {"snapshot", "route", "routeClients", "deliver"}

\* Task c is inside a write to a client that is there and does not read.
Blocked(c) == /\ ~ Writable(c)
              /\ \/ pc[c] \in {"pong", "writing", "telling"}
                 \/ pc[c] = "greeting" /\ greet[c] # {}

\* Task c can do nothing before it gets the lock.
NeedsHost(c) == \/ pc[c] \in {"snapshot", "cleanHost"}
                \/ pc[c] = "route" /\ pending[c] # {}
NeedsClients(c) == pc[c] \in {"channel", "routeClients", "cleanClients"}
NeedsAlias(c) == pc[c] \in {"alias", "greet", "cleanAlias"}

\* The alias map stays locked: its holder greets a client that does not read.
AliasStuck == aliasLock # None /\ Blocked(aliasLock)

\* Both other locks stay held: task h waits for room in the channel of a client
\* whose own task is blocked, waits for the HostService that h holds, or waits
\* for the alias map.
Jammed(h) ==
    LET d == target[h]
    IN  /\ pc[h] = "deliver" /\ Receiving(d) /\ Len(out[d]) = OutCap
        /\ \/ Blocked(d) \/ NeedsHost(d)
           \/ NeedsAlias(d) /\ AliasStuck

\* All that can keep task c from going on.
HeldUp(c) == \/ Blocked(c)
             \/ NeedsAlias(c) /\ AliasStuck
             \/ \E h \in Conn : Jammed(h) /\ (c = h \/ NeedsHost(c) \/ NeedsClients(c))

\* A message a client has sent is handed to all its recipients, unless its task
\* is held up: by a client that does not read, or by a full channel whose task
\* waits for the lock that is held over it, as a client's that leaves may.
RoutingCompletes ==
    \A c \in Conn : pc[c] \in Routing ~> pc[c] = "loop" \/ HeldUp(c)

\* After shutdown a task that has registered cleans up and returns, unless it is
\* held up in one of these ways.  A write to a client, in the greeting
\* or in a branch of the loop, watches no cancellation token, nor does a task
\* that waits for a lock or for room in a channel (a task that still waits for
\* the answer to its challenge does not either; it has not registered).
ShutdownDrains ==
    \A c \in Conn : down /\ pc[c] \in Registered ~> pc[c] \in Over \/ HeldUp(c)
-----------------------------------------------------------------------------
(* What the documentation says and the code does not keep. *)

\* A client that is connected and ready is registered as such until its own
\* connection ends (host_service.rs: "Remove a disconnected client").
ConnectedStaysRegistered ==
    \A c \in Conn : pc[c] \in Looping /\ open[c] => connected[fp[c]] # None
=============================================================================

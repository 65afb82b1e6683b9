--------------------------- MODULE HostRelayProofs ---------------------------
(***************************************************************************)
(* Proofs about the relay, for any number of connections and members and   *)
(* any capacity, whatever the clients do.  RelayInv is enough for types,   *)
(* locks and order; ServiceInv adds what HostRelayProps promises about     *)
(* registration, introductions and delivery, for every connection that was *)
(* never registered next to another one of its peer: such a connection may *)
(* lose its entry to the other, as the run host_reconnect shows.           *)
(*                                                                         *)
(* Every step is classified twice before any invariant is looked at: by    *)
(* where it takes its task (ActionMoves) and by what it writes (Writers).  *)
(***************************************************************************)
EXTENDS HostRelayProps, SequenceTheorems, TLAPS

\* The type of pc, apart from the rest: every move needs it.
PcType == pc \in [Conn -> Phase]

\* Task c goes from one of the phases `from' to one of `to', the others stay.
Moves(c, from, to) == /\ pc[c] \in from /\ pc'[c] \in to
                      /\ \A d \in Conn \ {c} : pc'[d] = pc[d]

\* The phases by name.
LEMMA PhaseNames ==
    {"idle", "auth", "verify", "register", "alias", "channel", "subscribe", "greet",
     "greeting", "announce", "loop", "pong", "writing", "telling",
     "snapshot", "route", "routeClients", "deliver",
     "cleanHost", "cleanClients", "cleanAlias", "rejected", "aborted", "done"} = Phase
BY DEF Phase, Joining, Starting, Looping, Leaving, Over

\* Where each action takes the task that does it.
LEMMA ActionMoves ==
    ASSUME PcType, NEW c \in Conn
    PROVE  /\ Verify(c) => Moves(c, {"verify"}, {"register"})
           /\ Reject(c) => Moves(c, {"verify"}, {"rejected"})
           /\ Register(c) => Moves(c, {"register"}, {"alias"})
           /\ InsertAlias(c) => Moves(c, {"alias"}, {"channel"})
           /\ CreateChannel(c) => Moves(c, {"channel"}, {"subscribe"})
           /\ Subscribe(c) => Moves(c, {"subscribe"}, {"greet"})
           /\ GreetBegin(c) => Moves(c, {"greet"}, {"greeting"})
           /\ GreetOne(c) => Moves(c, {"greeting"}, {"greeting"})
           /\ GreetEnd(c) => Moves(c, {"greeting"}, {"announce"})
           /\ Announce(c) => Moves(c, {"announce"}, {"loop"})
           /\ Snapshot(c) => Moves(c, {"snapshot"}, {"route"})
           /\ RouteLookup(c) => Moves(c, {"route"}, {"route", "routeClients"})
           /\ RouteLockClients(c) => Moves(c, {"routeClients"}, {"deliver"})
           /\ RouteDeliver(c) => Moves(c, {"deliver"}, {"route"})
           /\ RouteEnd(c) => Moves(c, {"route"}, {"loop"})
           /\ Pong(c) => Moves(c, {"pong"}, {"loop", "aborted"})
           /\ DrainOut(c) => Moves(c, {"loop"}, {"writing"})
           /\ WriteOut(c) => Moves(c, {"writing"}, {"loop", "cleanHost"})
           /\ TakeAnnouncement(c) => Moves(c, {"loop"}, {"loop", "telling"})
           /\ WriteAnnouncement(c) => Moves(c, {"telling"}, {"loop", "cleanHost"})
           /\ LeaveLoop(c) => Moves(c, {"loop"}, {"cleanHost"})
           /\ CleanHost(c) => Moves(c, {"cleanHost"}, {"cleanClients"})
           /\ CleanClients(c) => Moves(c, {"cleanClients"}, {"cleanAlias"})
           /\ CleanAlias(c) => Moves(c, {"cleanAlias"}, {"done"})
           /\ AddMember(c) => Moves(c, {"auth"}, {"verify"})
           /\ HandshakeFails(c) => Moves(c, {"auth"}, {"rejected"})
           /\ ReadRoomMessage(c) => Moves(c, {"loop"}, {"snapshot"})
           /\ ReadPing(c) => Moves(c, {"loop"}, {"pong"})
           /\ ReadOther(c) => Moves(c, {"loop"}, {"loop"})
           /\ Disconnect(c) \/ Stall(c) \/ Resume(c) \/ Overrun(c) => pc' = pc
           /\ \A f \in Fp : Connect(c, f) => Moves(c, {"idle"}, {"auth"})
<1> USE DEF PcType, Moves, Goto, AfterWrite
<1>1. Verify(c) => Moves(c, {"verify"}, {"register"})
  BY DEF Verify
<1>2. Reject(c) => Moves(c, {"verify"}, {"rejected"})
  BY DEF Reject
<1>3. Register(c) => Moves(c, {"register"}, {"alias"})
  BY DEF Register
<1>4. InsertAlias(c) => Moves(c, {"alias"}, {"channel"})
  BY DEF InsertAlias
<1>5. CreateChannel(c) => Moves(c, {"channel"}, {"subscribe"})
  BY DEF CreateChannel
<1>6. Subscribe(c) => Moves(c, {"subscribe"}, {"greet"})
  BY DEF Subscribe
<1>7. GreetBegin(c) => Moves(c, {"greet"}, {"greeting"})
  BY DEF GreetBegin
<1>8. GreetOne(c) => Moves(c, {"greeting"}, {"greeting"})
  BY DEF GreetOne
<1>9. GreetEnd(c) => Moves(c, {"greeting"}, {"announce"})
  BY DEF GreetEnd
<1>10. Announce(c) => Moves(c, {"announce"}, {"loop"})
  BY DEF Announce
<1>11. Snapshot(c) => Moves(c, {"snapshot"}, {"route"})
  BY DEF Snapshot
<1>12. RouteLookup(c) => Moves(c, {"route"}, {"route", "routeClients"})
  BY DEF RouteLookup
<1>13. RouteLockClients(c) => Moves(c, {"routeClients"}, {"deliver"})
  BY DEF RouteLockClients
<1>14. RouteDeliver(c) => Moves(c, {"deliver"}, {"route"})
  BY DEF RouteDeliver
<1>15. RouteEnd(c) => Moves(c, {"route"}, {"loop"})
  BY DEF RouteEnd
<1>16. Pong(c) => Moves(c, {"pong"}, {"loop", "aborted"})
  BY DEF Pong
<1>17. /\ DrainOut(c) => Moves(c, {"loop"}, {"writing"})
       /\ WriteOut(c) => Moves(c, {"writing"}, {"loop", "cleanHost"})
  BY DEF DrainOut, WriteOut
<1>18. /\ TakeAnnouncement(c) => Moves(c, {"loop"}, {"loop", "telling"})
       /\ WriteAnnouncement(c) => Moves(c, {"telling"}, {"loop", "cleanHost"})
  BY DEF TakeAnnouncement, WriteAnnouncement
<1>19. LeaveLoop(c) => Moves(c, {"loop"}, {"cleanHost"})
  BY DEF LeaveLoop
<1>20. CleanHost(c) => Moves(c, {"cleanHost"}, {"cleanClients"})
  BY DEF CleanHost
<1>21. CleanClients(c) => Moves(c, {"cleanClients"}, {"cleanAlias"})
  BY DEF CleanClients
<1>22. CleanAlias(c) => Moves(c, {"cleanAlias"}, {"done"})
  BY DEF CleanAlias
<1>23. AddMember(c) => Moves(c, {"auth"}, {"verify"})
  BY DEF AddMember
<1>24. HandshakeFails(c) => Moves(c, {"auth"}, {"rejected"})
  BY DEF HandshakeFails
<1>25. ReadRoomMessage(c) => Moves(c, {"loop"}, {"snapshot"})
  BY DEF ReadRoomMessage
<1>26. ReadPing(c) => Moves(c, {"loop"}, {"pong"})
  BY DEF ReadPing
<1>27. /\ ReadOther(c) => Moves(c, {"loop"}, {"loop"})
       /\ Disconnect(c) \/ Stall(c) \/ Resume(c) \/ Overrun(c) => pc' = pc
  BY DEF ReadOther, Disconnect, Stall, Resume, Overrun
<1>28. \A f \in Fp : Connect(c, f) => Moves(c, {"idle"}, {"auth"})
  BY DEF Connect
<1> QED BY <1>1, <1>2, <1>3, <1>4, <1>5, <1>6, <1>7, <1>8, <1>9, <1>10, <1>11, <1>12, <1>13, <1>14,
           <1>15, <1>16, <1>17, <1>18, <1>19, <1>20, <1>21, <1>22, <1>23, <1>24, <1>25, <1>26,
           <1>27, <1>28
-----------------------------------------------------------------------------
(* Which actions change which variables *)

\* A pong that cannot be sent ends the task.
Aborts(c) == Pong(c) /\ Goto(c, "pong", "aborted") /\ Drop(c)

\* For every variable, the actions that may change it.
LEMMA Writers ==
    ASSUME NEW c \in Conn, Task(c) \/ Client(c)
    PROVE  /\ fp' = fp \/ \E f \in Fp : Connect(c, f)
           /\ open' = open \/ Disconnect(c)
           /\ doubled' = doubled \/ Register(c)
           /\ UNCHANGED <<connected, ready>> \/ Register(c) \/ CleanHost(c)
           /\ channels' = channels \/ CreateChannel(c) \/ CleanClients(c)
           /\ aliases' = aliases \/ InsertAlias(c) \/ CleanAlias(c)
           /\ UNCHANGED <<hostLock, clientsLock>> \/ RouteLookup(c) \/ RouteLockClients(c)
                 \/ RouteDeliver(c)
           /\ aliasLock' = aliasLock \/ GreetBegin(c) \/ GreetEnd(c)
           /\ target' = target \/ RouteLookup(c) \/ RouteDeliver(c)
           /\ pending' = pending \/ Snapshot(c) \/ RouteLookup(c)
           /\ sent' = sent \/ ReadRoomMessage(c)
           /\ owed' = owed \/ Snapshot(c) \/ Aborts(c) \/ CleanAlias(c)
           /\ UNCHANGED <<out, inbox>> \/ RouteDeliver(c) \/ DrainOut(c)
                 \/ Aborts(c) \/ CleanAlias(c)
           /\ bcast' = bcast \/ Announce(c)
           /\ greet' = greet \/ GreetBegin(c) \/ GreetOne(c)
           /\ lagged' = lagged \/ Overrun(c)
           /\ UNCHANGED <<cursor, told>> \/ Subscribe(c) \/ GreetOne(c) \/ Overrun(c)
                 \/ TakeAnnouncement(c) \/ WriteAnnouncement(c) \/ Aborts(c) \/ CleanAlias(c)
<1> USE DEF world, host, maps, locks, routing, announcing
<1>1. CASE Verify(c) \/ Reject(c) \/ HandshakeFails(c) \/ RouteEnd(c) \/ LeaveLoop(c)
           \/ WriteOut(c) \/ ReadOther(c)
  BY <1>1 DEF Verify, Reject, HandshakeFails, RouteEnd, LeaveLoop, WriteOut, ReadOther
<1>2. CASE Register(c) \/ CleanHost(c) \/ AddMember(c)
  BY <1>2 DEF Register, CleanHost, AddMember
<1>3. CASE InsertAlias(c) \/ CreateChannel(c) \/ CleanClients(c)
  BY <1>3 DEF InsertAlias, CreateChannel, CleanClients
<1>4. CASE Subscribe(c) \/ GreetBegin(c) \/ GreetOne(c) \/ GreetEnd(c) \/ Announce(c)
  BY <1>4 DEF Subscribe, GreetBegin, GreetOne, GreetEnd, Announce
<1>5. CASE Snapshot(c) \/ RouteLookup(c) \/ RouteLockClients(c) \/ RouteDeliver(c)
  BY <1>5 DEF Snapshot, RouteLookup, RouteLockClients, RouteDeliver
<1>6. CASE Pong(c) \/ DrainOut(c) \/ Overrun(c) \/ TakeAnnouncement(c) \/ WriteAnnouncement(c)
           \/ CleanAlias(c)
  BY <1>6 DEF Pong, Aborts, DrainOut, Overrun, TakeAnnouncement, WriteAnnouncement, CleanAlias
<1>7. CASE Disconnect(c) \/ Stall(c) \/ Resume(c) \/ ReadRoomMessage(c) \/ ReadPing(c)
  BY <1>7 DEF Disconnect, Stall, Resume, ReadRoomMessage, ReadPing
<1>8. CASE \E f \in Fp : Connect(c, f)
  BY <1>8 DEF Connect
<1> QED BY <1>1, <1>2, <1>3, <1>4, <1>5, <1>6, <1>7, <1>8 DEF Task, Client
-----------------------------------------------------------------------------
(* Types *)

\* The types of the other variables, by the groups that actions leave alone.
WorldType == /\ fp \in [Conn -> Fp] /\ open \in [Conn -> BOOLEAN]
             /\ stalled \subseteq Slow /\ down \in BOOLEAN
HostType == /\ members \subseteq Fp /\ connected \in [Fp -> Conn \cup {None}]
            /\ ready \subseteq Fp /\ doubled \subseteq Conn
MapsType == /\ channels \subseteq Conn /\ out \in [Conn -> Seq(Message)]
            /\ aliases \subseteq Fp
DeafType == deaf \subseteq Conn
LocksType == {hostLock, clientsLock, aliasLock} \subseteq Conn \cup {None}
RoutingType == /\ pending \in [Conn -> SUBSET Fp] /\ target \in [Conn -> Conn \cup {None}]
               /\ sent \in [Conn -> 0 .. MaxFrames] /\ pings \in [Conn -> 0 .. MaxPings]
               /\ inbox \in [Conn -> Seq(Message)] /\ owed \in [Conn -> SUBSET Conn]
AnnouncingType == /\ bcast \in Seq(Fp) /\ cursor \in [Conn -> 0 .. Len(bcast)]
                  /\ lagged \subseteq Conn /\ told \in [Conn -> [Fp -> Nat]]
                  /\ greet \in [Conn -> SUBSET Fp]

\* TypeOK, by the groups of variables that actions leave alone.
LEMMA TypeGroups ==
    TypeOK <=> /\ PcType /\ DeafType /\ WorldType /\ HostType /\ MapsType /\ LocksType
               /\ RoutingType /\ AnnouncingType
BY DEF TypeOK, PcType, DeafType, WorldType, HostType, MapsType, LocksType, RoutingType, AnnouncingType

\* A group that does not change keeps its type.
LEMMA KeptTypes ==
    /\ UNCHANGED pc /\ PcType => PcType'
    /\ UNCHANGED world /\ WorldType => WorldType'
    /\ UNCHANGED host /\ HostType => HostType'
    /\ UNCHANGED maps /\ MapsType => MapsType'
    /\ UNCHANGED locks /\ LocksType => LocksType'
    /\ UNCHANGED routing /\ RoutingType => RoutingType'
    /\ UNCHANGED announcing /\ AnnouncingType => AnnouncingType'
<1>1. UNCHANGED pc /\ PcType => PcType'
  BY DEF PcType, Phase, Joining, Starting, Looping, Leaving, Over
<1>2. UNCHANGED world /\ WorldType => WorldType'
  BY DEF WorldType, world
<1>3. UNCHANGED host /\ HostType => HostType'
  BY DEF HostType, host
<1>4. UNCHANGED maps /\ MapsType => MapsType'
  BY DEF MapsType, maps, Message
<1>5. UNCHANGED locks /\ LocksType => LocksType'
  BY DEF LocksType, locks
<1>6. UNCHANGED routing /\ RoutingType => RoutingType'
  BY DEF RoutingType, routing, Message
<1>7. UNCHANGED announcing /\ AnnouncingType => AnnouncingType'
  BY DEF AnnouncingType, announcing
<1> QED BY <1>1, <1>2, <1>3, <1>4, <1>5, <1>6, <1>7

\* Every action leads to a phase of the list.
LEMMA PcKept ==
    ASSUME PcType, NEW c \in Conn, Task(c) \/ Client(c)
    PROVE  PcType'
<1>1. ASSUME NEW from, NEW to \in Phase, Goto(c, from, to)
      PROVE  PcType'
  BY <1>1 DEF PcType, Goto
<1>2. UNCHANGED pc => PcType'
  BY KeptTypes
<1>3. CASE Verify(c) \/ Reject(c) \/ Register(c) \/ InsertAlias(c) \/ CreateChannel(c)
  BY <1>1, <1>3, PhaseNames DEF Verify, Reject, Register, InsertAlias, CreateChannel
<1>4. CASE Subscribe(c) \/ GreetBegin(c) \/ GreetOne(c) \/ GreetEnd(c) \/ Announce(c)
  BY <1>1, <1>2, <1>4, PhaseNames DEF Subscribe, GreetBegin, GreetOne, GreetEnd, Announce
<1>5. CASE Snapshot(c) \/ RouteLockClients(c) \/ RouteDeliver(c) \/ RouteEnd(c)
  BY <1>1, <1>5, PhaseNames DEF Snapshot, RouteLockClients, RouteDeliver, RouteEnd
<1>6. CASE RouteLookup(c)
  BY <1>2, <1>6, PhaseNames DEF RouteLookup, PcType
<1>7. CASE Pong(c) \/ DrainOut(c) \/ WriteOut(c) \/ Overrun(c) \/ TakeAnnouncement(c)
           \/ WriteAnnouncement(c)
  BY <1>1, <1>2, <1>7, PhaseNames
     DEF Pong, DrainOut, WriteOut, Overrun, TakeAnnouncement, WriteAnnouncement, AfterWrite
<1>8. CASE LeaveLoop(c) \/ CleanHost(c) \/ CleanClients(c) \/ CleanAlias(c)
  BY <1>1, <1>8, PhaseNames DEF LeaveLoop, CleanHost, CleanClients, CleanAlias
<1>9. CASE Client(c)
  BY <1>1, <1>2, <1>9, PhaseNames
     DEF Client, Connect, AddMember, HandshakeFails, Disconnect, Stall, Resume, ReadRoomMessage,
         ReadPing, ReadOther
<1> QED BY <1>3, <1>4, <1>5, <1>6, <1>7, <1>8, <1>9 DEF Task

\* Only an overrun makes a task deaf, and going on ends it.
LEMMA DeafKept ==
    ASSUME DeafType, NEW c \in Conn, Task(c) \/ Client(c)
    PROVE  DeafType'
<1>1. deaf' = deaf \/ deaf' = deaf \ {c} \/ deaf' = deaf \cup {c} => DeafType'
  BY DEF DeafType
<1>2. CASE Verify(c) \/ Reject(c) \/ Register(c) \/ InsertAlias(c) \/ CreateChannel(c)
  BY <1>1, <1>2 DEF Verify, Reject, Register, InsertAlias, CreateChannel, Goto
<1>3. CASE Subscribe(c) \/ GreetBegin(c) \/ GreetOne(c) \/ GreetEnd(c) \/ Announce(c)
  BY <1>1, <1>3 DEF Subscribe, GreetBegin, GreetOne, GreetEnd, Announce, Goto
<1>4. CASE Snapshot(c) \/ RouteLookup(c) \/ RouteLockClients(c) \/ RouteDeliver(c) \/ RouteEnd(c)
  BY <1>1, <1>4 DEF Snapshot, RouteLookup, RouteLockClients, RouteDeliver, RouteEnd, Goto
<1>5. CASE Pong(c) \/ DrainOut(c) \/ WriteOut(c) \/ Overrun(c) \/ TakeAnnouncement(c)
           \/ WriteAnnouncement(c)
  BY <1>1, <1>5 DEF Pong, DrainOut, WriteOut, Overrun, TakeAnnouncement, WriteAnnouncement, Goto
<1>6. CASE LeaveLoop(c) \/ CleanHost(c) \/ CleanClients(c) \/ CleanAlias(c)
  BY <1>1, <1>6 DEF LeaveLoop, CleanHost, CleanClients, CleanAlias, Goto
<1>7. CASE Client(c)
  BY <1>1, <1>7 DEF Client, Connect, AddMember, HandshakeFails, Disconnect, Stall, Resume,
     ReadRoomMessage, ReadPing, ReadOther, Goto
<1> QED BY <1>2, <1>3, <1>4, <1>5, <1>6, <1>7 DEF Task

\* What a task leaves behind when it ends.
LEMMA DropType ==
    ASSUME MapsType, RoutingType, AnnouncingType, NEW c \in Conn, Drop(c),
           UNCHANGED <<channels, aliases, pending, target, sent, pings, bcast, lagged, greet>>
    PROVE  MapsType' /\ RoutingType' /\ AnnouncingType'
<1>1. Message' = Message /\ <<>> \in Seq(Message)
  BY DEF Message
<1>2. out' \in [Conn -> Seq(Message)] /\ inbox' \in [Conn -> Seq(Message)]
  BY <1>1 DEF Drop, MapsType, RoutingType
<1>3. owed' \in [Conn -> SUBSET Conn]
  BY DEF Drop, RoutingType
<1>4. MapsType'
  BY <1>1, <1>2 DEF MapsType
<1>5. RoutingType'
  BY <1>1, <1>2, <1>3 DEF RoutingType
<1>6. cursor' \in [Conn -> 0 .. Len(bcast)] /\ told' \in [Conn -> [Fp -> Nat]]
  BY DEF Drop, AnnouncingType
<1> QED BY <1>4, <1>5, <1>6 DEF AnnouncingType

\* Telling a client of a peer counts one frame more, if it is there.
LEMMA ToldType ==
    ASSUME AnnouncingType, NEW c \in Conn, NEW f \in Fp, Tell(c, f)
    PROVE  told' \in [Conn -> [Fp -> Nat]]
BY DEF Tell, AnnouncingType

\* A task that routes has read a message to route.
Counted == \A c \in Conn : pc[c] \in Routing => sent[c] > 0

\* Counted is kept: only ReadRoomMessage leads into the fan-out.
LEMMA CountedKept ==
    ASSUME PcType, RoutingType, Counted, NEW c \in Conn, Task(c) \/ Client(c)
    PROVE  Counted'
<1>1. ASSUME NEW from, NEW to, Moves(c, from, to), sent' = sent,
             \A p \in from, q \in to : q \in Routing => p \in Routing
      PROVE  Counted'
  BY <1>1 DEF Counted, Moves
<1>2. CASE ReadRoomMessage(c)
  <2>1. Moves(c, {"loop"}, {"snapshot"})
    BY <1>2, ActionMoves
  <2>2. sent'[c] > 0 /\ \A d \in Conn \ {c} : sent'[d] = sent[d]
    BY <1>2 DEF ReadRoomMessage, RoutingType
  <2> QED BY <2>1, <2>2 DEF Moves, Counted, Routing
<1>3. CASE Client(c) /\ ~ ReadRoomMessage(c)
  <2>1. sent' = sent
    BY <1>3 DEF Client, Connect, AddMember, HandshakeFails, Disconnect, Stall, Resume, ReadPing,
       ReadOther, routing
  <2> QED BY <1>1, <1>3, <2>1, ActionMoves DEF Client, Routing, Counted
<1>4. CASE Task(c)
  <2>1. sent' = sent
    BY <1>4 DEF Task, Verify, Reject, Register, InsertAlias, CreateChannel, Subscribe, GreetBegin,
       GreetOne, GreetEnd, Announce, Snapshot, RouteLookup, RouteLockClients, RouteDeliver, RouteEnd,
       Pong, DrainOut, WriteOut, Overrun, TakeAnnouncement, WriteAnnouncement, LeaveLoop, CleanHost,
       CleanClients, CleanAlias, routing
  <2> QED BY <1>1, <1>4, <2>1, ActionMoves DEF Task, Routing, Counted
<1> QED BY <1>2, <1>3, <1>4

\* A task that writes an announcement has not counted it yet.
Ahead == \A c \in Conn : pc[c] = "telling" => cursor[c] < Len(bcast)

\* Every action keeps every variable in its type; what it does not touch by
\* KeptTypes, the rest by what it assigns.
LEMMA TypeKept ==
    ASSUME TypeOK, Counted, Ahead, NEW c \in Conn, Task(c) \/ Client(c)
    PROVE  TypeOK'
<1>1. PcType /\ DeafType /\ WorldType /\ HostType /\ MapsType /\ LocksType /\ RoutingType /\ AnnouncingType
  BY TypeGroups
<1>2. PcType' /\ DeafType'
  BY <1>1, PcKept, DeafKept
<1>3. SUFFICES WorldType' /\ HostType' /\ MapsType' /\ LocksType' /\ RoutingType' /\ AnnouncingType'
  BY <1>2, TypeGroups, PTL
<1>4. Message' = Message /\ <<>> \in Seq(Message)
  BY DEF Message
<1>5. CASE Verify(c) \/ Reject(c) \/ RouteEnd(c) \/ LeaveLoop(c) \/ HandshakeFails(c)
           \/ WriteOut(c) \/ ReadOther(c)
  BY <1>1, <1>5, KeptTypes
     DEF Verify, Reject, RouteEnd, LeaveLoop, HandshakeFails, WriteOut, ReadOther
<1>6. CASE \E f \in Fp : Connect(c, f)
  <2>1. WorldType'
    BY <1>1, <1>6 DEF Connect, WorldType
  <2> QED BY <1>1, <1>6, <2>1, KeptTypes DEF Connect
<1>7. CASE Disconnect(c) \/ Stall(c) \/ Resume(c)
  <2>1. WorldType'
    BY <1>1, <1>7 DEF Disconnect, Stall, Resume, WorldType
  <2> QED BY <1>1, <1>7, <2>1, KeptTypes DEF Disconnect, Stall, Resume
<1>8. CASE AddMember(c)
  <2>1. HostType'
    BY <1>1, <1>8 DEF AddMember, HostType, WorldType
  <2> QED BY <1>1, <1>8, <2>1, KeptTypes DEF AddMember
<1>9. CASE Register(c) \/ CleanHost(c)
  <2>1. fp[c] \in Fp
    BY <1>1 DEF WorldType
  <2>2. CASE Register(c)
    <3>1. HostType'
      BY <1>1, <2>1, <2>2 DEF Register, Doubles, HostType
    <3> QED BY <1>1, <2>2, <3>1, KeptTypes DEF Register
  <2>3. CASE CleanHost(c)
    <3>1. HostType'
      BY <1>1, <2>1, <2>3 DEF CleanHost, HostType
    <3> QED BY <1>1, <2>3, <3>1, KeptTypes DEF CleanHost
  <2> QED BY <1>9, <2>2, <2>3
<1>10. CASE InsertAlias(c) \/ CreateChannel(c) \/ CleanClients(c)
  <2>1. MapsType'
    BY <1>1, <1>4, <1>10 DEF InsertAlias, CreateChannel, CleanClients, MapsType, WorldType
  <2> QED BY <1>1, <1>10, <2>1, KeptTypes DEF InsertAlias, CreateChannel, CleanClients
<1>11. CASE Subscribe(c)
  <2>1. Len(bcast) \in Nat
    BY <1>1 DEF AnnouncingType
  <2>2. AnnouncingType'
    BY <1>1, <1>11, <2>1 DEF Subscribe, AnnouncingType
  <2> QED BY <1>1, <1>11, <2>2, KeptTypes DEF Subscribe
<1>12. CASE GreetBegin(c)
  <2>1. LocksType'
    BY <1>1, <1>12 DEF GreetBegin, LocksType
  <2>2. AnnouncingType'
    BY <1>1, <1>12 DEF GreetBegin, AnnouncingType, MapsType
  <2> QED BY <1>1, <1>12, <2>1, <2>2, KeptTypes DEF GreetBegin
<1>13. CASE GreetOne(c)
  <2>1. PICK f \in greet[c] : Tell(c, f) /\ greet' = [greet EXCEPT ![c] = @ \ {f}]
    BY <1>13 DEF GreetOne
  <2>2. f \in Fp
    BY <1>1, <2>1 DEF AnnouncingType
  <2>3. told' \in [Conn -> [Fp -> Nat]]
    BY <1>1, <2>1, <2>2, ToldType
  <2>4. greet' \in [Conn -> SUBSET Fp]
    BY <1>1, <2>1 DEF AnnouncingType
  <2>5. AnnouncingType'
    BY <1>1, <1>13, <2>3, <2>4 DEF GreetOne, AnnouncingType
  <2> QED BY <1>1, <1>13, <2>5, KeptTypes DEF GreetOne
<1>14. CASE GreetEnd(c)
  <2>1. LocksType'
    BY <1>1, <1>14 DEF GreetEnd, LocksType
  <2> QED BY <1>1, <1>14, <2>1, KeptTypes DEF GreetEnd
<1>15. CASE Announce(c)
  <2>1. fp[c] \in Fp /\ bcast \in Seq(Fp)
    BY <1>1 DEF WorldType, AnnouncingType
  <2>2. bcast' \in Seq(Fp) /\ Len(bcast') = Len(bcast) + 1 /\ Len(bcast) \in Nat
    BY <1>15, <2>1, AppendProperties, LenProperties DEF Announce
  <2>3. cursor' \in [Conn -> 0 .. Len(bcast')]
    BY <1>1, <1>15, <2>2 DEF Announce, AnnouncingType
  <2>4. AnnouncingType'
    BY <1>1, <1>15, <2>2, <2>3 DEF Announce, AnnouncingType
  <2> QED BY <1>1, <1>15, <2>4, KeptTypes DEF Announce
<1>16. CASE ReadRoomMessage(c) \/ ReadPing(c)
  <2>1. sent' \in [Conn -> 0 .. MaxFrames] /\ pings' \in [Conn -> 0 .. MaxPings]
    <3>1. /\ sent[c] \in 0 .. MaxFrames /\ pings[c] \in 0 .. MaxPings
          /\ MaxFrames \in Nat /\ MaxPings \in Nat
      BY <1>1, RelayAssumption DEF RoutingType
    <3>2. CASE ReadRoomMessage(c)
      <4>1. sent[c] + 1 \in 0 .. MaxFrames
        BY <3>1, <3>2 DEF ReadRoomMessage
      <4> QED BY <1>1, <3>2, <4>1 DEF ReadRoomMessage, RoutingType
    <3>3. CASE ReadPing(c)
      <4>1. pings[c] + 1 \in 0 .. MaxPings
        BY <3>1, <3>3 DEF ReadPing
      <4> QED BY <1>1, <3>3, <4>1 DEF ReadPing, RoutingType
    <3> QED BY <1>16, <3>2, <3>3
  <2>2. RoutingType'
    BY <1>1, <1>4, <1>16, <2>1 DEF ReadRoomMessage, ReadPing, RoutingType
  <2> QED BY <1>1, <1>16, <2>2, KeptTypes DEF ReadRoomMessage, ReadPing
<1>17. CASE Snapshot(c)
  <2>1. RouteRecipients(fp[c]) \in SUBSET Fp
    BY <1>1 DEF RouteRecipients, HostType
  <2>2. pending' \in [Conn -> SUBSET Fp]
    BY <1>1, <1>17, <2>1 DEF Snapshot, RoutingType
  <2>3. owed' \in [Conn -> SUBSET Conn]
    BY <1>1, <1>17 DEF Snapshot, RoutingType
  <2>4. RoutingType'
    BY <1>1, <1>4, <1>17, <2>2, <2>3 DEF Snapshot, RoutingType
  <2> QED BY <1>1, <1>17, <2>4, KeptTypes DEF Snapshot
<1>18. CASE RouteLookup(c)
  <2>1. PICK f \in pending[c] :
          /\ pending' = [pending EXCEPT ![c] = @ \ {f}]
          /\ IF connected[f] = None
             THEN UNCHANGED <<pc, target, hostLock>>
             ELSE /\ pc' = [pc EXCEPT ![c] = "routeClients"]
                  /\ target' = [target EXCEPT ![c] = connected[f]]
                  /\ hostLock' = c
    BY <1>18 DEF RouteLookup
  <2>2. connected[f] \in Conn \cup {None}
    BY <1>1, <2>1 DEF HostType, RoutingType
  <2>3. pending' \in [Conn -> SUBSET Fp] /\ target' \in [Conn -> Conn \cup {None}]
    BY <1>1, <2>1, <2>2 DEF RoutingType
  <2>4. RoutingType'
    BY <1>1, <1>4, <1>18, <2>3 DEF RouteLookup, RoutingType
  <2>5. LocksType'
    BY <1>1, <1>18, <2>1 DEF RouteLookup, LocksType
  <2> QED BY <1>1, <1>18, <2>4, <2>5, KeptTypes DEF RouteLookup
<1>19. CASE RouteLockClients(c)
  <2>1. LocksType'
    BY <1>1, <1>19 DEF RouteLockClients, LocksType
  <2> QED BY <1>1, <1>19, <2>1, KeptTypes DEF RouteLockClients
<1>20. CASE RouteDeliver(c)
  <2>1. [from |-> c, n |-> sent[c]] \in Message
    BY <1>1, <1>20, RelayAssumption DEF RouteDeliver, Goto, Counted, Routing, RoutingType, Message
  <2>2. ASSUME NEW d \in Conn
        PROVE  Append(out[d], [from |-> c, n |-> sent[c]]) \in Seq(Message)
    BY <1>1, <2>1, AppendProperties DEF MapsType
  <2>3. out' \in [Conn -> Seq(Message)]
    BY <1>1, <1>20, <2>2 DEF RouteDeliver, Receiving, MapsType
  <2>4. MapsType'
    BY <1>1, <1>4, <1>20, <2>3 DEF RouteDeliver, MapsType
  <2>5. LocksType'
    BY <1>1, <1>20 DEF RouteDeliver, LocksType
  <2>6. RoutingType'
    BY <1>1, <1>4, <1>20 DEF RouteDeliver, RoutingType
  <2> QED BY <1>1, <1>20, <2>4, <2>5, <2>6, KeptTypes DEF RouteDeliver
<1>21. CASE Pong(c)
  <2>1. UNCHANGED <<world, host, locks>>
    BY <1>21 DEF Pong
  <2>2. MapsType' /\ RoutingType' /\ AnnouncingType'
    <3>1. CASE Drop(c)
      BY <1>1, <1>21, <3>1, DropType DEF Pong
    <3>2. CASE UNCHANGED <<out, cursor, inbox, told, owed>>
      <4>1. UNCHANGED <<maps, routing, announcing>>
        BY <1>21, <3>2 DEF Pong, maps, routing, announcing
      <4> QED BY <1>1, <4>1, KeptTypes
    <3> QED BY <1>21, <3>1, <3>2 DEF Pong
  <2> QED BY <1>1, <2>1, <2>2, KeptTypes
<1>22. CASE DrainOut(c)
  <2>1. Head(out[c]) \in Message /\ Tail(out[c]) \in Seq(Message)
    BY <1>1, <1>22, HeadTailProperties DEF DrainOut, MapsType
  <2>2. out' \in [Conn -> Seq(Message)]
    BY <1>1, <1>22, <2>1 DEF DrainOut, MapsType
  <2>3. MapsType'
    BY <1>1, <1>4, <1>22, <2>2 DEF DrainOut, MapsType
  <2>4. Append(inbox[c], Head(out[c])) \in Seq(Message)
    BY <1>1, <2>1, AppendProperties DEF RoutingType
  <2>5. inbox' \in [Conn -> Seq(Message)]
    BY <1>1, <1>22, <2>4 DEF DrainOut, RoutingType
  <2>6. RoutingType'
    BY <1>1, <1>4, <1>22, <2>5 DEF DrainOut, RoutingType
  <2> QED BY <1>1, <1>22, <2>3, <2>6, KeptTypes DEF DrainOut
<1>23. CASE Overrun(c) \/ TakeAnnouncement(c) \/ WriteAnnouncement(c)
  <2>1. /\ cursor[c] \in Nat /\ Len(bcast) \in Nat /\ cursor[c] + 1 \in 1 .. Len(bcast)
        /\ BroadcastCap \in Nat
    <3>1. cursor[c] \in 0 .. Len(bcast) /\ Len(bcast) \in Nat
      BY <1>1, LenProperties DEF AnnouncingType
    <3>2. cursor[c] < Len(bcast)
      BY <1>23, <3>1, RelayAssumption
         DEF Overrun, TakeAnnouncement, WriteAnnouncement, Goto, Ahead
    <3> QED BY <3>1, <3>2, RelayAssumption
  <2>2. bcast[cursor[c] + 1] \in Fp
    BY <1>1, <2>1, ElementOfSeq DEF AnnouncingType
  <2>3. told' \in [Conn -> [Fp -> Nat]]
    <3>1. Tell(c, bcast[cursor[c] + 1]) => told' \in [Conn -> [Fp -> Nat]]
      BY <1>1, <2>2, ToldType
    <3> QED BY <1>1, <1>23, <3>1 DEF Overrun, TakeAnnouncement, WriteAnnouncement, AnnouncingType
  <2>4. cursor' = cursor \/ \E k \in 0 .. Len(bcast) : cursor' = [cursor EXCEPT ![c] = k]
    <3>1. CASE Overrun(c)
      <4>1. /\ Len(bcast) - cursor[c] > BroadcastCap
            /\ cursor' = [cursor EXCEPT ![c] = Len(bcast) - BroadcastCap]
        BY <3>1 DEF Overrun
      <4>2. cursor[c] \in Nat
        BY <2>1
      <4>3. Len(bcast) - BroadcastCap \in 0 .. Len(bcast)
        BY <2>1, <4>1, <4>2
      <4> QED BY <4>1, <4>3
    <3>2. CASE TakeAnnouncement(c) \/ WriteAnnouncement(c)
      BY <2>1, <3>2 DEF TakeAnnouncement, WriteAnnouncement
    <3> QED BY <1>23, <3>1, <3>2
  <2>5. cursor' \in [Conn -> 0 .. Len(bcast)]
    BY <1>1, <2>4 DEF AnnouncingType
  <2>6. lagged' \subseteq Conn /\ UNCHANGED <<bcast, greet>>
    BY <1>1, <1>23 DEF Overrun, TakeAnnouncement, WriteAnnouncement, AnnouncingType
  <2>7. AnnouncingType'
    BY <1>1, <2>3, <2>5, <2>6 DEF AnnouncingType
  <2> QED BY <1>1, <1>23, <2>7, KeptTypes DEF Overrun, TakeAnnouncement, WriteAnnouncement
<1>24. CASE CleanAlias(c)
  <2>1. aliases' \subseteq Fp
    BY <1>1, <1>24 DEF CleanAlias, MapsType
  <2>2. out' \in [Conn -> Seq(Message)] /\ inbox' \in [Conn -> Seq(Message)]
    BY <1>1, <1>4, <1>24 DEF CleanAlias, Drop, MapsType, RoutingType
  <2>3. owed' \in [Conn -> SUBSET Conn]
    BY <1>1, <1>24 DEF CleanAlias, Drop, RoutingType
  <2>4. cursor' \in [Conn -> 0 .. Len(bcast)] /\ told' \in [Conn -> [Fp -> Nat]]
    BY <1>1, <1>24 DEF CleanAlias, Drop, AnnouncingType
  <2>5. MapsType'
    BY <1>1, <1>4, <1>24, <2>1, <2>2 DEF CleanAlias, MapsType
  <2>6. RoutingType'
    BY <1>1, <1>4, <1>24, <2>2, <2>3 DEF CleanAlias, RoutingType
  <2>7. AnnouncingType'
    BY <1>1, <1>24, <2>4 DEF CleanAlias, AnnouncingType
  <2> QED BY <1>1, <1>24, <2>5, <2>6, <2>7, KeptTypes DEF CleanAlias
<1> QED BY <1>5, <1>6, <1>7, <1>8, <1>9, <1>10, <1>11, <1>12, <1>13, <1>14, <1>15, <1>16, <1>17,
           <1>18, <1>19, <1>20, <1>21, <1>22, <1>23, <1>24 DEF Task, Client

\* Ahead is kept: a task begins to write only what is there, and nothing that is
\* announced is taken back.
LEMMA AheadKept ==
    ASSUME TypeOK, Ahead, NEW c \in Conn, Task(c) \/ Client(c)
    PROVE  Ahead'
<1>0. /\ PcType /\ bcast \in Seq(Fp) /\ cursor \in [Conn -> 0 .. Len(bcast)] /\ fp \in [Conn -> Fp]
      /\ Len(bcast) \in Nat
  BY TypeGroups, LenProperties DEF WorldType, AnnouncingType
<1>1. /\ \A d \in Conn \ {c} : pc'[d] = pc[d]
      /\ pc'[c] = "telling" => pc[c] = "telling" \/ TakeAnnouncement(c)
      /\ WriteAnnouncement(c) \/ Subscribe(c) \/ Aborts(c) \/ CleanAlias(c) => pc'[c] # "telling"
  <2>1. Aborts(c) => pc'[c] # "telling"
    BY <1>0 DEF Aborts, Goto, PcType
  <2> QED BY <1>0, <2>1, ActionMoves DEF Task, Client, Moves
<1>2. CASE Announce(c)
  <2>1. Len(bcast') = Len(bcast) + 1 /\ cursor' = cursor
    BY <1>0, <1>2, AppendProperties DEF Announce
  <2>2. pc'[c] # "telling"
    BY <1>0, <1>2, ActionMoves DEF Moves
  <2>3. ASSUME NEW d \in Conn, pc'[d] = "telling"
        PROVE  cursor'[d] < Len(bcast')
    <3>1. cursor[d] < Len(bcast) /\ cursor[d] \in Nat
      BY <1>0, <1>1, <2>2, <2>3 DEF Ahead
    <3> QED BY <1>0, <2>1, <3>1
  <2> QED BY <2>3 DEF Ahead
<1>3. CASE ~ Announce(c)
  <2>1. bcast' = bcast
    BY <1>3, Writers
  <2>2. cursor' = cursor \/ \E k : cursor' = [cursor EXCEPT ![c] = k]
    BY Writers DEF Subscribe, GreetOne, Overrun, TakeAnnouncement, WriteAnnouncement, Aborts,
       CleanAlias, Drop
  <2>3. \A d \in Conn \ {c} : cursor'[d] = cursor[d]
    BY <1>0, <2>2
  <2>4. pc'[c] = "telling" => cursor'[c] < Len(bcast)
    <3> SUFFICES ASSUME pc'[c] = "telling"
                 PROVE  cursor'[c] < Len(bcast)
      OBVIOUS
    <3>1. CASE TakeAnnouncement(c)
      <4>1. cursor[c] < Len(bcast) /\ (cursor' = cursor \/ pc'[c] = "loop")
        BY <1>0, <3>1 DEF TakeAnnouncement, Goto, PcType
      <4> QED BY <4>1
    <3>2. CASE ~ TakeAnnouncement(c)
      <4>1. pc[c] = "telling"
        BY <1>1, <3>2
      <4>2. ~ Overrun(c)
        BY <4>1 DEF Overrun
      <4>3. cursor' = cursor
        BY <1>1, <3>2, <4>2, Writers DEF GreetOne
      <4> QED BY <4>1, <4>3 DEF Ahead
    <3> QED BY <3>1, <3>2
  <2> QED BY <1>1, <2>1, <2>3, <2>4 DEF Ahead
<1> QED BY <1>2, <1>3

\* Types are kept by every step.
LEMMA TypeStep == TypeOK /\ Counted /\ Ahead /\ [Next]_vars => TypeOK' /\ Counted' /\ Ahead'
<1> SUFFICES ASSUME TypeOK, Counted, Ahead, [Next]_vars
             PROVE  TypeOK' /\ Counted' /\ Ahead'
  OBVIOUS
<1>1. PcType /\ DeafType /\ WorldType /\ HostType /\ MapsType /\ LocksType /\ RoutingType /\ AnnouncingType
  BY TypeGroups
<1>2. CASE \E c \in Conn : Task(c) \/ Client(c)
  BY <1>1, <1>2, TypeKept, CountedKept, AheadKept
<1>3. CASE Shutdown
  <2>1. WorldType'
    BY <1>1, <1>3 DEF Shutdown, WorldType
  <2>2. /\ PcType' /\ DeafType' /\ HostType' /\ MapsType' /\ LocksType'
        /\ RoutingType' /\ AnnouncingType'
    BY <1>1, <1>3, KeptTypes DEF Shutdown, DeafType
  <2>3. Counted' /\ Ahead'
    BY <1>3 DEF Shutdown, routing, announcing, Counted, Ahead
  <2> QED BY <2>1, <2>2, <2>3, TypeGroups, PTL
<1>4. CASE UNCHANGED vars
  <2>1. UNCHANGED <<pc, deaf, world, host, maps, locks, routing, announcing>>
    BY <1>4 DEF vars
  <2>2. /\ PcType' /\ DeafType' /\ WorldType' /\ HostType' /\ MapsType' /\ LocksType'
        /\ RoutingType' /\ AnnouncingType'
    BY <1>1, <2>1, KeptTypes DEF DeafType
  <2>3. Counted' /\ Ahead'
    BY <2>1 DEF routing, announcing, Counted, Ahead
  <2> QED BY <2>2, <2>3, TypeGroups, PTL
<1> QED BY <1>2, <1>3, <1>4 DEF Next

\* Types hold at the start.
LEMMA TypeInit == Init => TypeOK /\ Counted /\ Ahead
<1> SUFFICES ASSUME Init PROVE TypeOK /\ Counted /\ Ahead
  OBVIOUS
<1>1. PcType /\ DeafType /\ Counted /\ Ahead
  BY PhaseNames DEF Init, PcType, DeafType, Counted, Ahead, Routing
<1>2. WorldType /\ HostType /\ LocksType
  BY RelayAssumption DEF Init, WorldType, HostType, LocksType
<1>3. MapsType
  BY DEF Init, MapsType
<1>4. RoutingType
  BY RelayAssumption DEF Init, RoutingType
<1>5. AnnouncingType
  BY DEF Init, AnnouncingType
<1> QED BY <1>1, <1>2, <1>3, <1>4, <1>5, TypeGroups
-----------------------------------------------------------------------------
(* The locks *)

\* Every lock is held by the task that is in the phase it protects, and by no
\* other: the phases below are where the code keeps a guard across a wait.
LocksHeld ==
    \A c \in Conn : /\ hostLock = c <=> pc[c] \in {"routeClients", "deliver"}
                    /\ clientsLock = c <=> pc[c] = "deliver"
                    /\ aliasLock = c <=> pc[c] = "greeting"

\* The phases in which some lock is held.
Holding == {"routeClients", "deliver", "greeting"}

\* A lock is taken and released with the phase it belongs to.
LEMMA LocksKept ==
    ASSUME PcType, LocksHeld, NEW c \in Conn, Task(c) \/ Client(c)
    PROVE  LocksHeld'
<1>1. ASSUME NEW from, NEW to, Moves(c, from, to), locks' = locks,
             \A p \in from, q \in to : p = q \/ (p \notin Holding /\ q \notin Holding)
      PROVE  LocksHeld'
  BY <1>1 DEF LocksHeld, Moves, Holding, locks
<1>2. CASE GreetBegin(c)
  <2>1. Moves(c, {"greet"}, {"greeting"})
    BY <1>2, ActionMoves
  <2>2. aliasLock = None /\ aliasLock' = c /\ UNCHANGED <<hostLock, clientsLock>>
    BY <1>2 DEF GreetBegin
  <2> QED BY <2>1, <2>2, RelayAssumption DEF LocksHeld, Moves
<1>3. CASE GreetEnd(c)
  <2>1. Moves(c, {"greeting"}, {"announce"})
    BY <1>3, ActionMoves
  <2>2. aliasLock' = None /\ UNCHANGED <<hostLock, clientsLock>>
    BY <1>3 DEF GreetEnd
  <2> QED BY <2>1, <2>2, RelayAssumption DEF LocksHeld, Moves
<1>4. CASE RouteLookup(c)
  <2>1. UNCHANGED <<clientsLock, aliasLock>> /\ hostLock = None /\ pc[c] = "route"
    BY <1>4 DEF RouteLookup
  <2>2. \/ UNCHANGED <<pc, hostLock>>
        \/ pc' = [pc EXCEPT ![c] = "routeClients"] /\ hostLock' = c
    BY <1>4 DEF RouteLookup
  <2>3. CASE UNCHANGED <<pc, hostLock>>
    BY <2>1, <2>3 DEF LocksHeld
  <2>4. CASE pc' = [pc EXCEPT ![c] = "routeClients"] /\ hostLock' = c
    BY <2>1, <2>4, RelayAssumption DEF LocksHeld, PcType
  <2> QED BY <2>2, <2>3, <2>4
<1>5. CASE RouteLockClients(c)
  <2>1. Moves(c, {"routeClients"}, {"deliver"})
    BY <1>5, ActionMoves
  <2>2. clientsLock = None /\ clientsLock' = c /\ UNCHANGED <<hostLock, aliasLock>>
    BY <1>5 DEF RouteLockClients
  <2> QED BY <2>1, <2>2, RelayAssumption DEF LocksHeld, Moves
<1>6. CASE RouteDeliver(c)
  <2>1. Moves(c, {"deliver"}, {"route"})
    BY <1>6, ActionMoves
  <2>2. clientsLock' = None /\ hostLock' = None /\ aliasLock' = aliasLock
    BY <1>6 DEF RouteDeliver
  <2> QED BY <2>1, <2>2, RelayAssumption DEF LocksHeld, Moves
<1>7. CASE /\ ~ GreetBegin(c) /\ ~ GreetEnd(c) /\ ~ RouteLookup(c)
           /\ ~ RouteLockClients(c) /\ ~ RouteDeliver(c)
  <2>1. locks' = locks
    BY <1>7, Writers DEF locks
  <2>2. CASE UNCHANGED pc
    BY <2>1, <2>2 DEF LocksHeld, locks
  <2> QED BY <1>1, <1>7, <2>1, <2>2, ActionMoves DEF Task, Client, Holding
<1> QED BY <1>2, <1>3, <1>4, <1>5, <1>6, <1>7

\* No channel holds more than its capacity.
OutCapped == \A d \in Conn : Len(out[d]) <= OutCap

\* Only RouteDeliver adds to a channel, and it waits while the channel is full.
LEMMA OutCappedKept ==
    ASSUME TypeOK, OutCapped, NEW c \in Conn, Task(c) \/ Client(c)
    PROVE  OutCapped'
<1>1. out \in [Conn -> Seq(Message)] /\ OutCap \in Nat
  BY RelayAssumption DEF TypeOK
<1>2. CASE out' = out
  BY <1>2 DEF OutCapped
<1>3. CASE RouteDeliver(c)
  <2>1. PICK d : /\ Receiving(d) => Len(out[d]) < OutCap
                 /\ \/ out' = out
                    \/ /\ Receiving(d)
                       /\ out' = [out EXCEPT ![d] = Append(@, [from |-> c, n |-> sent[c]])]
    BY <1>3 DEF RouteDeliver
  <2>2. ASSUME NEW e \in Conn PROVE Len(out[e]) \in Nat
    BY <1>1, LenProperties
  <2>3. CASE out' # out /\ d \in Conn
    <3>1. \A e \in Conn \ {d} : out'[e] = out[e]
      BY <1>1, <2>1, <2>3
    <3>2. out'[d] = Append(out[d], [from |-> c, n |-> sent[c]])
      BY <1>1, <2>1, <2>3
    <3>3. Len(out'[d]) = Len(out[d]) + 1
      BY <1>1, <3>2, <2>3
    <3> QED BY <1>1, <2>1, <2>2, <2>3, <3>1, <3>3 DEF OutCapped
  <2> QED BY <1>1, <1>2, <2>1, <2>3
<1>4. CASE DrainOut(c)
  <2>1. out[c] # <<>> /\ out' = [out EXCEPT ![c] = Tail(@)]
    BY <1>4 DEF DrainOut
  <2>2. Len(Tail(out[c])) = Len(out[c]) - 1 /\ Len(out[c]) \in Nat
    BY <1>1, <2>1, HeadTailProperties, LenProperties
  <2> QED BY <1>1, <2>1, <2>2 DEF OutCapped
<1>5. CASE Drop(c)
  BY <1>1, <1>5 DEF Drop, OutCapped
<1> QED BY <1>2, <1>3, <1>4, <1>5, Writers DEF CleanAlias, Aborts
-----------------------------------------------------------------------------
(* Entries of connected_clients and lookups of a recipient *)

\* A connection that has not registered.
Absent == {"idle"} \cup Joining

\* An entry names a connection that authenticated as its fingerprint.
EntryOwn == \A f \in Fp : connected[f] # None =>
               fp[connected[f]] = f /\ pc[connected[f]] \notin Absent

\* Task c has registered from now on.
LEMMA PresentStays ==
    ASSUME TypeOK, NEW c \in Conn, Task(c) \/ Client(c)
    PROVE  /\ \A d \in Conn : pc[d] \notin Absent => pc'[d] \notin Absent /\ fp'[d] = fp[d]
           /\ \A d \in Conn : pc[d] # "idle" => pc'[d] # "idle" /\ fp'[d] = fp[d]
<1>1. \A d \in Conn \ {c} : pc'[d] = pc[d]
  BY TypeGroups, ActionMoves DEF Task, Client, Moves
<1>2. pc[c] \notin Absent => pc'[c] \notin Absent
  BY TypeGroups, ActionMoves DEF Task, Client, Moves, Absent, Joining
<1>3. pc[c] # "idle" => pc'[c] # "idle"
  BY TypeGroups, ActionMoves DEF Task, Client, Moves
<1>4. \A d \in Conn : pc[d] # "idle" => fp'[d] = fp[d]
  BY Writers DEF Connect, Goto, TypeOK
<1> QED BY <1>1, <1>2, <1>3, <1>4 DEF Absent

\* Register and CleanHost keep EntryOwn; no fingerprint changes afterwards.
LEMMA EntryKept ==
    ASSUME TypeOK, EntryOwn, NEW c \in Conn, Task(c) \/ Client(c)
    PROVE  EntryOwn'
<1>0. /\ fp \in [Conn -> Fp] /\ connected \in [Fp -> Conn \cup {None}] /\ PcType
  BY TypeGroups DEF WorldType, HostType
<1>1. ASSUME NEW f \in Fp, connected'[f] # None, connected'[f] = connected[f]
      PROVE  fp'[connected'[f]] = f /\ pc'[connected'[f]] \notin Absent
  BY <1>0, <1>1, PresentStays DEF EntryOwn
<1>2. CASE Register(c)
  <2>1. Moves(c, {"register"}, {"alias"}) /\ fp' = fp
    BY <1>0, <1>2, ActionMoves DEF Register, world
  <2>2. connected' = [connected EXCEPT ![fp[c]] = c]
    BY <1>2 DEF Register
  <2>3. fp'[c] = fp[c] /\ pc'[c] \notin Absent
    BY <2>1 DEF Moves, Absent, Joining
  <2> QED BY <1>0, <1>1, <2>2, <2>3 DEF EntryOwn
<1>3. CASE CleanHost(c)
  <2>1. connected' = [connected EXCEPT ![fp[c]] = None]
    BY <1>3 DEF CleanHost
  <2> QED BY <1>0, <1>1, <2>1 DEF EntryOwn
<1> QED BY <1>1, <1>2, <1>3, Writers DEF EntryOwn

\* A task looks up only connections of recipients it has still to serve, never
\* one of its own fingerprint, and has none looked up outside its fan-out.
TargetOwn ==
    \A c \in Conn :
        /\ pc[c] \in {"routeClients", "deliver"} => target[c] # None
        /\ target[c] # None => /\ pc[c] \in {"routeClients", "deliver"}
                               /\ fp[target[c]] # fp[c]
                               /\ fp[target[c]] \notin pending[c]
                               /\ pc[target[c]] \notin Absent
        /\ fp[c] \notin pending[c]
        /\ pending[c] # {} => pc[c] \in {"route", "routeClients", "deliver"}

\* Snapshot, RouteLookup and RouteDeliver keep TargetOwn.
LEMMA TargetKept ==
    ASSUME TypeOK, EntryOwn, TargetOwn, NEW c \in Conn, Task(c) \/ Client(c)
    PROVE  TargetOwn'
<1>0. /\ PcType /\ fp \in [Conn -> Fp] /\ connected \in [Fp -> Conn \cup {None}]
      /\ pending \in [Conn -> SUBSET Fp] /\ target \in [Conn -> Conn \cup {None}]
  BY TypeGroups DEF WorldType, HostType, RoutingType
<1>1. /\ \A d \in Conn \ {c} : pc'[d] = pc[d] /\ pending'[d] = pending[d] /\ target'[d] = target[d]
      /\ \A d \in Conn \ {c} : fp'[d] = fp[d]
  <2>1. \A d \in Conn \ {c} : pc'[d] = pc[d]
    BY <1>0, ActionMoves DEF Task, Client, Moves
  <2>2. \A d \in Conn \ {c} : pending'[d] = pending[d]
    BY <1>0, Writers DEF Snapshot, RouteLookup
  <2>3. \A d \in Conn \ {c} : target'[d] = target[d]
    BY <1>0, Writers DEF RouteDeliver, RouteLookup
  <2>4. \A d \in Conn \ {c} : fp'[d] = fp[d]
    BY <1>0, Writers DEF Connect
  <2> QED BY <2>1, <2>2, <2>3, <2>4
<1>2. \A d \in Conn : target[d] # None => /\ target[d] \in Conn /\ pc[target[d]] # "idle"
                                          /\ pc'[target[d]] \notin Absent
                                          /\ fp'[target[d]] = fp[target[d]]
  BY <1>0, PresentStays DEF TargetOwn, Absent
<1>3. SUFFICES /\ pc'[c] \in {"routeClients", "deliver"} => target'[c] # None
               /\ target'[c] # None => /\ pc'[c] \in {"routeClients", "deliver"}
                                       /\ fp'[target'[c]] # fp'[c]
                                       /\ fp'[target'[c]] \notin pending'[c]
                                       /\ pc'[target'[c]] \notin Absent
               /\ fp'[c] \notin pending'[c]
               /\ pending'[c] # {} => pc'[c] \in {"route", "routeClients", "deliver"}
  BY <1>1, <1>2 DEF TargetOwn
<1>4. CASE Snapshot(c)
  <2>1. Moves(c, {"snapshot"}, {"route"}) /\ fp' = fp /\ target' = target
    BY <1>0, <1>4, ActionMoves DEF Snapshot, world
  <2>2. pending'[c] = RouteRecipients(fp[c])
    BY <1>0, <1>4 DEF Snapshot
  <2> QED BY <2>1, <2>2 DEF Moves, RouteRecipients, TargetOwn
<1>5. CASE RouteLookup(c)
  <2>1. PICK f \in pending[c] :
          /\ pending' = [pending EXCEPT ![c] = @ \ {f}]
          /\ IF connected[f] = None
             THEN UNCHANGED <<pc, target, hostLock>>
             ELSE /\ pc' = [pc EXCEPT ![c] = "routeClients"]
                  /\ target' = [target EXCEPT ![c] = connected[f]]
                  /\ hostLock' = c
    BY <1>5 DEF RouteLookup
  <2>2. pc[c] = "route" /\ fp' = fp /\ f \in Fp /\ f # fp[c] /\ target[c] = None
    BY <1>0, <1>5, <2>1 DEF RouteLookup, world, TargetOwn
  <2>3. pending'[c] = pending[c] \ {f} /\ fp[c] \notin pending[c]
    BY <1>0, <2>1 DEF TargetOwn
  <2>4. CASE connected[f] = None
    BY <2>1, <2>2, <2>3, <2>4
  <2>5. CASE connected[f] # None
    <3>1. connected[f] \in Conn /\ fp[connected[f]] = f /\ pc[connected[f]] \notin Absent
      BY <1>0, <2>2, <2>5 DEF EntryOwn
    <3>2. pc'[connected[f]] \notin Absent
      BY <3>1, PresentStays
    <3>3. pc'[c] = "routeClients" /\ target'[c] = connected[f]
      BY <1>0, <2>1, <2>5 DEF PcType
    <3> QED BY <2>2, <2>3, <3>1, <3>2, <3>3, RelayAssumption
  <2> QED BY <2>4, <2>5
<1>6. CASE RouteDeliver(c)
  <2>1. Moves(c, {"deliver"}, {"route"}) /\ fp' = fp /\ pending' = pending
    BY <1>0, <1>6, ActionMoves DEF RouteDeliver, world
  <2>2. target'[c] = None
    BY <1>0, <1>6 DEF RouteDeliver
  <2> QED BY <2>1, <2>2 DEF Moves, TargetOwn
<1>7. CASE ~ Snapshot(c) /\ ~ RouteLookup(c) /\ ~ RouteDeliver(c)
  <2>1. pending' = pending /\ target' = target
    BY <1>7, Writers
  <2>2. pc[c] \in {"routeClients", "deliver"} <=> pc'[c] \in {"routeClients", "deliver"}
    BY <1>0, <1>7, ActionMoves DEF Task, Client, Moves
  <2>3. pc[c] \in {"route", "routeClients", "deliver"} =>
           pc'[c] \in {"route", "routeClients", "deliver"} \/ RouteEnd(c)
    BY <1>0, <1>7, ActionMoves DEF Task, Client, Moves
  <2>4. pending[c] # {} => pc'[c] \in {"route", "routeClients", "deliver"}
    BY <2>3 DEF TargetOwn, RouteEnd
  <2>5. fp'[c] \notin pending'[c]
    <3>1. CASE pc[c] = "idle"
      BY <2>1, <3>1 DEF TargetOwn
    <3>2. CASE pc[c] # "idle"
      BY <2>1, <3>2, PresentStays DEF TargetOwn
    <3> QED BY <3>1, <3>2
  <2>6. target[c] # None => fp'[c] = fp[c]
    BY PresentStays DEF TargetOwn
  <2> QED BY <1>2, <2>1, <2>2, <2>4, <2>5, <2>6 DEF TargetOwn
<1> QED BY <1>4, <1>5, <1>6, <1>7
-----------------------------------------------------------------------------
(* What each client receives *)

\* A frame moved from the channel to the client changes nothing of what the
\* client has received or will.
LEMMA DrainSame ==
    ASSUME NEW S, NEW a \in Seq(S), NEW b \in Seq(S), b # <<>>
    PROVE  Append(a, Head(b)) \o Tail(b) = a \o b
<1>1. b = <<Head(b)>> \o Tail(b) /\ Head(b) \in S /\ Tail(b) \in Seq(S)
  BY HeadTailProperties
<1>2. Append(a, Head(b)) = a \o <<Head(b)>>
  BY <1>1, AppendIsConcat
<1>3. <<Head(b)>> \in Seq(S)
  BY <1>1
<1> QED BY <1>1, <1>2, <1>3, ConcatAssociative

\* A frame put into the channel comes after all the client has received.
LEMMA AppendLast ==
    ASSUME NEW S, NEW a \in Seq(S), NEW b \in Seq(S), NEW m
    PROVE  a \o Append(b, m) = Append(a \o b, m)
<1> DEFINE T == S \cup {m}
<1>1. a \in Seq(T) /\ b \in Seq(T) /\ m \in T
  BY SeqDef
<1> HIDE DEF T
<1>2. Append(b, m) = b \o <<m>> /\ <<m>> \in Seq(T) /\ a \o b \in Seq(T)
  BY <1>1, AppendIsConcat, ConcatProperties
<1>3. Append(a \o b, m) = (a \o b) \o <<m>>
  BY <1>1, <1>2, AppendIsConcat
<1> QED BY <1>1, <1>2, <1>3, ConcatAssociative

\* What a step of task c changes of what client d has received or will.
LEMMA ReceivedStep ==
    ASSUME TypeOK, TargetOwn, NEW c \in Conn, Task(c) \/ Client(c), NEW d \in Conn
    PROVE  \/ /\ RouteDeliver(c) /\ target[c] = d
              /\ Received(d)' = Append(Received(d), [from |-> c, n |-> sent[c]])
           \/ /\ Received(d)' = Received(d)
              /\ RouteDeliver(c) /\ target[c] = d => ~ Receiving(d)
           \/ /\ d = c /\ (Aborts(c) \/ CleanAlias(c))
              /\ Received(d)' = <<>>
<1>1. /\ out \in [Conn -> Seq(Message)] /\ inbox \in [Conn -> Seq(Message)]
      /\ target \in [Conn -> Conn \cup {None}] /\ PcType
  BY TypeGroups DEF MapsType, RoutingType
<1>2. CASE RouteDeliver(c)
  <2> DEFINE m == [from |-> c, n |-> sent[c]]
  <2>1. /\ inbox' = inbox
        /\ out' = IF Receiving(target[c]) THEN [out EXCEPT ![target[c]] = Append(@, m)] ELSE out
    BY <1>2 DEF RouteDeliver
  <2>2. CASE target[c] = d /\ Receiving(d)
    <3>1. out'[d] = Append(out[d], m)
      BY <1>1, <2>1, <2>2
    <3>2. inbox[d] \o Append(out[d], m) = Append(inbox[d] \o out[d], m)
      <4> HIDE DEF m
      <4> QED BY <1>1, AppendLast
    <3> QED BY <1>2, <2>1, <2>2, <3>1, <3>2 DEF Received
  <2>3. CASE ~ (target[c] = d /\ Receiving(d))
    <3>1. out'[d] = out[d]
      BY <1>1, <2>1, <2>3
    <3> QED BY <2>1, <2>3, <3>1 DEF Received
  <2> QED BY <2>2, <2>3
<1>3. CASE DrainOut(c)
  <2>1. /\ out[c] # <<>> /\ out' = [out EXCEPT ![c] = Tail(@)]
        /\ inbox' = [inbox EXCEPT ![c] = Append(@, Head(out[c]))]
    BY <1>3 DEF DrainOut
  <2>2. ~ RouteDeliver(c)
    BY <1>1, <1>3, ActionMoves DEF Moves
  <2>3. CASE d # c
    BY <1>1, <2>1, <2>2, <2>3 DEF Received
  <2>4. CASE d = c
    <3>1. out'[c] = Tail(out[c]) /\ inbox'[c] = Append(inbox[c], Head(out[c]))
      BY <1>1, <2>1, <2>4
    <3>2. Received(d)' = Received(d)
      BY <1>1, <2>1, <2>4, <3>1, DrainSame DEF Received
    <3> QED BY <2>2, <3>2
  <2> QED BY <2>3, <2>4
<1>4. CASE Aborts(c) \/ CleanAlias(c)
  <2>1. ~ RouteDeliver(c)
    BY <1>1, <1>4, ActionMoves DEF Moves, Aborts
  <2>2. out' = [out EXCEPT ![c] = <<>>] /\ inbox' = [inbox EXCEPT ![c] = <<>>]
    BY <1>4 DEF CleanAlias, Aborts, Drop
  <2>3. CASE d = c
    <3>1. Received(d)' = <<>> \o <<>>
      BY <1>1, <2>2, <2>3 DEF Received
    <3>2. <<>> \o <<>> = <<>>
      OBVIOUS
    <3> QED BY <1>4, <2>3, <3>1, <3>2
  <2>4. CASE d # c
    BY <1>1, <2>1, <2>2, <2>4 DEF Received
  <2> QED BY <2>3, <2>4
<1>5. CASE ~ RouteDeliver(c) /\ ~ DrainOut(c) /\ ~ Aborts(c) /\ ~ CleanAlias(c)
  <2>1. UNCHANGED <<out, inbox>>
    BY <1>5, Writers
  <2> QED BY <1>5, <2>1 DEF Received
<1> QED BY <1>2, <1>3, <1>4, <1>5
-----------------------------------------------------------------------------
(* The order of one sender's messages *)

\* A message on its way to d, or received by it, comes from another member; its
\* sender has read it, and if it is the sender's latest then the sender is past
\* the choice of recipients and will not serve d again.
Good(d, m) ==
    /\ fp[m.from] # fp[d] /\ pc[m.from] # "idle" /\ pc[d] # "idle"
    /\ m.n <= sent[m.from]
    /\ m.n = sent[m.from] => /\ pc[m.from] # "snapshot" /\ fp[d] \notin pending[m.from]
                             /\ target[m.from] # d

\* Of two messages of one sender the later one has the greater number.
Rising(r) == \A i \in 1 .. Len(r) : \A j \in 1 .. i - 1 :
                r[j].from = r[i].from => r[j].n < r[i].n

\* SenderOrder with what makes it inductive: every message is Good.
OrderInv ==
    \A d \in Conn : /\ \A i \in 1 .. Len(Received(d)) : Good(d, Received(d)[i])
                    /\ Rising(Received(d))

\* A message that is greater than all its sender has put there may be added.
LEMMA AppendRises ==
    ASSUME NEW r \in Seq(Message), NEW m \in Message, Rising(r),
           \A i \in 1 .. Len(r) : r[i].from = m.from => r[i].n < m.n
    PROVE  Rising(Append(r, m))
<1>1. /\ Len(r) \in Nat /\ Len(Append(r, m)) = Len(r) + 1 /\ Append(r, m)[Len(r) + 1] = m
      /\ \A i \in 1 .. Len(r) : Append(r, m)[i] = r[i]
  BY AppendProperties, LenProperties
<1> DEFINE s == Append(r, m)
<1> HIDE DEF s
<1>2. ASSUME NEW i \in 1 .. Len(s), NEW j \in 1 .. i - 1, s[j].from = s[i].from
      PROVE  s[j].n < s[i].n
  <2>1. j \in 1 .. Len(r) /\ s[j] = r[j]
    BY <1>1 DEF s
  <2>2. CASE i = Len(r) + 1
    BY <1>1, <1>2, <2>1, <2>2 DEF s
  <2>3. CASE i # Len(r) + 1
    <3>1. i \in 1 .. Len(r) /\ s[i] = r[i]
      BY <1>1, <2>3 DEF s
    <3> QED BY <1>2, <2>1, <3>1 DEF Rising
  <2> QED BY <2>2, <2>3
<1> QED BY <1>2 DEF Rising, s

\* A message on its way stays what it is, whatever a task does.
LEMMA GoodKept ==
    ASSUME TypeOK, EntryOwn, NEW c \in Conn, Task(c) \/ Client(c),
           NEW d \in Conn, NEW m \in Message, Good(d, m)
    PROVE  Good(d, m)'
<1> DEFINE e == m.from
<1>0. /\ e \in Conn /\ m.n \in Nat
      /\ PcType /\ fp \in [Conn -> Fp] /\ connected \in [Fp -> Conn \cup {None}]
      /\ pending \in [Conn -> SUBSET Fp] /\ target \in [Conn -> Conn \cup {None}]
      /\ sent \in [Conn -> 0 .. MaxFrames]
  BY TypeGroups DEF WorldType, HostType, RoutingType, Message
<1> HIDE DEF e
<1>1. /\ pc'[e] # "idle" /\ fp'[e] = fp[e]
      /\ pc'[d] # "idle" /\ fp'[d] = fp[d]
  BY <1>0, PresentStays DEF Good, e
<1>2. CASE ReadRoomMessage(c) /\ c = e
  <2>1. sent'[e] = sent[e] + 1 /\ sent[e] \in Nat
    BY <1>0, <1>2 DEF ReadRoomMessage
  <2>2. m.n < sent'[e]
    BY <1>0, <2>1 DEF Good, e
  <2> QED BY <1>0, <1>1, <2>1, <2>2 DEF Good, e
<1>3. CASE ~ (ReadRoomMessage(c) /\ c = e)
  <2>1. sent'[e] = sent[e]
    BY <1>0, <1>3, Writers DEF ReadRoomMessage
  <2>2. SUFFICES ASSUME m.n = sent[e]
                 PROVE  pc'[e] # "snapshot" /\ fp[d] \notin pending'[e] /\ target'[e] # d
    BY <1>1, <2>1 DEF Good, e
  <2>3. pc[e] # "snapshot" /\ fp[d] \notin pending[e] /\ target[e] # d
    BY <2>2 DEF Good, e
  <2>4. pc'[e] # "snapshot"
    BY <1>0, <1>3, <2>3, ActionMoves DEF Task, Client, Moves
  <2>5. CASE RouteLookup(c)
    <3>1. PICK f \in pending[c] :
            /\ pending' = [pending EXCEPT ![c] = @ \ {f}]
            /\ IF connected[f] = None
               THEN UNCHANGED <<pc, target, hostLock>>
               ELSE /\ pc' = [pc EXCEPT ![c] = "routeClients"]
                    /\ target' = [target EXCEPT ![c] = connected[f]]
                    /\ hostLock' = c
      BY <2>5 DEF RouteLookup
    <3>2. fp[d] \notin pending'[e]
      BY <1>0, <2>3, <3>1
    <3>3. connected[f] # None => fp[connected[f]] = f
      BY <1>0, <3>1 DEF EntryOwn
    <3>4. target'[e] # d
      BY <1>0, <2>3, <3>1, <3>3
    <3> QED BY <2>4, <3>2, <3>4
  <2>6. CASE RouteDeliver(c)
    <3>1. pending' = pending /\ target' = [target EXCEPT ![c] = None]
      BY <2>6 DEF RouteDeliver
    <3>2. target'[e] # d
      BY <1>0, <2>3, <3>1, RelayAssumption
    <3> QED BY <2>3, <2>4, <3>1, <3>2
  <2>7. CASE ~ RouteLookup(c) /\ ~ RouteDeliver(c)
    <3>1. target' = target
      BY <2>7, Writers
    <3>2. pending'[e] = pending[e]
      <4>1. Snapshot(c) => c # e
        BY <2>3 DEF Snapshot, Goto
      <4>2. Snapshot(c) => pending'[e] = pending[e]
        BY <1>0, <4>1 DEF Snapshot
      <4> QED BY <2>7, <4>2, Writers
    <3> QED BY <2>3, <2>4, <3>1, <3>2
  <2> QED BY <2>5, <2>6, <2>7
<1> QED BY <1>2, <1>3

\* What a client has received or will is a sequence of messages.
LEMMA ReceivedType ==
    ASSUME TypeOK, NEW d \in Conn
    PROVE  Received(d) \in Seq(Message)
BY ConcatProperties DEF Received, TypeOK

\* Every step keeps the order: it adds the sender's latest, or only removes.
LEMMA OrderKept ==
    ASSUME TypeOK, TypeOK', Counted, EntryOwn, TargetOwn, OrderInv,
           NEW c \in Conn, Task(c) \/ Client(c)
    PROVE  OrderInv'
<1> SUFFICES ASSUME NEW d \in Conn
             PROVE  /\ (\A i \in 1 .. Len(Received(d)) : Good(d, Received(d)[i]))'
                    /\ Rising(Received(d))'
  BY DEF OrderInv
<1>a. PICK s : s = Received(d)'
  OBVIOUS
<1>b. PICK r : r = Received(d)
  OBVIOUS
<1>c. SUFFICES (\A i \in 1 .. Len(s) : Good(d, s[i])') /\ Rising(s)
  BY <1>a DEF Good, Rising
<1>1. r \in Seq(Message)
  BY <1>b, ReceivedType
<1>2. s \in Seq(Message)
  <2>1. out' \in [Conn -> Seq(Message)] /\ inbox' \in [Conn -> Seq(Message)]
    BY DEF TypeOK, Message
  <2> QED BY <1>a, <2>1, ConcatProperties DEF Received
<1>3. /\ \A i \in 1 .. Len(r) : r[i] \in Message /\ Good(d, r[i])
      /\ Rising(r)
  BY <1>1, <1>b, ElementOfSeq DEF OrderInv
<1>4. \A i \in 1 .. Len(r) : Good(d, r[i])'
  BY <1>3, GoodKept
<1>5. CASE RouteDeliver(c) /\ target[c] = d /\ s = Append(r, [from |-> c, n |-> sent[c]])
  <2>m. PICK m : m = [from |-> c, n |-> sent[c]]
    OBVIOUS
  <2>0. /\ PcType /\ sent \in [Conn -> 0 .. MaxFrames] /\ target \in [Conn -> Conn \cup {None}]
    BY TypeGroups DEF RoutingType
  <2>1. /\ pc[c] = "deliver" /\ pc'[c] = "route" /\ pc'[d] \notin Absent
        /\ fp[d] # fp[c] /\ fp[d] \notin pending[c]
    <3>1. pc[c] = "deliver" /\ pc'[c] = "route"
      BY <1>5, <2>0, ActionMoves DEF Moves
    <3>2. fp[d] # fp[c] /\ fp[d] \notin pending[c] /\ pc[d] \notin Absent
      BY <1>5, RelayAssumption DEF TargetOwn
    <3> QED BY <3>1, <3>2, PresentStays
  <2>2. UNCHANGED <<fp, sent, pending>> /\ target'[c] = None
    BY <1>5, <2>0 DEF RouteDeliver, world
  <2>3. sent[c] > 0 /\ sent[c] \in 1 .. MaxFrames
    BY <2>0, <2>1, RelayAssumption DEF Counted, Routing
  <2>4. m \in Message /\ m.from = c /\ m.n = sent[c]
    BY <2>m, <2>3 DEF Message
  <2>5. Good(d, m)'
    BY <2>1, <2>2, <2>3, <2>4, RelayAssumption DEF Good, Absent
  <2>6. \A i \in 1 .. Len(r) : r[i].from = m.from => r[i].n < m.n
    <3> SUFFICES ASSUME NEW i \in 1 .. Len(r), r[i].from = c
                 PROVE  r[i].n < sent[c]
      BY <2>4
    <3>1. r[i].n \in Nat /\ r[i].n <= sent[c] /\ (r[i].n = sent[c] => target[c] # d)
      BY <1>3 DEF Good, Message
    <3> QED BY <1>5, <2>3, <3>1
  <2>7. Rising(Append(r, m))
    BY <1>1, <1>3, <2>4, <2>6, AppendRises
  <2>8. \A i \in 1 .. Len(Append(r, m)) : Good(d, Append(r, m)[i])'
    <3>1. /\ Len(r) \in Nat /\ Len(Append(r, m)) = Len(r) + 1 /\ Append(r, m)[Len(r) + 1] = m
          /\ \A i \in 1 .. Len(r) : Append(r, m)[i] = r[i]
      BY <1>1, <2>4, AppendProperties, LenProperties
    <3>2. ASSUME NEW i \in 1 .. Len(Append(r, m))
          PROVE  Good(d, Append(r, m)[i])'
      <4>1. CASE i = Len(r) + 1
        BY <2>5, <3>1, <4>1
      <4>2. CASE i # Len(r) + 1
        <5>1. i \in 1 .. Len(r) /\ Append(r, m)[i] = r[i]
          BY <3>1, <4>2
        <5> QED BY <1>4, <5>1
      <4> QED BY <4>1, <4>2
    <3> QED BY <3>2
  <2>9. s = Append(r, m)
    BY <1>5, <2>m
  <2>10. \A i \in 1 .. Len(s) : Good(d, s[i])'
    BY <2>8, <2>9
  <2> QED BY <2>7, <2>9, <2>10
<1>6. CASE s = r
  BY <1>3, <1>4, <1>6
<1>8. CASE s = <<>>
  BY <1>8 DEF Rising
<1> QED BY <1>a, <1>b, <1>5, <1>6, <1>8, ReceivedStep
-----------------------------------------------------------------------------
(* The invariant, and what follows from it *)

\* What holds of the relay whatever its clients do.
RelayInv == /\ TypeOK /\ Counted /\ Ahead /\ LocksHeld /\ OutCapped
            /\ EntryOwn /\ TargetOwn /\ OrderInv

\* The invariant holds at the start.
LEMMA RelayInit == Init => RelayInv
<1> SUFFICES ASSUME Init PROVE RelayInv
  OBVIOUS
<1>1. TypeOK /\ Counted /\ Ahead
  BY TypeInit
<1>2. LocksHeld /\ EntryOwn /\ TargetOwn
  BY RelayAssumption DEF Init, LocksHeld, EntryOwn, TargetOwn
<1>3. OutCapped
  BY RelayAssumption DEF Init, OutCapped
<1>4. OrderInv
  <2>1. ASSUME NEW d \in Conn PROVE Received(d) = <<>>
    <3>1. Received(d) = <<>> \o <<>>
      BY DEF Init, Received
    <3>2. <<>> \o <<>> = <<>>
      OBVIOUS
    <3> QED BY <3>1, <3>2
  <2> QED BY <2>1 DEF OrderInv, Rising
<1> QED BY <1>1, <1>2, <1>3, <1>4 DEF RelayInv

\* Every step keeps the invariant.
LEMMA RelayStep == RelayInv /\ [Next]_vars => RelayInv'
<1> SUFFICES ASSUME RelayInv, [Next]_vars
             PROVE  RelayInv'
  OBVIOUS
<1>1. TypeOK' /\ Counted' /\ Ahead'
  BY TypeStep DEF RelayInv
<1>2. CASE \E c \in Conn : Task(c) \/ Client(c)
  <2>1. PICK c \in Conn : Task(c) \/ Client(c)
    BY <1>2
  <2>2. LocksHeld'
    BY <2>1, LocksKept, TypeGroups DEF RelayInv
  <2>3. OutCapped'
    BY <2>1, OutCappedKept DEF RelayInv
  <2>4. EntryOwn' /\ TargetOwn'
    BY <2>1, EntryKept, TargetKept DEF RelayInv
  <2>5. OrderInv'
    BY <1>1, <2>1, OrderKept DEF RelayInv
  <2> QED BY <1>1, <2>2, <2>3, <2>4, <2>5 DEF RelayInv
<1>3. CASE Shutdown \/ UNCHANGED vars
  <2>1. UNCHANGED <<pc, fp, host, maps, locks, routing, announcing>>
    BY <1>3 DEF Shutdown, vars, world
  <2>2. LocksHeld' /\ OutCapped'
    BY <2>1 DEF RelayInv, LocksHeld, OutCapped, locks, maps
  <2>3. EntryOwn' /\ TargetOwn'
    BY <2>1 DEF RelayInv, EntryOwn, TargetOwn, host, routing
  <2>4. OrderInv'
    <3>1. UNCHANGED <<inbox, out, fp, pc, sent, pending, target>>
      BY <2>1 DEF maps, routing
    <3>2. \A d \in Conn : Received(d)' = Received(d)
      BY <3>1 DEF Received
    <3>3. OrderInv
      BY DEF RelayInv
    <3> QED BY <3>1, <3>2, <3>3 DEF OrderInv, Good, Rising
  <2> QED BY <1>1, <2>2, <2>3, <2>4 DEF RelayInv
<1> QED BY <1>2, <1>3 DEF Next

\* The invariant holds in every reachable state.
THEOREM RelayInvariant == Spec => []RelayInv
BY RelayInit, RelayStep, PTL DEF Spec

\* Every variable of the relay stays in its type.
THEOREM TypeCorrect == Spec => []TypeOK
<1>1. RelayInv => TypeOK
  BY DEF RelayInv
<1> QED BY <1>1, RelayInvariant, PTL

\* The messages of one sender reach each client in the order in which they were
\* read from it, none of them twice and none of them back to the sender, however
\* tasks interleave, clients come, stop reading and go, and even when a member
\* has two connections at once (route_message, the fan-out and the drain branch
\* of handle_client).
THEOREM SenderOrderCorrect == Spec => []SenderOrder
<1>1. RelayInv => SenderOrder
  BY DEF RelayInv, OrderInv, Good, Rising, SenderOrder
<1> QED BY <1>1, RelayInvariant, PTL

\* The task that holds the HostService can take its next step: the map of
\* channels is free when it comes to lock it, and with both locks it waits for
\* nothing but room in the channel of a recipient that has not ended.
HolderProceeds ==
    \A c \in Conn : hostLock = c =>
        \/ pc[c] = "routeClients" /\ clientsLock = None
        \/ /\ pc[c] = "deliver" /\ clientsLock = c
           /\ \/ Receiving(target[c]) => Len(out[target[c]]) < OutCap
              \/ Len(out[target[c]]) = OutCap /\ pc[target[c]] \notin Over

\* No cycle of locks wedges the host, for any number of connections.
THEOREM HolderProceedsCorrect == Spec => []HolderProceeds
<1>1. RelayInv => HolderProceeds
  <2> SUFFICES ASSUME RelayInv, NEW c \in Conn, hostLock = c
               PROVE  \/ pc[c] = "routeClients" /\ clientsLock = None
                      \/ /\ pc[c] = "deliver" /\ clientsLock = c
                         /\ \/ Receiving(target[c]) => Len(out[target[c]]) < OutCap
                            \/ Len(out[target[c]]) = OutCap /\ pc[target[c]] \notin Over
    BY DEF HolderProceeds
  <2>1. pc[c] \in {"routeClients", "deliver"}
    BY DEF RelayInv, LocksHeld
  <2>2. CASE pc[c] = "routeClients"
    <3>1. \A d \in Conn : clientsLock = d => d = c
      BY DEF RelayInv, LocksHeld
    <3>2. clientsLock \in Conn \cup {None} /\ clientsLock # c
      BY <2>2 DEF RelayInv, TypeOK, LocksHeld
    <3> QED BY <2>2, <3>1, <3>2
  <2>3. CASE pc[c] = "deliver"
    <3>1. clientsLock = c
      BY <2>3 DEF RelayInv, LocksHeld
    <3>2. target[c] \in Conn
      BY <2>3 DEF RelayInv, TypeOK, TargetOwn
    <3>3. Len(out[target[c]]) <= OutCap /\ Len(out[target[c]]) \in Nat /\ OutCap \in Nat
      BY <3>2, LenProperties, RelayAssumption DEF RelayInv, OutCapped, TypeOK
    <3> QED BY <2>3, <3>1, <3>3 DEF Receiving
  <2> QED BY <2>1, <2>2, <2>3
<1> QED BY <1>1, RelayInvariant, PTL
-----------------------------------------------------------------------------
(* Connections that were never registered next to another one of their peer *)

\* Of two tasks of one peer that are registered, neither goes unnoticed.
Alone == \A c, d \in Conn :
            c # d /\ pc[c] \in Registered /\ pc[d] \in Registered /\ fp[c] = fp[d] => c \in doubled

\* Nothing is ever taken out of the history.
LEMMA DoubledGrows ==
    ASSUME NEW c \in Conn, Task(c) \/ Client(c)
    PROVE  doubled \subseteq doubled'
BY Writers DEF Register, Doubles

\* A task that registers next to others of its peer notes them and itself.
LEMMA AloneKept ==
    ASSUME TypeOK, Alone, NEW c \in Conn, Task(c) \/ Client(c)
    PROVE  Alone'
<1>0. PcType /\ fp \in [Conn -> Fp]
  BY TypeGroups DEF WorldType
<1>1. \A d \in Conn \ {c} : pc'[d] = pc[d]
  BY <1>0, ActionMoves DEF Task, Client, Moves
<1>2. pc'[c] \in Registered => pc[c] \in Registered \/ Register(c)
  BY <1>0, ActionMoves DEF Task, Client, Moves, Registered, Starting, Looping, Leaving
<1>3. \A d \in Conn : pc[d] # "idle" => fp'[d] = fp[d]
  BY PresentStays
<1>4. "idle" \notin Registered
  BY DEF Registered, Starting, Looping, Leaving
<1>5. CASE Register(c)
  <2>1. fp' = fp
    BY <1>5 DEF Register, world
  <2>2. \A d \in Conn \ {c} : pc[d] \in Registered /\ fp[d] = fp[c] => c \in doubled' /\ d \in doubled'
    BY <1>5 DEF Register, Doubles
  <2> QED BY <1>1, <2>1, <2>2, DoubledGrows DEF Alone
<1>6. CASE ~ Register(c)
  <2>1. \A d \in Conn : pc'[d] \in Registered => pc[d] \in Registered /\ fp'[d] = fp[d]
    BY <1>1, <1>2, <1>3, <1>4, <1>6
  <2> QED BY <2>1, DoubledGrows DEF Alone
<1> QED BY <1>5, <1>6

\* A serving task is marked ready: register and mark happen under one lock.
ReadyToo == \A c \in Conn \ doubled : pc[c] \in Serving => fp[c] \in ready

\* A phase in which a task serves is entered by registering and left by giving
\* the entry back or by ending on a failed pong.
LEMMA ServingMoves ==
    ASSUME TypeOK, NEW c \in Conn, Task(c) \/ Client(c)
    PROVE  /\ pc'[c] \in Serving => pc[c] \in Serving \/ Register(c)
           /\ pc[c] \in Serving => pc'[c] \in Serving \cup {"aborted"} \/ CleanHost(c)
           /\ pc[c] = "aborted" => pc'[c] = "aborted"
           /\ Register(c) => pc[c] = "register" /\ pc'[c] = "alias"
           /\ CleanHost(c) => pc[c] = "cleanHost" /\ pc'[c] = "cleanClients"
<1>0. PcType
  BY TypeGroups
<1> QED BY <1>0, ActionMoves DEF Task, Client, Moves, Serving, Starting, Looping

\* A task replaces or removes no entry but that of its peer, which has no other
\* registered task that counts.
LEMMA RegistrationKept ==
    ASSUME TypeOK, Alone, RegistrationCoherent, ReadyToo, NEW c \in Conn, Task(c) \/ Client(c)
    PROVE  RegistrationCoherent' /\ ReadyToo'
<1>0. /\ PcType /\ fp \in [Conn -> Fp] /\ connected \in [Fp -> Conn \cup {None}]
  BY TypeGroups DEF WorldType, HostType
<1>1. \A d \in Conn \ {c} : pc'[d] = pc[d]
  BY <1>0, ActionMoves DEF Task, Client, Moves
<1>2. \A d \in Conn : pc[d] # "idle" => fp'[d] = fp[d]
  BY PresentStays
<1>3. \A d \in Conn : pc[d] \in Serving \cup {"aborted"} => pc[d] # "idle"
  BY DEF Serving, Starting, Looping
<1>7. Serving \subseteq Registered
  BY DEF Serving, Registered, Starting, Looping, Leaving
<1>4. CASE Register(c)
  <2>1. /\ connected' = [connected EXCEPT ![fp[c]] = c] /\ ready' = ready \cup {fp[c]}
        /\ fp' = fp /\ pc[c] = "register" /\ pc'[c] = "alias"
    BY <1>4, ServingMoves DEF Register, world
  <2>2. \A d \in Conn \ doubled' : pc[d] \in Serving /\ fp[d] = fp[c] => d = c
    BY <1>4, <1>7 DEF Register, Doubles
  <2>3. "alias" \in Serving /\ "register" \notin Serving
    BY DEF Serving, Starting, Looping
  <2>4. \A d \in Conn \ doubled' : pc'[d] \in Serving => connected'[fp'[d]] = d /\ fp'[d] \in ready'
    BY <1>0, <1>1, <2>1, <2>2, <2>3, DoubledGrows DEF RegistrationCoherent, ReadyToo
  <2>5. ASSUME NEW f \in Fp, connected'[f] # None
        PROVE  fp'[connected'[f]] = f /\ pc'[connected'[f]] \in Serving \cup {"aborted"}
    <3>1. CASE f = fp[c]
      BY <1>0, <2>1, <2>3, <3>1
    <3>2. CASE f # fp[c]
      <4>1. connected'[f] = connected[f] /\ connected[f] \in Conn
        BY <1>0, <2>1, <2>5, <3>2
      <4>2. fp[connected[f]] = f /\ pc[connected[f]] \in Serving \cup {"aborted"}
        BY <2>5, <4>1 DEF RegistrationCoherent
      <4> QED BY <1>1, <2>1, <3>2, <4>1, <4>2
    <3> QED BY <3>1, <3>2
  <2> QED BY <2>4, <2>5 DEF RegistrationCoherent, ReadyToo
<1>5. CASE CleanHost(c)
  <2>1. /\ connected' = [connected EXCEPT ![fp[c]] = None] /\ ready' = ready \ {fp[c]}
        /\ fp' = fp /\ pc[c] = "cleanHost" /\ pc'[c] = "cleanClients"
    BY <1>5, ServingMoves DEF CleanHost, world
  <2>2. "cleanHost" \in Serving /\ "cleanClients" \notin Serving
    BY DEF Serving, Starting, Looping
  <2>3. \A d \in Conn \ doubled : pc[d] \in Serving /\ fp[d] = fp[c] => d = c
    BY <1>7, <2>1, <2>2 DEF Alone
  <2>4. \A d \in Conn \ doubled' : pc'[d] \in Serving => connected'[fp'[d]] = d /\ fp'[d] \in ready'
    BY <1>0, <1>1, <2>1, <2>2, <2>3, DoubledGrows DEF RegistrationCoherent, ReadyToo
  <2>5. ASSUME NEW f \in Fp, connected'[f] # None
        PROVE  fp'[connected'[f]] = f /\ pc'[connected'[f]] \in Serving \cup {"aborted"}
    <3>1. f # fp[c] /\ connected'[f] = connected[f] /\ connected[f] \in Conn
      BY <1>0, <2>1, <2>5
    <3>2. fp[connected[f]] = f /\ pc[connected[f]] \in Serving \cup {"aborted"}
      BY <2>5, <3>1 DEF RegistrationCoherent
    <3> QED BY <1>1, <2>1, <3>1, <3>2
  <2> QED BY <2>4, <2>5 DEF RegistrationCoherent, ReadyToo
<1>6. CASE ~ Register(c) /\ ~ CleanHost(c)
  <2>1. UNCHANGED <<connected, ready>>
    BY <1>6, Writers
  <2>2. \A d \in Conn : pc'[d] \in Serving => pc[d] \in Serving
    BY <1>1, <1>6, ServingMoves
  <2>3. \A d \in Conn : pc[d] \in Serving \cup {"aborted"} => pc'[d] \in Serving \cup {"aborted"}
    BY <1>1, <1>6, ServingMoves
  <2>4. \A d \in Conn \ doubled' : pc'[d] \in Serving => connected'[fp'[d]] = d /\ fp'[d] \in ready'
    BY <1>2, <1>3, <2>1, <2>2, DoubledGrows DEF RegistrationCoherent, ReadyToo
  <2>5. ASSUME NEW f \in Fp, connected'[f] # None
        PROVE  fp'[connected'[f]] = f /\ pc'[connected'[f]] \in Serving \cup {"aborted"}
    <3>1. connected[f] \in Conn /\ connected'[f] = connected[f]
      BY <1>0, <2>1, <2>5
    <3> QED BY <1>2, <1>3, <2>3, <2>5, <3>1 DEF RegistrationCoherent
  <2> QED BY <2>4, <2>5 DEF RegistrationCoherent, ReadyToo
<1> QED BY <1>4, <1>5, <1>6

\* A task has its channel from creating it to removing it.
Reachable == {"subscribe", "greet", "greeting", "announce", "cleanHost", "cleanClients"}
                \cup Looping
ChannelHeld == \A c \in Conn : pc[c] \in Reachable => c \in channels

\* A member has its alias from inserting it to removing it.
Named == {"channel", "subscribe", "greet", "greeting", "announce"} \cup Looping \cup Leaving
AliasHeld == \A c \in Conn \ doubled : pc[c] \in Named => fp[c] \in aliases

\* CreateChannel and CleanClients frame the phases of Reachable.
LEMMA ChannelKept ==
    ASSUME TypeOK, ChannelHeld, NEW c \in Conn, Task(c) \/ Client(c)
    PROVE  ChannelHeld'
<1>0. PcType
  BY TypeGroups
<1>1. \A d \in Conn \ {c} : pc'[d] = pc[d]
  BY <1>0, ActionMoves DEF Task, Client, Moves
<1>2. pc'[c] \in Reachable => pc[c] \in Reachable \/ CreateChannel(c)
  BY <1>0, ActionMoves DEF Task, Client, Moves, Reachable, Looping
<1>3. CASE CreateChannel(c)
  BY <1>1, <1>3 DEF CreateChannel, ChannelHeld
<1>4. CASE CleanClients(c)
  <2>1. pc'[c] \notin Reachable
    BY <1>0, <1>4, ActionMoves DEF Moves, Reachable, Looping
  <2> QED BY <1>1, <1>4, <2>1 DEF CleanClients, ChannelHeld
<1>5. CASE ~ CreateChannel(c) /\ ~ CleanClients(c)
  BY <1>1, <1>2, <1>5, Writers DEF ChannelHeld
<1> QED BY <1>3, <1>4, <1>5

\* InsertAlias and CleanAlias frame the phases of Named; no other task of the
\* same member removes the alias.
LEMMA AliasKept ==
    ASSUME TypeOK, Alone, AliasHeld, NEW c \in Conn, Task(c) \/ Client(c)
    PROVE  AliasHeld'
<1>0. PcType
  BY TypeGroups
<1>1. \A d \in Conn \ {c} : pc'[d] = pc[d]
  BY <1>0, ActionMoves DEF Task, Client, Moves
<1>2. pc'[c] \in Named => pc[c] \in Named \/ InsertAlias(c)
  BY <1>0, ActionMoves DEF Task, Client, Moves, Named, Looping, Leaving
<1>3. \A d \in Conn : pc[d] # "idle" => fp'[d] = fp[d]
  BY PresentStays
<1>4. \A d \in Conn : pc[d] \in Named => pc[d] \in Registered /\ pc[d] # "idle"
  BY DEF Named, Registered, Starting, Looping, Leaving
<1>5. CASE InsertAlias(c)
  BY <1>1, <1>5, DoubledGrows DEF InsertAlias, AliasHeld, world
<1>6. CASE CleanAlias(c)
  <2>1. Moves(c, {"cleanAlias"}, {"done"})
    BY <1>0, <1>6, ActionMoves
  <2>2. pc'[c] \notin Named /\ pc[c] \in Registered
    BY <2>1 DEF Moves, Named, Registered, Looping, Leaving
  <2>3. \A d \in Conn \ ({c} \cup doubled) : pc[d] \in Named => fp[d] # fp[c]
    BY <1>4, <2>2 DEF Alone
  <2>4. fp' = fp /\ aliases' = aliases \ {fp[c]}
    BY <1>6 DEF CleanAlias, world
  <2> QED BY <1>1, <2>2, <2>3, <2>4, DoubledGrows DEF AliasHeld
<1>7. CASE ~ InsertAlias(c) /\ ~ CleanAlias(c)
  BY <1>1, <1>2, <1>3, <1>4, <1>7, Writers, DoubledGrows DEF AliasHeld
<1> QED BY <1>5, <1>6, <1>7
-----------------------------------------------------------------------------
(* Introductions *)

\* Client c has been told of d, or will be by an announcement to come.
Heard(c, d) == \/ told[c][fp[d]] > 0
               \/ \E i \in cursor[c] + 1 .. Len(bcast) : bcast[i] = fp[d]

\* PeersIntroduced from the moment a task reads the alias map: until it has
\* named every peer, those it has still to name count as well.
Introduced ==
    \A c \in Conn, d \in Conn \ doubled :
        pc[d] \in Looping /\ open[c] /\ fp[c] # fp[d] /\ c \notin lagged =>
            /\ pc[c] \in Looping \cup {"announce"} => Heard(c, d)
            /\ pc[c] = "greeting" => Heard(c, d) \/ fp[d] \in greet[c]

\* Telling a client of a peer never takes a frame back.
LEMMA ToldGrows ==
    ASSUME told \in [Conn -> [Fp -> Nat]], NEW e \in Conn, NEW f \in Fp, Tell(e, f),
           NEW c \in Conn, NEW g \in Fp
    PROVE  /\ told[c][g] \in Nat /\ told'[c][g] \in Nat /\ told'[c][g] >= told[c][g]
           /\ open[e] /\ c = e /\ g = f => told'[c][g] > 0
<1>1. told[c] \in [Fp -> Nat] /\ told[c][g] \in Nat
  OBVIOUS
<1>2. CASE ~ open[e]
  BY <1>1, <1>2 DEF Tell
<1>3. CASE open[e] /\ c # e
  <2>1. told'[c] = told[c]
    BY <1>3 DEF Tell
  <2> QED BY <1>1, <1>3, <2>1
<1>4. CASE open[e] /\ c = e
  <2>1. told'[c] = [told[c] EXCEPT ![f] = @ + 1]
    BY <1>4 DEF Tell
  <2>2. told'[c][g] = IF g = f THEN told[c][g] + 1 ELSE told[c][g]
    BY <1>1, <2>1
  <2> QED BY <1>1, <2>2
<1> QED BY <1>2, <1>3, <1>4

\* What a client has heard is not forgotten while its task goes on.
LEMMA HeardKept ==
    ASSUME TypeOK, Ahead, NEW e \in Conn, Task(e) \/ Client(e), NEW c \in Conn, NEW d \in Conn,
           pc[c] \in Looping \cup {"greeting", "announce"}, pc[d] # "idle",
           pc'[c] \in Looping \cup {"greeting", "announce"}, open[c], c \notin lagged',
           fp[c] # fp[d], Heard(c, d)
    PROVE  Heard(c, d)'
<1>0. /\ fp \in [Conn -> Fp] /\ bcast \in Seq(Fp) /\ cursor \in [Conn -> 0 .. Len(bcast)]
      /\ told \in [Conn -> [Fp -> Nat]] /\ PcType /\ fp'[d] = fp[d] /\ Len(bcast) \in Nat
  BY TypeGroups, PresentStays, LenProperties DEF WorldType, AnnouncingType
<1>a. fp'[d] = fp[d] /\ Len(bcast) \in Nat /\ cursor[c] \in Nat
  BY <1>0
<1>1. CASE Announce(e)
  <2>1. bcast' = Append(bcast, fp[e]) /\ UNCHANGED <<cursor, told>>
    BY <1>1 DEF Announce
  <2>2. Len(bcast') = Len(bcast) + 1 /\ \A i \in 1 .. Len(bcast) : bcast'[i] = bcast[i]
    BY <1>0, <2>1, AppendProperties
  <2>3. CASE \E i \in cursor[c] + 1 .. Len(bcast) : bcast[i] = fp[d]
    <3>1. PICK i \in cursor[c] + 1 .. Len(bcast) : bcast[i] = fp[d]
      BY <2>3
    <3>2. i \in 1 .. Len(bcast) /\ i \in cursor'[c] + 1 .. Len(bcast')
      BY <1>a, <2>1, <2>2
    <3>3. bcast'[i] = fp'[d]
      BY <1>0, <2>2, <3>1, <3>2
    <3> QED BY <3>2, <3>3 DEF Heard
  <2>4. CASE told[c][fp[d]] > 0
    BY <1>0, <2>1, <2>4 DEF Heard
  <2> QED BY <2>3, <2>4 DEF Heard
<1>2. CASE GreetOne(e)
  <2>1. PICK f \in greet[e] : Tell(e, f)
    BY <1>2 DEF GreetOne
  <2>2. f \in Fp
    BY <2>1 DEF TypeOK
  <2>3. told'[c][fp[d]] >= told[c][fp[d]] /\ told'[c][fp[d]] \in Nat /\ told[c][fp[d]] \in Nat
    BY <1>0, <2>1, <2>2, ToldGrows
  <2>4. UNCHANGED <<bcast, cursor>>
    BY <1>2 DEF GreetOne
  <2>5. CASE told[c][fp[d]] > 0
    <3>1. told'[c][fp[d]] > 0
      BY <2>3, <2>5
    <3> QED BY <1>a, <3>1 DEF Heard
  <2>6. CASE \E i \in cursor[c] + 1 .. Len(bcast) : bcast[i] = fp[d]
    BY <1>0, <2>4, <2>6 DEF Heard
  <2> QED BY <2>5, <2>6 DEF Heard
<1>3. CASE (TakeAnnouncement(e) \/ WriteAnnouncement(e)) /\ e = c /\ cursor' # cursor
  <2>1. cursor[c] \in Nat /\ cursor[c] < Len(bcast) /\ bcast' = bcast
    BY <1>0, <1>3 DEF TakeAnnouncement, WriteAnnouncement, Goto, Ahead
  <2>2. /\ cursor' = [cursor EXCEPT ![c] = @ + 1]
        /\ \/ told' = told /\ bcast[cursor[c] + 1] = fp[c]
           \/ Tell(c, bcast[cursor[c] + 1])
    BY <1>3 DEF TakeAnnouncement, WriteAnnouncement
  <2>3. cursor'[c] = cursor[c] + 1
    BY <1>0, <2>2
  <2>4. bcast[cursor[c] + 1] \in Fp
    <3>1. cursor[c] + 1 \in 1 .. Len(bcast)
      BY <1>a, <2>1
    <3> QED BY <1>0, <3>1, ElementOfSeq
  <2>5. told'[c][fp[d]] \in Nat /\ told[c][fp[d]] \in Nat /\ told'[c][fp[d]] >= told[c][fp[d]]
    <3>1. CASE told' = told
      BY <1>0, <3>1
    <3>2. CASE Tell(c, bcast[cursor[c] + 1])
      BY <1>0, <2>4, <3>2, ToldGrows
    <3> QED BY <2>2, <3>1, <3>2
  <2>6. bcast[cursor[c] + 1] = fp[d] => told'[c][fp[d]] > 0
    BY <1>0, <2>2, <2>4, ToldGrows
  <2>7. CASE told[c][fp[d]] > 0
    BY <1>0, <2>5, <2>7 DEF Heard
  <2>8. CASE \E i \in cursor[c] + 1 .. Len(bcast) : bcast[i] = fp[d]
    <3>1. PICK i \in cursor[c] + 1 .. Len(bcast) : bcast[i] = fp[d]
      BY <2>8
    <3>2. CASE i = cursor[c] + 1
      BY <1>0, <2>6, <3>1, <3>2 DEF Heard
    <3>3. CASE i # cursor[c] + 1
      <4>1. i \in cursor'[c] + 1 .. Len(bcast')
        BY <1>0, <2>1, <2>3, <3>3
      <4> QED BY <1>0, <2>1, <3>1, <4>1 DEF Heard
    <3> QED BY <3>2, <3>3
  <2> QED BY <2>7, <2>8 DEF Heard
<1>4. CASE /\ ~ Announce(e) /\ ~ GreetOne(e)
           /\ ~ ((TakeAnnouncement(e) \/ WriteAnnouncement(e)) /\ e = c /\ cursor' # cursor)
  <2>1. bcast' = bcast
    BY <1>4, Writers
  <2>2. cursor'[c] = cursor[c] /\ told'[c] = told[c]
    <3>1. CASE UNCHANGED <<cursor, told>>
      BY <3>1
    <3>2. CASE Subscribe(e)
      <4>1. e # c
        BY <3>2 DEF Subscribe, Goto, Looping
      <4> QED BY <1>0, <3>2, <4>1 DEF Subscribe
    <3>3. CASE (Overrun(e) \/ TakeAnnouncement(e) \/ WriteAnnouncement(e)) /\ e # c
      <4>1. cursor' = cursor \/ \E k : cursor' = [cursor EXCEPT ![e] = k]
        BY <3>3 DEF Overrun, TakeAnnouncement, WriteAnnouncement
      <4>2. told' = told \/ \E f : told' = [told EXCEPT ![e][f] = @ + 1]
        BY <3>3 DEF Overrun, TakeAnnouncement, WriteAnnouncement, Tell
      <4> QED BY <1>0, <3>3, <4>1, <4>2
    <3>5. ~ (Overrun(e) /\ e = c)
      BY DEF Overrun
    <3>6. CASE (TakeAnnouncement(e) \/ WriteAnnouncement(e)) /\ e = c
      <4>1. cursor' = cursor
        BY <1>4, <3>6
      <4>2. ~ WriteAnnouncement(c)
        <5>1. WriteAnnouncement(c) => cursor'[c] = cursor[c] + 1
          BY <1>0 DEF WriteAnnouncement
        <5> QED BY <1>a, <4>1, <5>1
      <4>3. told' = told
        BY <3>6, <4>2 DEF TakeAnnouncement
      <4> QED BY <4>1, <4>3
    <3>4. CASE Aborts(e) \/ CleanAlias(e)
      <4>1. pc'[e] \in {"aborted", "done"}
        BY <1>0, <3>4, ActionMoves DEF Aborts, Goto, Moves, PcType
      <4>2. e # c
        BY <4>1 DEF Looping
      <4> QED BY <1>0, <3>4, <4>2 DEF Aborts, CleanAlias, Drop
    <3> QED BY <1>4, <3>1, <3>2, <3>3, <3>4, <3>5, <3>6, Writers
  <2> QED BY <1>0, <2>1, <2>2 DEF Heard
<1> QED BY <1>1, <1>2, <1>3, <1>4

\* The order alias, subscription, greeting, announcement leaves no gap.
LEMMA IntroducedKept ==
    ASSUME TypeOK, Ahead, AliasHeld, Introduced, NEW e \in Conn, Task(e) \/ Client(e)
    PROVE  Introduced'
<1> SUFFICES ASSUME NEW c \in Conn, NEW d \in Conn \ doubled',
                    pc'[d] \in Looping, open'[c], fp'[c] # fp'[d], c \notin lagged'
             PROVE  /\ pc'[c] \in Looping \cup {"announce"} => Heard(c, d)'
                    /\ pc'[c] = "greeting" => Heard(c, d)' \/ fp'[d] \in greet'[c]
  BY DEF Introduced
<1>0. /\ PcType /\ fp \in [Conn -> Fp] /\ open \in [Conn -> BOOLEAN]
      /\ bcast \in Seq(Fp) /\ cursor \in [Conn -> 0 .. Len(bcast)] /\ Len(bcast) \in Nat
      /\ told \in [Conn -> [Fp -> Nat]] /\ greet \in [Conn -> SUBSET Fp]
  BY TypeGroups, LenProperties DEF WorldType, AnnouncingType
<1>1. \A x \in Conn \ {e} : pc'[x] = pc[x]
  BY <1>0, ActionMoves DEF Task, Client, Moves
<1>2. open[c] /\ c \notin lagged /\ d \notin doubled
  <2>1. open[c]
    BY <1>0, Writers DEF Disconnect
  <2>2. c \notin lagged
    BY Writers DEF Overrun
  <2> QED BY <2>1, <2>2, DoubledGrows
<1>3. /\ pc'[e] \in Looping => pc[e] \in Looping \/ Announce(e)
      /\ pc'[e] \in Looping \cup {"announce"} => pc[e] \in Looping \cup {"announce"} \/ GreetEnd(e)
      /\ pc'[e] = "greeting" => pc[e] = "greeting" \/ GreetBegin(e)
  BY <1>0, ActionMoves DEF Task, Client, Moves, Looping
<1>4. CASE Announce(e) /\ e = d
  <2>1. bcast' = Append(bcast, fp[d]) /\ cursor' = cursor /\ fp' = fp
    BY <1>4 DEF Announce, world
  <2>2. Len(bcast) + 1 \in cursor'[c] + 1 .. Len(bcast') /\ bcast'[Len(bcast) + 1] = fp'[d]
    <3>1. Len(bcast') = Len(bcast) + 1 /\ bcast'[Len(bcast) + 1] = fp[d]
      BY <1>0, <2>1, AppendProperties
    <3>2. cursor[c] \in 0 .. Len(bcast)
      BY <1>0
    <3> QED BY <1>0, <2>1, <3>1, <3>2
  <2> QED BY <2>2 DEF Heard
<1>5. CASE ~ (Announce(e) /\ e = d)
  <2>1. pc[d] \in Looping
    BY <1>1, <1>3, <1>5
  <2>2. pc[d] # "idle" /\ fp'[d] = fp[d]
    BY <2>1, PresentStays DEF Looping
  <2>3. CASE pc'[c] \in Looping \cup {"announce"}
    <3>1. pc[c] \in Looping \cup {"announce", "greeting"} /\ fp'[c] = fp[c]
      <4>1. pc[c] \in Looping \cup {"announce", "greeting"}
        BY <1>1, <1>3, <2>3 DEF GreetEnd, Goto
      <4> QED BY <4>1, PresentStays DEF Looping
    <3>2. Heard(c, d)
      <4>1. CASE pc[c] \in Looping \cup {"announce"}
        BY <1>2, <2>1, <2>2, <3>1, <4>1 DEF Introduced
      <4>2. CASE pc[c] = "greeting"
        <5>1. Heard(c, d) \/ fp[d] \in greet[c]
          BY <1>2, <2>1, <2>2, <3>1, <4>2 DEF Introduced
        <5>2. e = c /\ GreetEnd(e)
          BY <1>1, <1>3, <2>3, <4>2 DEF Looping
        <5> QED BY <5>1, <5>2 DEF GreetEnd
      <4> QED BY <3>1, <4>1, <4>2
    <3> QED BY <1>2, <2>2, <2>3, <3>1, <3>2, HeardKept DEF Looping
  <2>4. CASE pc'[c] = "greeting"
    <3>1. CASE GreetBegin(e) /\ e = c
      <4>1. fp' = fp /\ greet' = [greet EXCEPT ![c] = aliases \ {fp[c]}]
        BY <3>1 DEF GreetBegin, world
      <4>2. fp[d] \in aliases
        BY <1>2, <2>1 DEF AliasHeld, Named
      <4>3. fp'[d] \in greet'[c]
        BY <1>0, <4>1, <4>2
      <4> QED BY <2>4, <4>3 DEF Looping
    <3>2. CASE ~ (GreetBegin(e) /\ e = c)
      <4>1. pc[c] = "greeting" /\ fp'[c] = fp[c]
        <5>1. pc[c] = "greeting"
          BY <1>1, <1>3, <2>4, <3>2
        <5> QED BY <5>1, PresentStays
      <4>2. Heard(c, d) \/ fp[d] \in greet[c]
        BY <1>2, <2>1, <2>2, <4>1 DEF Introduced
      <4>3. Heard(c, d) => Heard(c, d)'
        BY <1>2, <2>2, <2>4, <4>1, HeardKept
      <4>4. CASE fp[d] \in greet[c] /\ GreetOne(e) /\ e = c
        <5>1. PICK f \in greet[c] : Tell(c, f) /\ greet' = [greet EXCEPT ![c] = @ \ {f}]
          BY <4>4 DEF GreetOne
        <5>2. CASE f = fp[d]
          <6>1. told'[c][fp[d]] > 0
            BY <1>0, <1>2, <5>1, <5>2, ToldGrows
          <6> QED BY <2>2, <2>4, <6>1 DEF Heard, Looping
        <5>3. CASE f # fp[d]
          <6>1. fp[d] \in greet'[c]
            BY <1>0, <4>4, <5>1, <5>3
          <6> QED BY <2>2, <2>4, <6>1 DEF Looping
        <5> QED BY <5>2, <5>3
      <4>5. CASE fp[d] \in greet[c] /\ ~ (GreetOne(e) /\ e = c)
        <5>1. fp[d] \in greet'[c]
          <6>1. CASE greet' = greet
            BY <4>5, <6>1
          <6>2. CASE GreetBegin(e)
            BY <1>0, <3>2, <4>5, <6>2 DEF GreetBegin
          <6>3. CASE GreetOne(e)
            <7>1. e # c /\ \E f \in greet[e] : greet' = [greet EXCEPT ![e] = @ \ {f}]
              BY <4>5, <6>3 DEF GreetOne
            <7> QED BY <1>0, <4>5, <7>1
          <6> QED BY <6>1, <6>2, <6>3, Writers
        <5> QED BY <2>2, <2>4, <5>1 DEF Looping
      <4> QED BY <2>4, <4>2, <4>3, <4>4, <4>5 DEF Looping
    <3> QED BY <3>1, <3>2
  <2> QED BY <2>3, <2>4
<1> QED BY <1>4, <1>5
-----------------------------------------------------------------------------
(* Deliveries *)

\* Client d has received the latest message of c, or will.
HasLatest(d, c) == \E i \in 1 .. Len(Received(d)) :
                      Received(d)[i] = [from |-> c, n |-> sent[c]]

\* Phases in which the recipients of the latest message have been chosen.
Served == {"route", "routeClients", "deliver", "loop", "pong", "writing", "telling"}

\* NoneForgotten while the fan-out is under way: a client that is owed the
\* message has it, is still to be served or is the one looked up.
Reached ==
    \A c \in Conn :
        /\ owed[c] # {} => pc[c] \in Looping \cup Leaving
        /\ \A d \in owed[c] :
              /\ pc[d] \in Looping \cup Leaving \cup Over
              /\ pc[d] \in Looping /\ open[d] /\ d \notin doubled /\ sent[c] > 0 /\ pc[c] \in Served =>
                    HasLatest(d, c) \/ fp[d] \in pending[c] \/ target[c] = d

\* What a client has of the latest message stays, while it is there.
LEMMA LatestKept ==
    ASSUME TypeOK, TargetOwn, NEW e \in Conn, Task(e) \/ Client(e),
           NEW c \in Conn, NEW d \in Conn, sent'[c] = sent[c],
           open[d], pc'[d] \in Looping, HasLatest(d, c)
    PROVE  HasLatest(d, c)'
<1>0. PcType
  BY TypeGroups
<1>a. PICK r : r = Received(d)
  OBVIOUS
<1>b. PICK s : s = Received(d)'
  OBVIOUS
<1>c. PICK m : m = [from |-> e, n |-> sent[e]]
  OBVIOUS
<1>1. PICK i \in 1 .. Len(r) : r[i] = [from |-> c, n |-> sent[c]]
  BY <1>a DEF HasLatest
<1>2. r \in Seq(Message) /\ Len(r) \in Nat
  BY <1>a, ReceivedType, LenProperties
<1>3. CASE s = r
  BY <1>1, <1>3, <1>b DEF HasLatest
<1>4. CASE s = Append(r, m)
  <2>1. Len(s) = Len(r) + 1 /\ s[i] = r[i]
    BY <1>2, <1>4, AppendProperties
  <2>2. i \in 1 .. Len(s)
    BY <1>2, <2>1
  <2>3. s[i] = [from |-> c, n |-> sent'[c]]
    BY <1>1, <2>1
  <2> QED BY <2>2, <2>3, <1>b DEF HasLatest
<1>5. ~ (d = e /\ (Aborts(e) \/ CleanAlias(e)))
  <2>1. Aborts(e) => pc'[e] = "aborted"
    BY <1>0 DEF Aborts, Goto, PcType
  <2>2. CleanAlias(e) => pc'[e] = "done"
    BY <1>0, ActionMoves DEF Moves
  <2> QED BY <2>1, <2>2 DEF Looping
<1>6. \/ Received(d)' = Received(d)
      \/ Received(d)' = Append(Received(d), [from |-> e, n |-> sent[e]])
  BY <1>5, ReceivedStep
<1> QED BY <1>a, <1>b, <1>c, <1>3, <1>4, <1>6

\* A recipient moves from pending to target to its channel, never out of all.
LEMMA ReachedKept ==
    ASSUME TypeOK, Counted, EntryOwn, TargetOwn, RegistrationCoherent, ReadyToo, ChannelHeld,
           Reached, NEW e \in Conn, Task(e) \/ Client(e)
    PROVE  Reached'
<1>0. /\ PcType /\ fp \in [Conn -> Fp] /\ open \in [Conn -> BOOLEAN]
      /\ connected \in [Fp -> Conn \cup {None}] /\ owed \in [Conn -> SUBSET Conn]
      /\ pending \in [Conn -> SUBSET Fp] /\ target \in [Conn -> Conn \cup {None}]
      /\ sent \in [Conn -> 0 .. MaxFrames]
  BY TypeGroups DEF WorldType, HostType, RoutingType
<1>1. \A x \in Conn \ {e} : pc'[x] = pc[x]
  BY <1>0, ActionMoves DEF Task, Client, Moves
<1>2. ASSUME NEW d \in Conn, pc[d] \in Looping \cup Leaving \cup Over
      PROVE  /\ pc'[d] \in Looping \cup Leaving \cup Over /\ fp'[d] = fp[d]
             /\ pc'[d] \in Looping => pc[d] \in Looping
  <2>1. pc[d] # "idle"
    BY <1>2 DEF Looping, Leaving, Over
  <2>2. pc[e] \in Looping \cup Leaving \cup Over => pc'[e] \in Looping \cup Leaving \cup Over
    BY <1>0, ActionMoves DEF Task, Client, Moves, Looping, Leaving, Over
  <2>3. pc'[e] \in Looping => pc[e] \in Looping \cup {"announce"}
    BY <1>0, ActionMoves DEF Task, Client, Moves, Looping
  <2> QED BY <1>1, <1>2, <2>1, <2>2, <2>3, PresentStays DEF Looping, Leaving, Over
<1>3. /\ pc[e] \in Looping \cup Leaving =>
            pc'[e] \in Looping \cup Leaving \/ Aborts(e) \/ CleanAlias(e)
      /\ pc'[e] \in Served => pc[e] \in Served \/ Snapshot(e) \/ pc[e] = "announce"
      /\ ReadRoomMessage(e) => pc'[e] = "snapshot"
  <2>1. Pong(e) => pc'[e] = "loop" \/ Aborts(e)
    BY <1>0 DEF Pong, Aborts, Goto, PcType
  <2> QED BY <1>0, <2>1, ActionMoves DEF Task, Client, Moves, Looping, Leaving, Served
<1>4. SUFFICES ASSUME NEW c \in Conn
               PROVE  /\ owed'[c] # {} => pc'[c] \in Looping \cup Leaving
                      /\ \A d \in owed'[c] :
                            /\ pc'[d] \in Looping \cup Leaving \cup Over
                            /\ /\ pc'[d] \in Looping /\ open'[d] /\ d \notin doubled'
                               /\ sent'[c] > 0 /\ pc'[c] \in Served
                               => HasLatest(d, c)' \/ fp'[d] \in pending'[c] \/ target'[c] = d
  BY DEF Reached
<1>5. CASE Snapshot(e) /\ e = c
  <2>1. /\ owed'[c] = {d \in Conn : pc[d] \in Looping /\ fp[d] # fp[c]}
        /\ pending'[c] = RouteRecipients(fp[c]) /\ fp' = fp
    BY <1>0, <1>5 DEF Snapshot, world
  <2>2. pc'[c] = "route"
    BY <1>0, <1>5, ActionMoves DEF Moves
  <2>3. ASSUME NEW d \in owed'[c]
        PROVE  /\ d \notin doubled' => fp'[d] \in pending'[c]
               /\ pc'[d] \in Looping \cup Leaving \cup Over
    <3>1. d \in Conn /\ pc[d] \in Looping /\ fp[d] # fp[c]
      BY <2>1, <2>3
    <3>2. pc[d] \in Serving /\ d # None
      BY <3>1, RelayAssumption DEF Serving
    <3>3. d \notin doubled' => connected[fp[d]] = d /\ fp[d] \in ready
      BY <3>1, <3>2, DoubledGrows DEF RegistrationCoherent, ReadyToo
    <3> QED BY <1>2, <2>1, <3>1, <3>2, <3>3 DEF RouteRecipients
  <2> QED BY <2>2, <2>3 DEF Looping
<1>6. CASE (Aborts(e) \/ CleanAlias(e)) /\ e = c
  <2>1. owed'[c] = {}
    BY <1>0, <1>6 DEF Aborts, CleanAlias, Drop
  <2> QED BY <2>1
<1>7. CASE ~ ((Snapshot(e) \/ Aborts(e) \/ CleanAlias(e)) /\ e = c)
  <2>1. owed'[c] = owed[c]
    BY <1>0, <1>7, Writers DEF Snapshot, Aborts, CleanAlias, Drop
  <2>2. owed[c] # {} => pc'[c] \in Looping \cup Leaving
    BY <1>1, <1>3, <1>7 DEF Reached
  <2>3. SUFFICES ASSUME NEW d \in owed[c]
                 PROVE  /\ pc'[d] \in Looping \cup Leaving \cup Over
                        /\ /\ pc'[d] \in Looping /\ open'[d] /\ d \notin doubled'
                           /\ sent'[c] > 0 /\ pc'[c] \in Served
                           => HasLatest(d, c)' \/ fp'[d] \in pending'[c] \/ target'[c] = d
    BY <2>1, <2>2
  <2>4. d \in Conn /\ pc[d] \in Looping \cup Leaving \cup Over /\ pc[c] \in Looping \cup Leaving
    BY <1>0 DEF Reached
  <2>5. SUFFICES ASSUME pc'[d] \in Looping, open'[d], d \notin doubled', sent'[c] > 0,
                        pc'[c] \in Served
                 PROVE  HasLatest(d, c)' \/ fp'[d] \in pending'[c] \/ target'[c] = d
    BY <1>2, <2>4
  <2>6. pc[d] \in Looping /\ fp'[d] = fp[d] /\ open[d] /\ d \notin doubled
    <3>1. pc[d] \in Looping /\ fp'[d] = fp[d]
      BY <1>2, <2>4, <2>5
    <3>2. open[d]
      BY <1>0, <2>4, <2>5, Writers DEF Disconnect
    <3> QED BY <2>5, <3>1, <3>2, DoubledGrows
  <2>7. pc[c] \in Served /\ sent'[c] = sent[c]
    <3>1. pc[c] \in Served
      BY <1>1, <1>3, <1>7, <2>4, <2>5 DEF Looping, Leaving
    <3>2. ReadRoomMessage(e) => e # c
      BY <1>3, <2>5 DEF Served
    <3> QED BY <1>0, <3>1, <3>2, Writers DEF ReadRoomMessage
  <2>8. HasLatest(d, c) \/ fp[d] \in pending[c] \/ target[c] = d
    BY <2>4, <2>5, <2>6, <2>7 DEF Reached
  <2>9. CASE HasLatest(d, c)
    BY <2>4, <2>5, <2>6, <2>7, <2>9, LatestKept
  <2>10. CASE fp[d] \in pending[c]
    <3>1. CASE RouteLookup(e) /\ e = c
      <4>1. PICK f \in pending[c] :
              /\ pending' = [pending EXCEPT ![c] = @ \ {f}]
              /\ IF connected[f] = None
                 THEN UNCHANGED <<pc, target, hostLock>>
                 ELSE /\ pc' = [pc EXCEPT ![c] = "routeClients"]
                      /\ target' = [target EXCEPT ![c] = connected[f]]
                      /\ hostLock' = c
        BY <3>1 DEF RouteLookup
      <4>2. CASE f = fp[d]
        <5>1. connected[f] = d /\ d # None
          BY <2>4, <2>6, <4>2, RelayAssumption DEF RegistrationCoherent, Serving
        <5>2. target'[c] = d
          BY <1>0, <4>1, <5>1
        <5> QED BY <5>2
      <4>3. CASE f # fp[d]
        <5>1. fp'[d] \in pending'[c]
          BY <1>0, <2>6, <2>10, <4>1, <4>3
        <5> QED BY <5>1
      <4> QED BY <4>2, <4>3
    <3>2. CASE ~ (RouteLookup(e) /\ e = c)
      <4>1. pending'[c] = pending[c]
        BY <1>0, <1>7, <3>2, Writers DEF Snapshot, RouteLookup
      <4> QED BY <2>6, <2>10, <4>1
    <3> QED BY <3>1, <3>2
  <2>11. CASE target[c] = d
    <3>1. pc[c] \in {"routeClients", "deliver"}
      BY <2>4, <2>11, RelayAssumption DEF TargetOwn
    <3>2. CASE RouteDeliver(e) /\ e = c
      <4>1. Receiving(d)
        BY <2>4, <2>6 DEF Receiving, ChannelHeld, Reachable, Looping, Over
      <4>2. Received(d)' = Append(Received(d), [from |-> c, n |-> sent[c]])
        <5>1. ~ DrainOut(e) /\ ~ Aborts(e) /\ ~ CleanAlias(e)
          BY <1>0, <3>2, ActionMoves DEF Moves, Aborts
        <5> QED BY <2>4, <2>11, <3>2, <4>1, <5>1, ReceivedStep
      <4>3. PICK r : r = Received(d)
        OBVIOUS
      <4>4. PICK m : m = [from |-> c, n |-> sent[c]]
        OBVIOUS
      <4>5. r \in Seq(Message) /\ Len(r) \in Nat
        BY <2>4, <4>3, ReceivedType, LenProperties
      <4>6. Len(Append(r, m)) = Len(r) + 1 /\ Append(r, m)[Len(r) + 1] = m
        BY <4>5, AppendProperties
      <4>7. Len(r) + 1 \in 1 .. Len(Append(r, m))
        BY <4>5, <4>6
      <4>8. Received(d)' = Append(r, m) /\ m = [from |-> c, n |-> sent'[c]]
        BY <2>7, <4>2, <4>3, <4>4
      <4> QED BY <4>6, <4>7, <4>8 DEF HasLatest
    <3>3. CASE ~ (RouteDeliver(e) /\ e = c)
      <4>1. RouteLookup(e) => e # c
        BY <3>1 DEF RouteLookup
      <4>2. target'[c] = target[c]
        <5>1. CASE RouteLookup(e)
          <6>1. target' = target \/ \E x : target' = [target EXCEPT ![e] = x]
            BY <5>1 DEF RouteLookup
          <6> QED BY <1>0, <4>1, <5>1, <6>1
        <5>2. CASE RouteDeliver(e)
          BY <1>0, <3>3, <5>2 DEF RouteDeliver
        <5> QED BY <5>1, <5>2, Writers
      <4> QED BY <2>11, <4>2
    <3> QED BY <3>2, <3>3
  <2> QED BY <2>8, <2>9, <2>10, <2>11
<1> QED BY <1>5, <1>6, <1>7
-----------------------------------------------------------------------------
(* The stronger invariant, and what follows from it *)

\* What holds of the connections that were never registered twice at once.
ServiceInv == /\ RelayInv /\ Alone /\ RegistrationCoherent /\ ReadyToo
             /\ ChannelHeld /\ AliasHeld /\ Introduced /\ Reached

\* The stronger invariant holds at the start.
LEMMA ServiceInit == Init => ServiceInv
<1> SUFFICES ASSUME Init PROVE ServiceInv
  OBVIOUS
<1>1. RelayInv
  BY RelayInit
<1>2. Alone /\ ChannelHeld /\ AliasHeld
  BY DEF Init, Alone, Registered, Starting, ChannelHeld, AliasHeld, Reachable, Named, Looping, Leaving
<1>3. RegistrationCoherent /\ ReadyToo
  BY DEF Init, RegistrationCoherent, ReadyToo, Serving, Starting, Looping
<1>4. Introduced /\ Reached
  BY DEF Init, Introduced, Reached, Looping
<1> QED BY <1>1, <1>2, <1>3, <1>4 DEF ServiceInv

\* Every step keeps the stronger invariant.
LEMMA ServiceStep == ServiceInv /\ [Next]_vars => ServiceInv'
<1> SUFFICES ASSUME ServiceInv, [Next]_vars
             PROVE  ServiceInv'
  OBVIOUS
<1>1. RelayInv'
  BY RelayStep DEF ServiceInv
<1>2. CASE \E c \in Conn : Task(c) \/ Client(c)
  <2>1. PICK c \in Conn : Task(c) \/ Client(c)
    BY <1>2
  <2>2. Alone'
    BY <2>1, AloneKept DEF ServiceInv, RelayInv
  <2>3. RegistrationCoherent' /\ ReadyToo'
    BY <2>1, RegistrationKept DEF ServiceInv, RelayInv
  <2>4. ChannelHeld' /\ AliasHeld'
    BY <2>1, ChannelKept, AliasKept DEF ServiceInv, RelayInv
  <2>5. Introduced'
    BY <2>1, IntroducedKept DEF ServiceInv, RelayInv
  <2>6. Reached'
    BY <2>1, ReachedKept DEF ServiceInv, RelayInv
  <2> QED BY <1>1, <2>2, <2>3, <2>4, <2>5, <2>6 DEF ServiceInv
<1>3. CASE Shutdown \/ UNCHANGED vars
  <2>1. UNCHANGED <<pc, fp, open, host, maps, locks, routing, announcing>>
    BY <1>3 DEF Shutdown, vars, world
  <2>2. Alone'
    BY <2>1 DEF ServiceInv, Alone, host
  <2>3. RegistrationCoherent' /\ ReadyToo'
    BY <2>1 DEF ServiceInv, RegistrationCoherent, ReadyToo, host
  <2>4. ChannelHeld' /\ AliasHeld'
    BY <2>1 DEF ServiceInv, ChannelHeld, AliasHeld, maps, host
  <2>5. Introduced'
    BY <2>1 DEF ServiceInv, Introduced, Heard, announcing, host
  <2>6. Reached'
    <3>1. UNCHANGED <<inbox, out, pc, fp, open, owed, sent, pending, target, doubled>>
      BY <2>1 DEF maps, routing, host
    <3>2. \A d \in Conn : Received(d)' = Received(d)
      BY <3>1 DEF Received
    <3>3. Reached /\ owed \in [Conn -> SUBSET Conn]
      BY DEF ServiceInv, RelayInv, TypeOK
    <3> QED BY <3>1, <3>2, <3>3 DEF Reached, HasLatest
  <2> QED BY <1>1, <2>2, <2>3, <2>4, <2>5, <2>6 DEF ServiceInv
<1> QED BY <1>2, <1>3 DEF Next

\* The stronger invariant holds in every reachable state.
THEOREM ServiceInvariant == Spec => []ServiceInv
BY ServiceInit, ServiceStep, PTL DEF Spec

\* A serving task has its entry in connected_clients unless its peer was ever
\* registered twice at once; an entry names a task of its peer that still serves
\* or has ended on a failed pong (register_client, remove_client).
THEOREM RegistrationCorrect == Spec => []RegistrationCoherent
<1>1. ServiceInv => RegistrationCoherent
  BY DEF ServiceInv
<1> QED BY <1>1, ServiceInvariant, PTL

\* A client in its loop that has lost no announcement has been told of every
\* other client in its loop that was never registered twice at once, or will be
\* by an announcement its task is not done with, in whatever order they joined
\* (phases 1 to 4 of handle_client).
THEOREM PeersIntroducedCorrect == Spec => []PeersIntroduced
<1>1. ServiceInv => PeersIntroduced
  BY DEF ServiceInv, Introduced, Heard, PeersIntroduced
<1> QED BY <1>1, ServiceInvariant, PTL

\* A message its task is done with has reached the channel of every client that
\* was in its loop when the recipients were chosen, unless that client has left
\* or gone, or was ever registered twice at once (route_message and the fan-out
\* that looks every recipient up again).
THEOREM NoneForgottenCorrect == Spec => []NoneForgotten
<1>1. ServiceInv => NoneForgotten
  <2> SUFFICES ASSUME ServiceInv, NEW c \in Conn, pc[c] = "loop", sent[c] > 0,
                      NEW d \in owed[c] \ doubled, pc[d] \in Looping, open[d]
               PROVE  HasLatest(d, c)
    BY DEF NoneForgotten, HasLatest
  <2>1. d \in Conn /\ target \in [Conn -> Conn \cup {None}]
    BY DEF ServiceInv, RelayInv, TypeOK
  <2>2. HasLatest(d, c) \/ fp[d] \in pending[c] \/ target[c] = d
    BY <2>1 DEF ServiceInv, Reached, Served
  <2>3. fp[d] \notin pending[c] /\ target[c] # d
    BY <2>1, RelayAssumption DEF ServiceInv, RelayInv, TargetOwn
  <2> QED BY <2>2, <2>3
<1> QED BY <1>1, ServiceInvariant, PTL
=============================================================================

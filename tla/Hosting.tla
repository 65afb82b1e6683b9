------------------------------- MODULE Hosting -------------------------------
(***************************************************************************)
(* The processes on the machine of a host: runs of `sanctum host create'    *)
(* (host.rs) and of the host of chat_demo.rs, from their first step to      *)
(* their exit, `sanctum room invite' (room.rs) and the `sanctum join' of a  *)
(* guest (join.rs).  They share the profile, the files with the public      *)
(* Noise key of the host, the local ports and Tor.  A run is a process; its *)
(* room and its Noise key are new and are named by it.                      *)
(***************************************************************************)
EXTENDS Profile, TorControl

CONSTANTS Port, None, Zero,
          Calls    \* bound: how the runs are called, together

\* The program, with --local or over Tor, with --chat or without, the port; the
\* demo always chats.
Ways == [demo : BOOLEAN, local : BOOLEAN, chat : BOOLEAN, port : Port]

ASSUME HostingAssumption ==
    /\ None \notin Run /\ Zero \notin Run
    /\ Calls \subseteq [Run -> Ways]

VARIABLES pc,      \* where a run is
          way,     \* how it was called
          relay,   \* its HostListener
          bound,   \* whose listener has the port
          stop,    \* has its shutdown token been cancelled?
          keyFile, \* what the two files with a Noise key hold
          keys,    \* the thread that reads its keyboard
          token,   \* the invitation that has been made
          late,    \* has its time passed?
          joined   \* the run in whose room the guest is

guest == <<token, late, joined>>
hostVars == <<pc, way, relay, bound, stop, keyFile, keys, guest>>
vars == <<hostVars, profileVars, torVars>>

KeyFiles == {"host", "demo"}
KeyFileOf(r) == IF way[r].demo THEN "demo" ELSE "host"

HostingInit == /\ ProfileInit /\ TorInit
               /\ pc = [r \in Run |-> "off"]
               /\ way \in Calls /\ mock = [r \in Run |-> way[r].local]
               /\ relay = [r \in Run |-> "none"] /\ bound = [p \in Port |-> None]
               /\ stop = [r \in Run |-> FALSE]
               /\ keys = [r \in Run |-> "none"]
               /\ keyFile = [f \in KeyFiles |-> Absent]
               /\ token = None /\ late = FALSE /\ joined = None

Move(r, s) == pc' = [pc EXCEPT ![r] = s]

\* The process is done with its relay and its connection to Tor.
Release(r) == /\ relay' = [relay EXCEPT ![r] = "none"]
              /\ bound' = [p \in Port |-> IF bound[p] = r THEN None ELSE bound[p]]
              /\ TorDrop(r)
              /\ UNCHANGED <<way, stop, keyFile, guest, profileVars>>

\* The process ends.
Exit(r) == /\ Release(r)
           /\ Move(r, "ended") /\ keys' = [keys EXCEPT ![r] = "none"]
-----------------------------------------------------------------------------
(* run_create, run_host *)

\* The identity is loaded; the demo has a fixed one.
Start(r) == /\ pc[r] = "off"
            /\ IF way[r].demo THEN UNCHANGED profileVars ELSE LoadFromDisk
            /\ Move(r, "key")
            /\ UNCHANGED <<way, relay, bound, stop, keyFile, keys, guest, torVars>>

\* fs::write of the Noise key: emptied, then filled.
OpenKeyFile(r) == /\ pc[r] = "key"
                  /\ keyFile' = [keyFile EXCEPT ![KeyFileOf(r)] = Broken]
                  /\ Move(r, "fill")
                  /\ UNCHANGED <<way, relay, bound, stop, keys, guest, profileVars, torVars>>

FillKeyFile(r) == /\ pc[r] = "fill"
                  /\ keyFile' = [keyFile EXCEPT ![KeyFileOf(r)] = r]
                  /\ Move(r, "tor")
                  /\ UNCHANGED <<way, relay, bound, stop, keys, guest, profileVars, torVars>>

\* It does not matter to the program whether the file could be written.
KeyFileFails(r) == /\ pc[r] \in {"key", "fill"}
                   /\ Move(r, "tor")
                   /\ UNCHANGED <<way, relay, bound, stop, keyFile, keys, guest, profileVars, torVars>>

\* connect and create_hidden_service, one after the other.
Onion(r) == /\ pc[r] = "tor"
            /\ MockService(r) \/ TorConnect(r) \/ CreateService(r)
            /\ UNCHANGED <<hostVars, profileVars>>

OnionFails(r) == pc[r] = "tor" /\ step[r] = "failed" /\ Exit(r)

\* The relay's task is spawned, and the address for invitations is printed.
Spawn(r) == /\ pc[r] = "tor" /\ step[r] = "idle" /\ active[r]
            /\ relay' = [relay EXCEPT ![r] = "spawned"]
            /\ Move(r, IF way[r].chat THEN "connect" ELSE "wait")
            /\ UNCHANGED <<way, bound, stop, keyFile, keys, guest, profileVars, torVars>>

\* An owner or a guest gets through the Noise handshake of run q with key k.
Accepts(q, k) == k = q

\* The owner's own client: it finds a relay at the port, its own one or not.  Only
\* its own relay, that it has accepted, gets any further than the handshake.
Dial(r) == /\ pc[r] = "connect"
           /\ bound[way[r].port] # None /\ Accepts(bound[way[r].port], r)
           /\ Move(r, "auth")
           /\ UNCHANGED <<way, relay, bound, stop, keyFile, keys, guest, profileVars, torVars>>

\* connect_and_auth waits for the relay with no timeout and watches no token.
Connect(r) == /\ pc[r] = "auth"
              /\ Move(r, "chat") /\ keys' = [keys EXCEPT ![r] = "reading"]
              /\ UNCHANGED <<way, relay, bound, stop, keyFile, guest, profileVars, torVars>>

\* The demo that gets no connection stops its relay, run_create returns at once.
Unconnected(r) ==
    IF way[r].demo
    THEN /\ Move(r, "await") /\ stop' = [stop EXCEPT ![r] = TRUE]
         /\ UNCHANGED <<way, relay, bound, keyFile, keys, guest, profileVars, torVars>>
    ELSE Exit(r)

Refused(r) == pc[r] = "connect" /\ bound[way[r].port] = None /\ Unconnected(r)

\* Is it another run's relay that it has found?
Strange(r) == /\ pc[r] = "connect" /\ bound[way[r].port] # None
              /\ ~ Accepts(bound[way[r].port], r)

ConnectFails(r) == (pc[r] = "auth" \/ Strange(r)) /\ Unconnected(r)

\* A line is written inside its branch of the select!, where no token is watched.
Send(r) == /\ pc[r] = "chat" /\ keys[r] = "reading"
           /\ Move(r, "sending")
           /\ UNCHANGED <<way, relay, bound, stop, keyFile, keys, guest, profileVars, torVars>>

Sent(r) == /\ pc[r] = "sending"
           /\ Move(r, "chat")
           /\ UNCHANGED <<way, relay, bound, stop, keyFile, keys, guest, profileVars, torVars>>

\* /exit, a key, the end of the connection, or the token; a write that fails;
\* without a chat the token only.  The demo removes its files.
Leave(r) == /\ \/ pc[r] \in {"chat", "sending"}
               \/ pc[r] = "wait" /\ stop[r]
            /\ keyFile' = IF way[r].demo THEN [keyFile EXCEPT !["demo"] = Absent] ELSE keyFile
            /\ Move(r, "destroy")
            /\ UNCHANGED <<way, relay, bound, stop, keys, guest, profileVars, torVars>>

Destroy(r) == /\ pc[r] = "destroy"
              /\ DestroyService(r)
              /\ UNCHANGED <<hostVars, profileVars>>

\* Variant of Cancel: the token is left to Ctrl-C.
CancelNot(r) == /\ pc[r] = "destroy" /\ step[r] \in {"done", "failed"}
                /\ Move(r, "await")
                /\ UNCHANGED <<way, relay, bound, stop, keyFile, keys, guest, profileVars, torVars>>

Cancel(r) == /\ pc[r] = "destroy" /\ step[r] \in {"done", "failed"}
             /\ stop' = [stop EXCEPT ![r] = TRUE]
             /\ Move(r, "await")
             /\ UNCHANGED <<way, relay, bound, keyFile, keys, guest, profileVars, torVars>>

\* The command returns when the relay's task has.  The runtime then waits for the
\* thread at the keyboard, if the chat has left one.
Await(r) == /\ pc[r] = "await" /\ relay[r] = "over"
            /\ IF keys[r] = "reading" THEN Release(r) /\ Move(r, "closing") /\ UNCHANGED keys
               ELSE Exit(r)

\* A key that ends the thread: Escape or Ctrl-C; of the demo, the next line.
LastKey(r) == /\ keys[r] = "reading"
              /\ IF pc[r] = "closing" THEN Exit(r)
                 ELSE /\ keys' = [keys EXCEPT ![r] = "over"]
                      /\ UNCHANGED <<pc, way, relay, bound, stop, keyFile, guest,
                                     profileVars, torVars>>
-----------------------------------------------------------------------------
(* HostListener::run *)

\* A port that is taken ends the relay with a message, and the run goes on.
Bind(r) == LET p == way[r].port
           IN  /\ relay[r] = "spawned"
               /\ IF bound[p] = None
                  THEN /\ relay' = [relay EXCEPT ![r] = "up"]
                       /\ bound' = [bound EXCEPT ![p] = r]
                  ELSE relay' = [relay EXCEPT ![r] = "over"] /\ UNCHANGED bound
               /\ UNCHANGED <<pc, way, stop, keyFile, keys, guest, profileVars, torVars>>

RelayStops(r) == /\ relay[r] = "up" /\ stop[r]
                 /\ relay' = [relay EXCEPT ![r] = "over"]
                 /\ bound' = [bound EXCEPT ![way[r].port] = None]
                 /\ UNCHANGED <<pc, way, stop, keyFile, keys, guest, profileVars, torVars>>
-----------------------------------------------------------------------------
(* main.rs; the users *)

Running(r) == pc[r] \notin {"off", "ended"}

\* Ctrl-C cancels the token of `sanctum'; it ends the demo, as a kill does both.
CtrlC(r) == /\ Running(r) /\ ~ way[r].demo /\ ~ stop[r]
            /\ stop' = [stop EXCEPT ![r] = TRUE]
            /\ UNCHANGED <<pc, way, relay, bound, keyFile, keys, guest, profileVars, torVars>>

Killed(r) == Running(r) /\ Exit(r)

\* The key that goes into an invitation: of the first file that can be read.
KeyRead == IF keyFile["host"] # Absent THEN keyFile["host"]
           ELSE IF keyFile["demo"] # Absent THEN keyFile["demo"] ELSE Zero

\* The room and the address are those that run r has printed; the invitation may
\* be for the guest or for somebody else.
Invite(r) == /\ token = None
             /\ relay[r] # "none" /\ ~ way[r].demo
             /\ LoadFromDisk
             /\ \E his \in BOOLEAN :
                   token' = [room |-> r, key |-> KeyRead, forGuest |-> his]
             /\ UNCHANGED <<pc, way, relay, bound, stop, keyFile, keys, late, joined, torVars>>

\* The clock goes past expires_at.
Expire == /\ token # None /\ ~ late
          /\ late' = TRUE
          /\ UNCHANGED <<pc, way, relay, bound, stop, keyFile, keys, token, joined,
                         profileVars, torVars>>

\* validate_invite of invite_codec.rs; the signature is empty and not looked at.
Valid(t) == ~ late /\ t.forGuest

\* Who listens behind the address of run r.
Behind(r) == IF way[r].local \/ onion[r] THEN bound[way[r].port] ELSE None

\* The handshake of `sanctum join' with whoever it reaches.
Admits(q, t) == q # None /\ Accepts(q, t.key)

Join == /\ token # None /\ joined = None
        /\ Valid(token) /\ Admits(Behind(token.room), token)
        /\ joined' = Behind(token.room)
        /\ UNCHANGED <<pc, way, relay, bound, stop, keyFile, keys, token, late,
                       profileVars, torVars>>
-----------------------------------------------------------------------------
\* Bounds: the profile is changed only before the first run starts, and the runs
\* have the profile of an `init' that was not interrupted.
Quiet == \A r \in Run : pc[r] = "off"
Fresh == made = 1 /\ at = 0 /\ disk["config"] = 1 /\ shown = {}

\* A run that looks at its token leaves.
Told(r) == stop[r] /\ pc[r] # "sending" /\ Leave(r)

RunStep(r) == \/ OpenKeyFile(r) \/ FillKeyFile(r) \/ KeyFileFails(r)
              \/ Onion(r) \/ OnionFails(r) \/ Spawn(r) \/ Dial(r) \/ Refused(r)
              \/ Told(r)
              \/ Destroy(r) \/ Cancel(r) \/ Await(r)
              \/ Bind(r) \/ RelayStops(r)
              \/ TorStep(r) /\ UNCHANGED <<hostVars, profileVars>>

\* What it takes somebody else for: Tor that answers, a relay that serves its
\* owner and reads what he writes.
Served(r) == \/ Answer(r) /\ UNCHANGED <<hostVars, profileVars>>
             \/ Connect(r) \/ ConnectFails(r) \/ Sent(r)

Next == \/ Quiet /\ ProfileNext /\ UNCHANGED <<hostVars, torVars>>
        \/ TorStops /\ UNCHANGED <<hostVars, profileVars>>
        \/ \E r \in Run : \/ Fresh /\ Start(r)
                          \/ RunStep(r) \/ Served(r) \/ Send(r)
                          \/ Leave(r) \/ LastKey(r) \/ CtrlC(r) \/ Killed(r) \/ Invite(r)
        \/ Expire \/ Join

Spec == HostingInit /\ [][Next]_vars

\* The runtime goes on with a run as long as it can.  A chat that comes back from
\* writing to its select! takes a ready branch at random, the token sooner or later.
FairSpec == Spec /\ \A r \in Run : WF_vars(RunStep(r)) /\ SF_vars(Told(r))
-----------------------------------------------------------------------------
(* Properties *)

\* Where a run may wait, or turn, for ever and sees no token: for the answer of a
\* Tor that runs and gives none, at the end of Tor's stream, in connect_and_auth
\* and in send_frame of the chat, for a relay that does not get on.
Waits(r) == \/ asked[r] /\ open[r]
            \/ Spinning(r)
            \/ pc[r] \in {"auth", "sending"} \/ Strange(r)

\* A run that is told to stop, or that leaves its chat, comes to its end, or stays
\* for ever at one of those places; at its end it may have to wait for one more
\* key ("closing").
StopEnds == \A r \in Run : stop[r] \/ pc[r] = "destroy" ~>
                             pc[r] \in {"closing", "ended"} \/ []Waits(r)
-----------------------------------------------------------------------------
(* What the documentation says and the code does not keep. *)

\* The room a guest gets into is the target room of the invitation (invite.rs).
JoinedInTarget == joined # None => joined = token.room
=============================================================================

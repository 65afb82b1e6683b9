-------------------------------- MODULE Chat --------------------------------
(***************************************************************************)
(* One room as its clients see it: each connects and authenticates         *)
(* (client_connector.rs), then runs the chat loop (chat_loop.rs), which    *)
(* has at most one E2eSession for the whole room.  No command of the       *)
(* program starts such a session: the clients in Initiators, and those     *)
(* they start one with, run the example chat_demo.rs instead, which has a  *)
(* loop like it (run_chat) and leaves its public keys in a file for the    *)
(* other.  The relay keeps the order of each sender and may stop at any    *)
(* time: HostRelay.                                                        *)
(***************************************************************************)
EXTENDS RatchetState, FiniteSets, SequencesExt

CONSTANTS Clients,
          Initiators,   \* clients that start a session
          Target,       \* Target[c]: the one c starts it with
          MaxEnds,      \* bound: connections that end
          MaxTexts      \* bound: texts each client writes

ASSUME ChatAssumption ==
    /\ Initiators \subseteq Clients
    /\ Target \in [Initiators -> Clients] /\ \A c \in Initiators : Target[c] # c
    /\ MaxEnds \in Nat /\ MaxTexts \in [Clients -> Nat]

VARIABLES phase,     \* where each client is
          life,      \* runs of `join' so far; each has new keys
          session,   \* e2e_session of each chat loop
          files,     \* files[c]: the run whose public keys are in c's file, 0 none;
                     \* of those that somebody reads
          served,    \* clients that the host has a task and a channel for
          up,        \* frames written and not yet routed
          chan,      \* chan[x][c]: frames of x routed to c, not yet read
          sent,      \* history: every frame ever written
          seen       \* history: the frames that each session was made of or tried on

net == <<served, up, chan>>
chatVars == <<phase, life, session, files, net, sent, seen>>

\* Key pairs: those of PeerPrivateKeys::generate, then those of the ratchet.
Key == [of : Clients, life : Nat, n : Nat]
KeyOf(c, l) == [of |-> c, life |-> l, n |-> 0]
Own(c) == KeyOf(c, life[c])

ASSUME ChatNoneAssumption == None \notin Key \cup ChainKeys(Key) \cup States(Key)

\* The clients that run the example.
Targets == {Target[c] : c \in Initiators}
Demo == Initiators \cup Targets

\* x3dh::initiate and respond: equal for both ends iff they mean the same keys
\* and agree on who starts the session.
Secret(starter, other) == <<{starter}, {other}>>

ChatInit == /\ phase = [c \in Clients |-> "out"]
            /\ life = [c \in Clients |-> 0]
            /\ session = [c \in Clients |-> None]
            /\ files = [c \in Targets |-> 0]
            /\ served = [c \in Clients |-> FALSE]
            /\ up = [c \in Clients |-> <<>>]
            /\ chan = [x \in Clients |-> [c \in Clients |-> <<>>]]
            /\ sent = {}
            /\ seen = [c \in Clients |-> <<>>]
-----------------------------------------------------------------------------
(* run_auth, and the host's side of it *)

\* Connections that have ended: all but those that last.
Ends == FoldFunction(+, 0, life)
        - Cardinality({c \in Clients : phase[c] # "out"})

\* write_e2e_pubkeys: the new keys of c take the place of those in its file.
WriteFile(c) == files' = [d \in Targets |-> IF d = c THEN life[c] + 1 ELSE files[d]]

\* run_auth up to its response; a client that joins again has new keys, which
\* the example has written to its file before it connects.
Connect(c) ==
    /\ phase[c] = "out" /\ ~ served[c]
    /\ phase' = [phase EXCEPT ![c] = "joining"]
    /\ life' = [life EXCEPT ![c] = @ + 1]
    /\ WriteFile(c)
    /\ UNCHANGED <<session, net, sent, seen>>

\* The host accepts the response; its task registers the client and serves it.
Serve(c) == /\ phase[c] = "joining" /\ ~ served[c]
            /\ served' = [served EXCEPT ![c] = TRUE]
            /\ UNCHANGED <<phase, life, session, files, up, chan, sent, seen>>

\* run_auth gets the result, and the chat loop begins.
Enter(c) == /\ phase[c] = "joining" /\ served[c]
            /\ phase' = [phase EXCEPT ![c] = "chat"]
            /\ UNCHANGED <<life, session, files, net, sent, seen>>

\* The example removes everybody's files when its loop ends, not if it is killed.
RemoveFiles(c) == \/ files' = files
                  \/ phase[c] = "chat" /\ c \in Demo /\ files' = [d \in Targets |-> 0]

\* The end of a connection, in whatever phase and for whatever reason: what was
\* written last may be lost, what was routed to c is, and the session is gone.
Leave(c) ==
    /\ phase[c] # "out" /\ Ends < MaxEnds
    /\ phase' = [phase EXCEPT ![c] = "out"]
    /\ session' = [session EXCEPT ![c] = None]
    /\ \E k \in 0 .. Len(up[c]) : up' = [up EXCEPT ![c] = SubSeq(@, 1, k)]
    /\ chan' = [x \in Clients |-> [chan[x] EXCEPT ![c] = <<>>]]
    /\ RemoveFiles(c)
    /\ UNCHANGED <<life, served, sent, seen>>

\* The host has routed what there was and cleans up.
Dismiss(c) == /\ phase[c] = "out" /\ served[c] /\ up[c] = <<>>
              /\ served' = [served EXCEPT ![c] = FALSE]
              /\ UNCHANGED <<phase, life, session, files, up, chan, sent, seen>>

\* The next frame of x goes to everyone else who is served.
Route(x) ==
    /\ served[x] /\ up[x] # <<>>
    /\ chan' = [chan EXCEPT ![x] =
                  [c \in Clients |->
                     IF c # x /\ served[c] /\ phase[c] # "out"
                     THEN Append(@[c], Head(up[x])) ELSE @[c]]]
    /\ up' = [up EXCEPT ![x] = Tail(@)]
    /\ UNCHANGED <<phase, life, session, files, served, sent, seen>>
-----------------------------------------------------------------------------
(* The chat loop *)

Texts(c) == Cardinality({f \in sent : f.from = c /\ f.kind # "init"})

\* Variant of Starts: before every text.
StartsAgain(c) == c \in Initiators /\ files[Target[c]] > 0

\* chat_demo: a session before the first text that finds the other's file.
Starts(c) == c \in Initiators /\ session[c] = None /\ files[Target[c]] > 0

\* read_e2e_pubkeys
Theirs(c) == KeyOf(Target[c], files[Target[c]])

SessionFor(c) ==
    IF Starts(c) THEN InitAlice(Secret(Own(c), Theirs(c)), Own(c), Theirs(c))
    ELSE session[c]

InitFrame(c) == [kind |-> "init", from |-> c, life |-> life[c], id |-> 0,
                 key |-> Own(c), aim |-> Theirs(c)]

\* encrypt_msg with session s: without one that can send, the text goes as it is.
Encrypted(c, s, id) ==
    IF s # None /\ s.send # None
    THEN [kind |-> "sealed", from |-> c, life |-> life[c], id |-> id,
          dh |-> s.self, prev |-> s.prev, n |-> s.nsend, key |-> s.send]
    ELSE [kind |-> "clear", from |-> c, life |-> life[c], id |-> id]

\* Enter is pressed: the next text is sent.
Write(c) ==
    LET s == SessionFor(c)
        f == Encrypted(c, s, Texts(c) + 1)
        new == IF Starts(c) THEN <<InitFrame(c), f>> ELSE <<f>>
    IN  /\ phase[c] = "chat" /\ Texts(c) < MaxTexts[c]
        /\ session' = [session EXCEPT ![c] = IF f.kind = "sealed" THEN Sealed(s) ELSE s]
        /\ up' = [up EXCEPT ![c] = @ \o new]
        /\ sent' = sent \cup ToSet(new)
        /\ UNCHANGED <<phase, life, files, served, chan, seen>>

\* Variant of TryDecrypt: a further InitialMessage starts a new session.
TryDecryptRenews(c, m) ==
    LET s == session[c]
        d == Decrypt(s, m)
    IN  IF m.kind = "init"
        THEN [session |-> InitBob(Secret(m.key, Own(c)), Own(c)), how |-> "session"]
        ELSE IF s = None THEN [session |-> None, how |-> "shown"]
        ELSE IF m.kind = "clear" THEN [session |-> s, how |-> "dropped"]
        ELSE [session |-> d.state, how |-> IF d.key = m.key THEN "opened" ELSE "failed"]

\* Without a session an InitialMessage starts one, and all else is shown as it is.
Respond(c, m) ==
    IF m.kind = "init"
    THEN [session |-> InitBob(Secret(m.key, Own(c)), Own(c)), how |-> "session"]
    ELSE [session |-> None, how |-> "shown"]

\* With one, only what has a ratchet header is looked at.
Open(s, m) ==
    LET d == Decrypt(s, m)
    IN  IF m.kind # "sealed" THEN [session |-> s, how |-> "dropped"]
        ELSE [session |-> d.state, how |-> IF d.key = m.key THEN "opened" ELSE "failed"]

\* try_decrypt, handle_incoming
TryDecrypt(c, m) == IF session[c] = None THEN Respond(c, m) ELSE Open(session[c], m)

\* What is noted of it.
Hows == {"session", "opened", "failed"}

Read(c, x) ==
    /\ phase[c] = "chat" /\ chan[x][c] # <<>>
    /\ LET m == Head(chan[x][c])
           r == TryDecrypt(c, m)
           e == [life |-> life[c], m |-> m, how |-> r.how]
       IN  /\ session' = [session EXCEPT ![c] = r.session]
           /\ seen' = IF r.how \in Hows THEN [seen EXCEPT ![c] = Append(@, e)] ELSE seen
    /\ chan' = [chan EXCEPT ![x][c] = Tail(@)]
    /\ UNCHANGED <<phase, life, files, served, up, sent>>

ChatNext == \E c \in Clients :
              \/ Connect(c) \/ Serve(c) \/ Enter(c)
              \/ Leave(c) \/ Dismiss(c) \/ Route(c) \/ Write(c)
              \/ \E x \in Clients : Read(c, x)

ChatSpec == ChatInit /\ [][ChatNext]_chatVars
-----------------------------------------------------------------------------
(* Properties *)

\* Every variable stays in its type; there is a session only in the loop.
ChatTypeOK ==
    /\ phase \in [Clients -> {"out", "joining", "chat"}] /\ life \in [Clients -> Nat]
    /\ session \in [Clients -> States(Key) \cup {None}] /\ files \in [Targets -> Nat]
    /\ served \in [Clients -> BOOLEAN] /\ up \in [Clients -> Seq(sent)]
    /\ chan \in [Clients -> [Clients -> Seq(sent)]]
    /\ seen \in [Clients -> Seq([life : Nat, m : sent, how : Hows])]
    /\ \A c \in Clients : /\ c \in Targets => files[c] <= life[c]
                          /\ session[c] # None => phase[c] = "chat"
                          /\ phase[c] = "chat" => served[c]

\* The runs of the clients that wrote and that read a frame.
Writer(m) == <<m.from, m.life>>
Reader(c, e) == <<c, e.life>>

\* Run r started the session that run q holds.
Started(r, q) == \E i \in 1 .. Len(seen[q[1]]) :
                    LET e == seen[q[1]][i]
                    IN  /\ e.life = q[2] /\ e.how = "session" /\ Writer(e.m) = r
                        /\ e.m.aim = KeyOf(q[1], q[2])

\* Run r has put a sealed frame of a run other than q through its session.
Crossed(r, q) == \E i \in 1 .. Len(seen[r[1]]) :
                    LET e == seen[r[1]][i]
                    IN  /\ e.life = r[2] /\ e.how \in {"opened", "failed"}
                        /\ Writer(e.m) # q

\* A text fails to open only for want of a session with its writer, or because
\* one of the two has put a third one's text through its session before: as long
\* as nobody else interferes the two understand each other, whoever writes when,
\* and whatever went out in clear before the responder could seal (try_decrypt,
\* encrypt_msg).
FailsOnlyBecause ==
    \A c \in Clients : \A i \in 1 .. Len(seen[c]) :
        LET e == seen[c][i]
            w == Writer(e.m)
            r == Reader(c, e)
        IN  e.how = "failed" => \/ ~ Started(w, r) /\ ~ Started(r, w)
                                \/ Crossed(r, w) \/ Crossed(w, r)

\* A client whose session has opened a text never writes in clear again before
\* it leaves: nothing takes its sending chain away (encrypt_msg, try_decrypt).
SealedOnceHeard ==
    [][\A c \in Clients :
         (\E i \in 1 .. Len(seen[c]) : /\ seen[c][i].life = life[c]
                                       /\ seen[c][i].how = "opened")
         => \A f \in sent' \ sent : f.from = c => f.kind = "sealed"]_chatVars

\* No two texts of the room are encrypted with one key, whatever sessions were
\* started with the wrong keys, crossed or begun anew (E2eSession::encrypt).
KeysUnique == \A f, g \in sent : /\ f.kind = "sealed" /\ g.kind = "sealed"
                                 /\ f.key = g.key
                                 => f = g
=============================================================================

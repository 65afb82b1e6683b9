-------------------------------- MODULE Wire --------------------------------
(***************************************************************************)
(* One connection, from the bytes of its socket up to the frames of a      *)
(* NoiseTransport: codec.rs, tcp_transport.rs and noise_transport.rs of    *)
(* sanctum-infra.  Each end is one task that reads and writes in turn: the *)
(* chat loop of a client, handle_client of the host.  A read may stop      *)
(* between any two chunks, as the select! around recv_frame drops it when  *)
(* another branch is ready, and goes on with what is in the buffer.        *)
(***************************************************************************)
EXTENDS Naturals, Sequences

CONSTANTS Client, Host,
          PrefixLen,   \* bytes of the length prefix: 4
          MaxFrame,    \* MAX_FRAME_LEN, type byte and payload: 65536
          Tag,         \* bytes the cipher adds: 16
          NoiseMax,    \* longest message of the Noise library: 65535
          ReadMax,     \* bytes of one read: 4096
          SockCap,     \* bytes the sockets hold per direction
          Payload,     \* bound: lengths of the payloads sent
          MaxFrames    \* bound: frames that each end sends

ASSUME WireAssumption ==
    /\ Client # Host
    /\ {PrefixLen, MaxFrame, ReadMax, SockCap} \subseteq Nat \ {0}
    /\ {Tag, NoiseMax} \cup Payload \subseteq Nat
    /\ MaxFrames \in [{Client, Host} -> Nat]

VARIABLES phase,    \* where each end is
          away,     \* does the host's task wait for a lock, or for room in the
                    \* channel of another client?
          rest,     \* rest[e]: bytes that e has still to write
          flight,   \* flight[e]: bytes on their way to e
          buf,      \* read_buf of e
          nout,     \* nonce of the next payload e encrypts
          nin,      \* nonce e expects of the next payload
          cut,      \* has the network between the ends failed?
          why,      \* history: why an end closed
          sent,     \* history: frames given to send_frame
          got       \* history: frames returned by recv_frame

link == <<rest, flight, buf, cut>>
noise == <<nout, nin>>
vars == <<phase, away, link, noise, why, sent, got>>

End == {Client, Host}
Other(e) == IF e = Client THEN Host ELSE Client
Numbers == 1 .. MaxFrames[Client] + MaxFrames[Host]
Frame == [from : End, id : Numbers, size : Payload]

P == INSTANCE Pipe WITH End <- End, Frame <- Frame, sent <- sent, got <- got
-----------------------------------------------------------------------------
(* codec.rs.  A frame on the wire records the length of its payload; a byte *)
(* is a place in a frame.                                                   *)

Encoded(w) == [i \in 1 .. PrefixLen + 1 + w.len |-> [of |-> w, at |-> i]]

\* The number in the first bytes of a buffer: what the prefix of a frame says,
\* and nothing usable when they are not a prefix.
LengthIn(b) == IF \A i \in 1 .. PrefixLen : b[i] = [of |-> b[1].of, at |-> i]
               THEN 1 + b[1].of.len ELSE 0

\* decode_frame finds a frame, refuses what it finds, or needs more data.
Complete(b) == /\ Len(b) >= PrefixLen
               /\ LengthIn(b) \in 1 .. MaxFrame
               /\ Len(b) >= PrefixLen + LengthIn(b)

Malformed(b) == Len(b) >= PrefixLen /\ LengthIn(b) \notin 1 .. MaxFrame

Decoded(b) == b[1].of

\* Variant of Remaining: what follows the frame goes with it.
RemainingNone(b) == <<>>

Remaining(b) == SubSeq(b, PrefixLen + LengthIn(b) + 1, Len(b))
-----------------------------------------------------------------------------
Init == /\ phase = [e \in End |-> IF e = Client THEN "hello" ELSE "waiting"]
        /\ away = FALSE
        /\ rest = [e \in End |-> <<>>] /\ flight = [e \in End |-> <<>>]
        /\ buf = [e \in End |-> <<>>]
        /\ nout = [e \in End |-> 0] /\ nin = [e \in End |-> 0]
        /\ cut = FALSE
        /\ why = [e \in End |-> "open"]
        /\ sent = [e \in End |-> <<>>] /\ got = [e \in End |-> <<>>]

\* The end of a task: what it wrote last may still be lost.
Close(e, reason) ==
    /\ phase' = [phase EXCEPT ![e] = "closed"]
    /\ why' = [why EXCEPT ![e] = reason]
    /\ rest' = [rest EXCEPT ![e] = <<>>]
    /\ buf' = [buf EXCEPT ![e] = <<>>]
    /\ \E k \in 0 .. Len(flight[Other(e)]) :
          flight' = [flight EXCEPT ![e] = <<>>, ![Other(e)] = SubSeq(@, 1, k)]
    /\ UNCHANGED <<away, noise, cut, sent, got>>

Gone(e) == cut \/ phase[Other(e)] = "closed"
-----------------------------------------------------------------------------
(* tcp_transport.rs *)

\* write_all hands the socket as much as it takes.
WriteSome(e) ==
    /\ ~ cut /\ phase[e] # "closed"
    /\ \E k \in 1 .. Len(rest[e]) :
          /\ Len(flight[Other(e)]) + k <= SockCap
          /\ flight' = [flight EXCEPT ![Other(e)] = @ \o SubSeq(rest[e], 1, k)]
          /\ rest' = [rest EXCEPT ![e] = SubSeq(@, k + 1, Len(@))]
    /\ UNCHANGED <<phase, away, buf, noise, cut, why, sent, got>>

WriteFails(e) == /\ rest[e] # <<>> /\ Gone(e)
                 /\ Close(e, "lost")

\* A task that is not writing is where it sends and receives; handle_client may
\* wait for locks, or for room in the channel of another client, in between.
AtLoop(e) == rest[e] = <<>> /\ ~ (e = Host /\ away)

\* recv_frame is being polled.
Reading(e) == phase[e] \in {"waiting", "up"} /\ AtLoop(e)

\* One turn of the loop of recv_frame: the buffer holds no frame yet.
ReadSome(e) ==
    /\ Reading(e) /\ ~ Complete(buf[e]) /\ ~ Malformed(buf[e])
    /\ \E k \in 1 .. Len(flight[e]) :
          /\ k <= ReadMax
          /\ buf' = [buf EXCEPT ![e] = @ \o SubSeq(flight[e], 1, k)]
          /\ flight' = [flight EXCEPT ![e] = SubSeq(@, k + 1, Len(@))]
    /\ UNCHANGED <<phase, away, rest, noise, cut, why, sent, got>>

ReadFails(e) == /\ Reading(e) /\ ~ Complete(buf[e])
                /\ IF Malformed(buf[e]) THEN Close(e, "malformed")
                   ELSE flight[e] = <<>> /\ Gone(e) /\ Close(e, "lost")
-----------------------------------------------------------------------------
(* noise_transport.rs *)

\* What follows a frame: the task of the host may have to wait before it gets
\* back to its loop, in authenticate_client and while it routes.
MayWait(e) == away' \in IF e = Host THEN BOOLEAN ELSE {away}

\* It has got what it waited for.
Return == /\ away
          /\ away' = FALSE
          /\ UNCHANGED <<phase, link, noise, why, sent, got>>

Handshake(kind) == [kind |-> kind, len |-> 1]

\* client_handshake, its first message.
Hello == /\ phase[Client] = "hello"
         /\ phase' = [phase EXCEPT ![Client] = "waiting"]
         /\ rest' = [rest EXCEPT ![Client] = Encoded(Handshake("init"))]
         /\ UNCHANGED <<away, flight, buf, noise, cut, why, sent, got>>

\* The other end's handshake message: the host answers it.
Shake(e) ==
    LET w == Decoded(buf[e])
    IN  /\ Reading(e) /\ phase[e] = "waiting" /\ Complete(buf[e])
        /\ IF w.kind = (IF e = Host THEN "init" ELSE "resp")
           THEN /\ phase' = [phase EXCEPT ![e] = "up"]
                /\ buf' = [buf EXCEPT ![e] = Remaining(@)]
                /\ rest' = IF e = Host
                           THEN [rest EXCEPT ![e] = Encoded(Handshake("resp"))]
                           ELSE rest
                /\ MayWait(e)
                /\ UNCHANGED <<flight, noise, cut, why, sent, got>>
           ELSE Close(e, "refused")

Fits(n) == n + Tag <= NoiseMax

\* A frame with a payload of n bytes; an empty one is not encrypted.
WireFrame(f, n, nonce) ==
    IF n = 0 THEN [kind |-> "plain", len |-> 0, frame |-> f]
    ELSE [kind |-> "sealed", len |-> n + Tag, nonce |-> nonce, frame |-> f]

SendFrame(e, n) ==
    LET f == [from |-> e, id |-> Len(sent[e]) + 1, size |-> n]
    IN  /\ phase[e] = "up" /\ AtLoop(e)
        /\ Len(sent[e]) < MaxFrames[e]
        /\ IF n = 0 \/ Fits(n)
           THEN /\ rest' = [rest EXCEPT ![e] = Encoded(WireFrame(f, n, nout[e]))]
                /\ nout' = IF n = 0 THEN nout ELSE [nout EXCEPT ![e] = @ + 1]
                /\ sent' = [sent EXCEPT ![e] = Append(@, f)]
                /\ MayWait(e)
                /\ UNCHANGED <<phase, flight, buf, nin, cut, why, got>>
           ELSE Close(e, "oversize")

\* The nonce after a payload of n bytes has been decrypted.
Expected(e, n) == IF n = 0 THEN nin[e] ELSE nin[e] + 1

RecvFrame(e) ==
    LET w == Decoded(buf[e])
    IN  /\ Reading(e) /\ phase[e] = "up" /\ Complete(buf[e])
        /\ IF w.kind = "plain" \/ (w.kind = "sealed" /\ w.nonce = nin[e])
           THEN /\ buf' = [buf EXCEPT ![e] = Remaining(@)]
                /\ nin' = [nin EXCEPT ![e] = Expected(e, w.len)]
                /\ got' = [got EXCEPT ![e] = Append(@, w.frame)]
                /\ MayWait(e)
                /\ UNCHANGED <<phase, rest, flight, nout, cut, why, sent>>
           ELSE Close(e, "refused")
-----------------------------------------------------------------------------
\* A task leaves its loop and shuts the transport down.
Quit(e) == /\ phase[e] = "up" /\ AtLoop(e)
           /\ Close(e, "quit")

\* The network fails and takes along what was under way.
Cut == /\ ~ cut
       /\ cut' = TRUE
       /\ \E k \in 0 .. Len(flight[Client]), l \in 0 .. Len(flight[Host]) :
             flight' = [e \in End |-> SubSeq(flight[e], 1, IF e = Client THEN k ELSE l)]
       /\ UNCHANGED <<phase, away, rest, buf, noise, why, sent, got>>

\* What an end does without being asked.
Step(e) == \/ e = Client /\ Hello
           \/ WriteSome(e) \/ WriteFails(e) \/ ReadSome(e) \/ ReadFails(e)
           \/ Shake(e) \/ RecvFrame(e)

Next == \/ Cut \/ Return
        \/ \E e \in End : \/ Step(e) \/ Quit(e)
                          \/ \E n \in Payload : SendFrame(e, n)

Spec == Init /\ [][Next]_vars

\* The runtime keeps polling both tasks; nothing says that one that waits for
\* another client ever gets what it waits for.
FairSpec == Spec /\ \A e \in End : WF_vars(Step(e))
-----------------------------------------------------------------------------
(* Properties *)

\* Every variable stays in its type, and a read buffer holds less than a frame
\* and one read: what a peer sends ahead stays in the socket (recv_frame).
TypeOK ==
    /\ phase \in [End -> {"hello", "waiting", "up", "closed"}]
    /\ why \in [End -> {"open", "quit", "lost", "malformed", "refused", "oversize",
                      "no_tunnel"}]
    /\ cut \in BOOLEAN /\ away \in BOOLEAN
    /\ nout \in [End -> {0} \cup Numbers] /\ nin \in [End -> {0} \cup Numbers]
    /\ sent \in [End -> Seq(Frame)] /\ got \in [End -> Seq(Frame)]
    /\ \A e \in End : /\ phase[e] # "hello" => Len(flight[e]) <= SockCap
                      /\ Len(buf[e]) < PrefixLen + MaxFrame + ReadMax

\* The transport hands over the frames of the other end in order, none changed,
\* none twice and none left out, wherever the stream is divided and whatever the
\* select! does in between, until the connection ends.
ImplementsPipe == P!PipeSpec

\* No end ever closes over what the other end has sent: what fits the cipher fits
\* the length limit of decode_frame, the nonces of both ends stay in step over
\* empty frames, and the bytes behind a handshake message are not lost.
NothingRefused == \A e \in End : why[e] \notin {"malformed", "refused"}

\* Both ends wait for the other one to read: as long as a task writes it does not
\* read, and all sockets are full.
Wedged == \A e \in End : rest[e] # <<>> /\ Len(flight[Other(e)]) = SockCap

\* A frame that was sent arrives, unless the connection ends, both ends have
\* filled the sockets at once (send_frame inside the select! of both loops), or
\* the task of the host never gets what it waits for: a lock, or room in the
\* channel of a client that does not read (handle_client, ROOM_MESSAGE).
FramesArrive ==
    \A e \in End : \A i \in 1 .. MaxFrames[e] :
        Len(sent[e]) >= i ~> \/ Len(got[Other(e)]) >= i
                             \/ cut \/ Wedged \/ []away
                             \/ \E d \in End : phase[d] = "closed"
=============================================================================

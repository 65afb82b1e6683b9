------------------------------- MODULE Tunnel -------------------------------
(***************************************************************************)
(* A connection as client_connector.rs opens it: straight to the host, or   *)
(* through the SOCKS5 proxy of Tor (socks.rs).  The proxy is external: it   *)
(* answers the greeting and the request on the same stream that it then     *)
(* joins to the host's, so every byte of its answers has to be read, and no *)
(* byte more, before the Noise handshake begins.                            *)
(***************************************************************************)
EXTENDS Wire

CONSTANT Names   \* lengths of the domain names the proxy may be bound to

ASSUME TunnelAssumption == Names \subseteq Nat

VARIABLE stage   \* where connect_via_tor is; "chosen" and "replied": the proxy has answered;
                 \* "tunnel": the stream leads to the host

tunnelVars == <<vars, stage>>

TunnelInit == Init /\ stage \in {"tunnel", "greet"}

\* The n bytes of an answer of the proxy.
Bytes(answer, n) == [i \in 1 .. n |-> [of |-> answer, at |-> i]]

MethodLen == 2
HeadLen == 4

\* How much follows the head: an address of 4, 16 or 1 + name bytes, and a port.
BoundLen(answer) == CASE answer.atyp = "ipv4" -> 6
                      [] answer.atyp = "ipv6" -> 18
                      [] answer.atyp = "domain" -> 1 + answer.name + 2
                      [] OTHER -> 0

\* Variant of ToDrain: the port after a name is left on the stream.
ToDrainName(answer) == IF answer.atyp = "domain" THEN 1 + answer.name
                       ELSE BoundLen(answer)

\* What the client takes off the stream after the head.
ToDrain(answer) == BoundLen(answer)

Methods == [kind : {"method"}, ok : BOOLEAN]
Replies == [kind : {"reply"}, ok : BOOLEAN, atyp : {"ipv4", "ipv6", "unknown"}, name : {0}]
           \cup [kind : {"reply"}, ok : {TRUE}, atyp : {"domain"}, name : Names]

Proxy(from, to, bytes) == /\ stage = from /\ ~ cut
                          /\ stage' = to
                          /\ flight' = [flight EXCEPT ![Client] = @ \o bytes]
                          /\ UNCHANGED <<phase, away, rest, buf, noise, cut, why, sent, got>>

ProxyAnswers == \/ \E m \in Methods : Proxy("method", "chosen", Bytes(m, MethodLen))
                \/ \E r \in Replies :
                      Proxy("reply", "replied", Bytes(r, HeadLen + BoundLen(r)))
-----------------------------------------------------------------------------
(* connect_via_tor *)

\* read_exact of n bytes, after which the call goes on.
ReadExact(n, next) ==
    /\ Len(flight[Client]) >= n
    /\ flight' = [flight EXCEPT ![Client] = SubSeq(@, n + 1, Len(@))]
    /\ stage' = next
    /\ UNCHANGED <<phase, away, rest, buf, noise, cut, why, sent, got>>

First == flight[Client][1].of

Fails(reason) == Close(Client, reason) /\ stage' = "failed"

Greet == /\ stage = "greet"
         /\ stage' = "method"
         /\ UNCHANGED vars

\* A method is chosen: the request for the onion address is written.
ReadMethod == /\ stage = "chosen" /\ Len(flight[Client]) >= MethodLen
              /\ IF First.ok THEN ReadExact(MethodLen, "reply") ELSE Fails("no_tunnel")

\* The head of the reply: a status and the type of the address that follows.
ReadHead == /\ stage = "replied" /\ Len(flight[Client]) >= HeadLen
            /\ IF First.ok /\ First.atyp # "unknown"
               THEN ReadExact(HeadLen, "drain") ELSE Fails("no_tunnel")

\* The address and the port the proxy is bound to.
Drain == stage = "drain" /\ flight[Client] # <<>> /\ ReadExact(ToDrain(First), "tunnel")

\* How many bytes connect_via_tor waits for.
Needed == CASE stage = "chosen" -> MethodLen
            [] stage = "replied" -> HeadLen
            [] stage = "drain" /\ flight[Client] # <<>> -> ToDrain(First)
            [] OTHER -> 1

\* The stream ends in the middle of an answer, or before it.
TunnelFails == /\ stage \notin {"tunnel", "failed"} /\ Gone(Client)
               /\ Len(flight[Client]) < Needed
               /\ Fails("lost")

Connecting == Greet \/ ReadMethod \/ ReadHead \/ Drain \/ TunnelFails
-----------------------------------------------------------------------------
\* The client's transport begins with the tunnel.
Ready(e) == e = Host \/ stage = "tunnel"

TunnelStep(e) == \/ e = Client /\ Connecting
                 \/ Ready(e) /\ Step(e) /\ UNCHANGED stage

TunnelNext == \/ (Cut \/ Return) /\ UNCHANGED stage
              \/ ProxyAnswers
              \/ \E e \in End : \/ TunnelStep(e)
                                \/ Quit(e) /\ UNCHANGED stage
                                \/ \E n \in Payload : SendFrame(e, n) /\ UNCHANGED stage

\* The runtime keeps polling both tasks; the proxy owes no answer.
TunnelSpec == /\ TunnelInit /\ [][TunnelNext]_tunnelVars
              /\ \A e \in End : WF_tunnelVars(TunnelStep(e))
=============================================================================

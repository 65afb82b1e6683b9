------------------------------- MODULE MCWire -------------------------------
(* Payloads that are empty, that fit, and that fit only without the tag.    *)
EXTENDS Tunnel

Lengths == {0, 1, 2}

\* A proxy bound to an empty name, and to one of two bytes.
NamesBound == {0, 2}

\* The frames of the host may follow its handshake message at once.
FrameBound == [e \in End |-> IF e = Host THEN 2 ELSE 1]
=============================================================================

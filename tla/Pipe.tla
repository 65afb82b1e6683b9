-------------------------------- MODULE Pipe --------------------------------
(***************************************************************************)
(* What a NoiseTransport promises to the two ends of a connection, with no *)
(* bytes, no ciphers and no handshake: each end receives the frames the    *)
(* other one has sent, in order and unchanged, up to some point.           *)
(***************************************************************************)
EXTENDS Naturals, Sequences

CONSTANTS End, Frame
VARIABLES sent,   \* sent[e]: frames end e has sent
          got     \* got[e]: frames end e has received

pipeVars == <<sent, got>>

Other(e) == CHOOSE d \in End : d # e

PipeInit == /\ sent = [e \in End |-> <<>>]
            /\ got = [e \in End |-> <<>>]

PipeSend(e) == /\ \E f \in Frame : sent' = [sent EXCEPT ![e] = Append(@, f)]
               /\ UNCHANGED got

PipeReceive(e) ==
    LET from == sent[Other(e)]
    IN  /\ Len(got[e]) < Len(from)
        /\ got' = [got EXCEPT ![e] = Append(@, from[Len(@) + 1])]
        /\ UNCHANGED sent

PipeSpec == /\ PipeInit
            /\ [][\E e \in End : PipeSend(e) \/ PipeReceive(e)]_pipeVars
=============================================================================

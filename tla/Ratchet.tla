------------------------------ MODULE Ratchet ------------------------------
(***************************************************************************)
(* The Double Ratchet between two parties as E2eSession drives it: they    *)
(* have agreed on a secret, and a network may lose, delay, reorder, repeat *)
(* and damage what they send.                                              *)
(***************************************************************************)
EXTENDS RatchetState, FiniteSets

CONSTANTS Alice, Bob,   \* the initiator and the responder of X3DH
          MaxSend,      \* bound: messages each party sends
          MaxExtra      \* bound: repeated and damaged copies each is handed

ASSUME PartyAssumption == /\ Alice # Bob
                          /\ {MaxSend, MaxExtra} \subseteq Nat

VARIABLES state,    \* RatchetState of each party
          sent,     \* messages ever sent
          taken,    \* history: messages each party was handed whole
          opened,   \* history: how often each party decrypted each of them
          extra,    \* history: repeated and damaged copies each was handed
          verdict   \* history: outcome of the latest call of decrypt, up to the first extra

vars == <<state, sent, taken, opened, extra, verdict>>

Party == {Alice, Bob}
Peer(p) == IF p = Alice THEN Bob ELSE Alice
Key == [of : Party \cup {None}, n : Nat] \* ratchet key pairs in order of generation
Message == [ from : Party, id : Nat, dh : Key, prev : Nat, n : Nat,
             key : ChainKeys(Key) ]

ASSUME NoneAssumption == None \notin Key \cup ChainKeys(Key)

FirstKey(p) == [of |-> p, n |-> 0]
Stray == FirstKey(None)               \* 32 bytes that are the key of neither

Init == /\ state = [p \in Party |->
                       IF p = Alice THEN InitAlice(<<>>, FirstKey(Alice), FirstKey(Bob))
                       ELSE InitBob(<<>>, FirstKey(Bob))]
        /\ sent = {}
        /\ taken = [p \in Party |-> {}]
        /\ opened = [p \in Party |-> [i \in 1 .. MaxSend |-> 0]]
        /\ extra = [p \in Party |-> 0]
        /\ verdict = None
-----------------------------------------------------------------------------
\* encrypt of the id-th message of p.
Encrypt(p, id) ==
    LET s == state[p]
    IN  /\ s.send # None
        /\ id = Cardinality({m \in sent : m.from = p}) + 1
        /\ state' = [state EXCEPT ![p] = Sealed(@)]
        /\ sent' = sent \cup {[from |-> p, id |-> id, dh |-> s.self, prev |-> s.prev,
                               n |-> s.nsend, key |-> s.send]}
        /\ UNCHANGED <<taken, opened, extra, verdict>>

\* The network hands p a copy of m: the first, a further one or a damaged one.
Hand(p, m, whole) ==
    /\ m.from = Peer(p)
    /\ IF whole /\ m \notin taken[p]
       THEN /\ taken' = [taken EXCEPT ![p] = @ \cup {m}]
            /\ UNCHANGED extra
       ELSE /\ extra[p] < MaxExtra
            /\ extra' = [extra EXCEPT ![p] = @ + 1]
            /\ UNCHANGED taken
    /\ UNCHANGED sent

\* Messages sent before m that p has not opened.
Missing(p, m) == {o \in sent : o.from = m.from /\ o.id < m.id /\ opened[p][o.id] = 0}

\* m with the header it may come with, which nothing authenticates.  Bound: one
\* field of it is damaged, by a number of those in use, a key of another message or
\* bytes that are no key.
Copies(m) == {m} \cup {[m EXCEPT !.dh = k] : k \in {o.dh : o \in sent} \cup {Stray}}
                 \cup {[m EXCEPT !.prev = n] : n \in 0 .. MaxSend}
                 \cup {[m EXCEPT !.n = n] : n \in 0 .. MaxSend}

\* decrypt of copy h of m, the ciphertext of which is whole or not; the AEAD
\* accepts a whole one and its own key.
Receive(p, m, h, whole) ==
    LET d  == Decrypt(state[p], h)
        ok == whole /\ d.key = m.key
    IN  /\ Hand(p, m, whole /\ h = m)
        /\ state' = [state EXCEPT ![p] = d.state]
        /\ opened' = IF ok THEN [opened EXCEPT ![p][m.id] = @ + 1] ELSE opened
        /\ verdict' = IF \E q \in Party : extra'[q] > 0 THEN None
                      ELSE [result |-> IF ok THEN "opened"
                                       ELSE IF d.key = None THEN "refused" ELSE "failed",
                            missing |-> Cardinality(Missing(p, m))]

Next == \E p \in Party :
          \/ \E id \in 1 .. MaxSend : Encrypt(p, id)
          \/ \E m \in sent : Receive(p, m, m, TRUE)
          \/ /\ extra[p] < MaxExtra
             /\ \E m \in sent, whole \in BOOLEAN :
                   \E h \in Copies(m) : Receive(p, m, h, whole)

Spec == Init /\ [][Next]_vars
-----------------------------------------------------------------------------
(* Properties *)

\* Every variable stays in its type, and there is no receiving chain without a
\* remote key.
TypeOK == /\ state \in [Party -> States(Key)]
          /\ \A p \in Party : state[p].recv # None => state[p].remote # None
          /\ sent \subseteq Message
          /\ taken \in [Party -> SUBSET sent]
          /\ opened \in [Party -> [1 .. MaxSend -> Nat]]
          /\ extra \in [Party -> 0 .. MaxExtra]

\* While nothing is repeated or damaged every message opens, in whatever order
\* they come and whichever are lost, unless more than MaxSkip before it have not
\* been opened (decrypt, skip_messages, dh_ratchet).
LateMessagesOpen ==
    (\A p \in Party : extra[p] = 0) /\ verdict # None =>
       \/ verdict.result = "opened"
       \/ verdict.result = "refused" /\ verdict.missing > MaxSkip

\* No message opens twice, whatever is repeated and damaged in between, headers
\* that turn the ratchet included (decrypt; the test ratchet_forward_secrecy).
OpenedOnce == \A p \in Party : \A i \in 1 .. MaxSend : opened[p][i] <= 1

\* No two messages are encrypted with the same key, which would repeat a nonce,
\* however far repetitions drive the parties apart (encrypt, dh_ratchet).
KeysUnique == \A m, o \in sent : m.key = o.key => m = o

\* The chain keys a party still holds.
Held(p) == {state[p].send, state[p].recv} \ {None}

\* A key that was used is out of reach of the state that used it: no chain
\* leads to it and it is not among the kept ones (encrypt, decrypt).
KeysForgotten ==
    \A p \in Party : \A m \in sent :
        m.from = p \/ opened[p][m.id] > 0
        => /\ \A k \in Held(p) : k.root = m.key.root => k.at > m.key.at
           /\ \A e \in state[p].skipped : e.key # m.key
=============================================================================

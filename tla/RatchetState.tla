---------------------------- MODULE RatchetState ----------------------------
(***************************************************************************)
(* The steps of one RatchetState (ratchet.rs of sanctum-crypto).  Keys are *)
(* the terms that derive them: a root key is the sequence of what was      *)
(* mixed in since X3DH, a chain key the root it comes from and the steps   *)
(* taken since.  A message key is named by the chain key it is derived     *)
(* from; a message has the header's dh, prev and n, and its key.           *)
(***************************************************************************)
EXTENDS Naturals, Sequences

CONSTANTS None,      \* no remote key, no chain
          MaxSkip    \* MAX_SKIP: 256

ASSUME RatchetAssumption == MaxSkip \in Nat

ChainKeys(Key) == [root : Seq(SUBSET Key), at : Nat]
SkippedKeys(Key) == [dh : Key, n : Nat, key : ChainKeys(Key)]
States(Key) ==
    [ self : Key, remote : Key \cup {None}, root : Seq(SUBSET Key),
      send : ChainKeys(Key) \cup {None}, nsend : Nat,
      recv : ChainKeys(Key) \cup {None}, nrecv : Nat, prev : Nat,
      skipped : SUBSET SkippedKeys(Key) ]

Fresh(key) == [key EXCEPT !.n = @ + 1]      \* the next key pair of its owner
Mix(root, a, b) == Append(root, {a, b})     \* kdf_rk over DH(a, b)
Chain(root) == [root |-> root, at |-> 0]
After(ck, n) == [ck EXCEPT !.at = @ + n]    \* n steps of kdf_ck

\* init_bob: his signed pre-key is his first ratchet key.
InitBob(secret, own) ==
    [ self |-> own, remote |-> None, root |-> secret, send |-> None, nsend |-> 0,
      recv |-> None, nrecv |-> 0, prev |-> 0, skipped |-> {} ]

InitAlice(secret, own, his) ==
    LET root == Mix(secret, own, his)
    IN  [InitBob(root, own) EXCEPT !.remote = his, !.send = Chain(root)]
-----------------------------------------------------------------------------
\* Variant of Sealed: the sending chain is not advanced.
SealedKeepsChain(s) == [s EXCEPT !.nsend = @ + 1]

\* encrypt, which fails without a sending chain, leaves this state behind.
Sealed(s) == [s EXCEPT !.send = After(@, 1), !.nsend = @ + 1]

\* skip_messages: does it refuse?
TooFar(s, until) == s.recv # None /\ s.nrecv + MaxSkip < until

\* Variant of Skip: the keys passed over are not kept.
SkipKeepsNone(s, until) ==
    IF s.recv = None \/ until <= s.nrecv THEN s
    ELSE [s EXCEPT !.nrecv = until, !.recv = After(@, until - s.nrecv)]

\* skip_messages: the keys up to `until' are kept under the remote key, in
\* place of those kept there before.
Skip(s, until) ==
    IF s.recv = None \/ until <= s.nrecv THEN s
    ELSE LET passed == s.nrecv .. until - 1
         IN  [s EXCEPT
                !.skipped = {e \in @ : ~ (e.dh = s.remote /\ e.n \in passed)}
                            \cup {[dh |-> s.remote, n |-> i,
                                   key |-> After(s.recv, i - s.nrecv)] : i \in passed},
                !.nrecv = until,
                !.recv = After(@, until - s.nrecv)]

\* dh_ratchet: a receiving chain from the present key pair, then a new pair and
\* a sending chain from it.
Ratcheted(s, dh) ==
    LET received == Mix(s.root, s.self, dh)
        fresh    == Fresh(s.self)
        sending  == Mix(received, fresh, dh)
    IN  [s EXCEPT !.prev = s.nsend, !.nsend = 0, !.nrecv = 0, !.remote = dh,
                  !.recv = Chain(received), !.self = fresh,
                  !.root = sending, !.send = Chain(sending)]

\* The kept key of m, if there is one.
Kept(s, m) == {e \in s.skipped : e.dh = m.dh /\ e.n = m.n}

\* Variant of GivenUp: the kept key stays.
GivenUpNot(s, e) == s

GivenUp(s, e) == [s EXCEPT !.skipped = @ \ {e}]

\* The DH step, if m has a new remote key.
Turned(s, m) == IF m.dh = s.remote THEN s ELSE Ratcheted(Skip(s, m.prev), m.dh)

\* Variant of Advanced: the chain stays where it is.
AdvancedNot(s) == [s EXCEPT !.nrecv = @ + 1]

Advanced(s) == [s EXCEPT !.recv = After(@, 1), !.nrecv = @ + 1]
-----------------------------------------------------------------------------
(* decrypt: the state it leaves behind, and the key it tries, or None when   *)
(* it fails before it has one.                                               *)

\* A kept key is given up whether or not it opens the message.
ByKeptKey(s, m) == LET e == CHOOSE k \in Kept(s, m) : TRUE
                   IN  [state |-> GivenUp(s, e), key |-> e.key]

\* The DH step outlives every failure after it.
ByChain(s, m) ==
    LET t == Turned(s, m)
        u == Skip(t, m.n)
    IN  IF TooFar(t, m.n) \/ t.recv = None THEN [state |-> t, key |-> None]
        ELSE [state |-> Advanced(u), key |-> u.recv]

\* When too many messages are missing from the chain before, nothing changes.
Decrypt(s, m) ==
    IF Kept(s, m) # {} THEN ByKeptKey(s, m)
    ELSE IF m.dh # s.remote /\ TooFar(s, m.prev) THEN [state |-> s, key |-> None]
    ELSE ByChain(s, m)
=============================================================================

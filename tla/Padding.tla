------------------------------ MODULE Padding ------------------------------
(***************************************************************************)
(* Message padding (padding.rs), as message_service.rs offers it: the       *)
(* length in a header, the message, and random bytes up to a whole number   *)
(* of blocks.  A padded message is a record of the length its header tells  *)
(* and what comes after the header.                                         *)
(***************************************************************************)
EXTENDS Integers, Sequences

CONSTANTS Header,   \* bytes of the header: 4 in the code
          Lengths,  \* lengths a header can tell apart: 2^32 in the code
          Byte,
          Malformed \* the error of unpad

ASSUME PaddingAssumption == Header \in Nat /\ Lengths \in Nat \ {0}

\* div_ceil: the blocks of size b that a message of n bytes takes.
Blocks(n, b) == (Header + n + b - 1) \div b

FillLen(n, b) == Blocks(n, b) * b - Header - n

\* The padded forms of message m, one for every choice of the random bytes; the
\* cast to u32 keeps the length modulo Lengths.
Padded(m, b) == {[prefix |-> Len(m) % Lengths, rest |-> m \o fill] :
                    fill \in [1 .. FillLen(Len(m), b) -> Byte]}

Size(p) == Header + Len(p.rest)

Unpad(p) == IF p.prefix > Len(p.rest) THEN Malformed ELSE SubSeq(p.rest, 1, p.prefix)
=============================================================================

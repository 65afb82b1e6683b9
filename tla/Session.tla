------------------------------ MODULE Session ------------------------------
(***************************************************************************)
(* The anti-replay session of sanctum-domain (entities/session.rs): a send *)
(* counter, the highest sequence number received and a sliding window of   *)
(* the last Width numbers.  The Rust bitmap is a u64 whose bit a stands    *)
(* for the number lastReceived - a; here it is the set of its bits.        *)
(***************************************************************************)
EXTENDS Naturals

CONSTANT Width   \* bits of replay_bitmap: 64 in the code

ASSUME WidthAssumption == Width \in Nat \ {0}

Age == 0 .. (Width - 1)

SessionState == [ lastSent     : Nat,
                  lastReceived : Nat,
                  bitmap       : SUBSET Age,
                  established  : BOOLEAN ]

NewSession == [ lastSent     |-> 0,
                lastReceived |-> 0,
                bitmap       |-> {},
                established  |-> FALSE ]

MarkEstablished(s) == [s EXCEPT !.established = TRUE]

NextSendSequence(s) == [s EXCEPT !.lastSent = @ + 1]

\* `bits << n` on a Width-bit word: release builds mask the shift count.
ShiftLeft(bits, n) == {a \in Age : \E b \in bits : a = b + (n % Width)}

AgeOf(s, seq) == s.lastReceived - seq

\* The two outcomes of check_replay that accept a number.
Newer(s, seq) == seq > 0 /\ seq > s.lastReceived

\* Variants of InWindow: the bitmap is not consulted; the edge is taken for inside.
InWindowUnmarked(s, seq) == /\ seq > 0
                            /\ seq <= s.lastReceived
                            /\ AgeOf(s, seq) < Width

InWindowWide(s, seq) == /\ seq > 0
                        /\ seq <= s.lastReceived
                        /\ AgeOf(s, seq) <= Width
                        /\ AgeOf(s, seq) \notin s.bitmap

InWindow(s, seq) == /\ seq > 0
                    /\ seq <= s.lastReceived
                    /\ AgeOf(s, seq) < Width
                    /\ AgeOf(s, seq) \notin s.bitmap

Accepts(s, seq) == Newer(s, seq) \/ InWindow(s, seq)

\* Variant of ShiftedBitmap: a jump of exactly Width reaches the masked shift.
ShiftedBitmapMasked(s, shift) ==
    IF shift > Width THEN {} ELSE ShiftLeft(s.bitmap, shift)

ShiftedBitmap(s, shift) ==
    IF shift >= Width THEN {} ELSE ShiftLeft(s.bitmap, shift)

SlideTo(s, seq) ==
    [s EXCEPT !.bitmap = ShiftedBitmap(s, seq - s.lastReceived) \cup {0},
              !.lastReceived = seq]

MarkSeen(s, seq) == [s EXCEPT !.bitmap = @ \cup {AgeOf(s, seq)}]

\* The session check_replay leaves behind.
CheckReplay(s, seq) == IF Newer(s, seq) THEN SlideTo(s, seq)
                       ELSE IF InWindow(s, seq) THEN MarkSeen(s, seq)
                       ELSE s
=============================================================================

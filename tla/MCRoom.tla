------------------------------- MODULE MCRoom -------------------------------
(* Three fingerprints in rooms of two, three and four: enough to fill one, *)
(* to revoke somebody and to add the same fingerprint again.                *)
EXTENDS Room, TLC

CONSTANTS ann, ben, cat

People == {ann, ben, cat}
Limits == {1, 3, 9}
PeopleSymmetry == Permutations(People)
=============================================================================

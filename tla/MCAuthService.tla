--------------------------- MODULE MCAuthService ---------------------------
(* Three fingerprints, two of them alike once they are truncated, two      *)
(* challenges and a limit of two attempts.                                  *)
EXTENDS AuthService, TLC

CONSTANTS ann, ben, cat, n1, n2

People == {ann, ben, cat}
Nonces == {n1, n2}
Keys == {ann, cat}
Truncated == [f \in People |-> IF f = ben THEN ann ELSE f]
NonceSymmetry == Permutations(Nonces)
=============================================================================

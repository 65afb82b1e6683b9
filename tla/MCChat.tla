------------------------------- MODULE MCChat -------------------------------
(* One client that starts a session with another, who may come and go, and  *)
(* a third one in the same room.                                            *)
EXTENDS Chat

CONSTANTS Ann, Ben, Cat

Room == {Ann, Ben, Cat}
Starting == {Ann}
Chosen == [c \in {Ann} |-> Ben]
TextBound == [c \in Room |-> IF c = Cat THEN 1 ELSE 2]
=============================================================================

----------------------------- MODULE MCRatchet -----------------------------
(* A limit of one skipped message, three messages each way and one repeated *)
(* or damaged copy for each party: both turn the ratchet several times, fall *)
(* behind within the limit and beyond it, in a chain and across a turn, and  *)
(* a damaged header may turn it, or skip keys, on its own.                   *)
EXTENDS Ratchet
=============================================================================

----------------------------- MODULE MCProducer -----------------------------
(***************************************************************************)
(* A small instance of Producer for TLC.                                   *)
(***************************************************************************)
EXTENDS Producer

CONSTANTS c1, c2, p1, p2

OnePerCard == [c \in {c1, c2} |-> IF c = c1 THEN p1 ELSE p2]
=============================================================================

--------------------------- MODULE MCReviewQueue ---------------------------
(***************************************************************************)
(* Small instances of ReviewQueue for TLC.                                 *)
(***************************************************************************)
EXTENDS ReviewQueue

CONSTANTS t1, t2, ann, bob, etl
=============================================================================

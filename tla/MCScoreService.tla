--------------------------- MODULE MCScoreService ---------------------------
(***************************************************************************)
(* Small instances of ScoreService for TLC.  Handler threads share nothing *)
(* but what reload() writes, so one of them meets every interleaving.      *)
(***************************************************************************)
EXTENDS ScoreService

CONSTANTS q1, a1, v1, v2
=============================================================================

-------------------------- MODULE MCStreamPipeline --------------------------
(***************************************************************************)
(* Small instances of StreamPipeline for TLC.                              *)
(***************************************************************************)
EXTENDS StreamPipeline

CONSTANTS t1, t2, t3, c1, c2

(* collect() with aware or naive event_times, on a host that keeps the     *)
(* checkpoint or one that is replaced.                                     *)
AllDeployments == [aware : BOOLEAN, durable : BOOLEAN]

(* A kept host, and aware event_times. *)
KeptAndAware == {[aware |-> TRUE, durable |-> TRUE]}

MCRow(t, c, when, ok) == [txn |-> t, card |-> c, at |-> when, valid |-> ok]

(* A late event of the same card, a second row with a known id, a row that *)
(* parsed but is invalid, and one that did not parse.                      *)
MixedRows ==
  {MCRow(t1, c1, 5, TRUE), MCRow(t2, c1, 2, TRUE), MCRow(t1, c2, 5, TRUE),
   MCRow(t3, c1, 5, FALSE), MCRow(t3, NoCard, NoTime, FALSE)}

(* ... and two that did not parse. *)
RowsAndMalformed == MixedRows \cup {MCRow(t2, NoCard, NoTime, FALSE)}

(* Three transactions of one card inside one window. *)
ValidRows ==
  {MCRow(t1, c1, 2, TRUE), MCRow(t2, c1, 1, TRUE), MCRow(t3, c1, 3, TRUE)}

(* Two messages that did not parse. *)
TwoMalformed ==
  {MCRow(t1, c1, 2, TRUE), MCRow(t2, NoCard, NoTime, FALSE),
   MCRow(t3, NoCard, NoTime, FALSE)}
=============================================================================

--------------------------- MODULE MCBatchScoring ---------------------------
(***************************************************************************)
(* A small instance of BatchScoring: every file of up to four rows, among  *)
(* bursts, an outlier, a far and fast journey, a new device, a second row  *)
(* with a known id, another card, a naive event_time and an invalid row.   *)
(***************************************************************************)
EXTENDS BatchScoring

MCRow(t, c, when, cents, dev, where) ==
  [valid |-> TRUE, aware |-> TRUE, txn |-> t, card |-> c, at |-> when, amount |-> cents,
   merchant |-> where, device |-> dev, place |-> where]

Bursts ==
  {MCRow("t1", "c1", 0, 10, "d1", "home"), MCRow("t2", "c1", 1, 12, "d1", "home"),
   MCRow("t3", "c1", 2, 90, "d2", "away"), MCRow("t1", "c1", 9, 10, "d1", "home")}

Others ==
  {MCRow("t4", "c2", 1, 10, NoDevice, "home"),
   [MCRow("t5", "c1", 2, 10, NoDevice, "home") EXCEPT !.aware = FALSE],
   [MCRow("t6", "c1", 2, 10, NoDevice, "home") EXCEPT !.valid = FALSE]}

MCUpload ==
  UNION {[1 .. n -> Bursts] : n \in 1 .. 4}
    \cup UNION {[1 .. n -> Bursts \cup Others] : n \in 1 .. 3}

MCKm(p, q) == IF p = q THEN 0 ELSE 1000

(* config.py, in hundredths. *)
Defaults == [risk_high |-> 80, risk_low |-> 20, band_low |-> 40, band_high |-> 60]
=============================================================================

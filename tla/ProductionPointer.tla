-------------------------- MODULE ProductionPointer --------------------------
(***************************************************************************)
(* What the governance of src/ml/registry.py promises whoever serves a     *)
(* model: each model has one pointer to a version, it only ever moves to a *)
(* version somebody has signed for, in one step from one to the other, and *)
(* nothing takes it away.  The exception, which the code only warns of, is *)
(* a model of which a version was promoted before it was staged.           *)
(***************************************************************************)
EXTENDS Integers

CONSTANTS Model, Version

VARIABLES
  serving,   \* the version each model serves: {v}, or {} before the first
  signed,    \* <<model, version>> somebody has signed for
  hasty      \* models of which a version was promoted before it was staged

vars == <<serving, signed, hasty>>

Init ==
  /\ serving = [m \in Model |-> {}]
  /\ signed = {}
  /\ hasty = {}

Sign(m, v) ==
  /\ signed' = signed \cup {<<m, v>>}
  /\ hasty' \in {hasty, hasty \cup {m}}
  /\ UNCHANGED serving

Switch(m, v) ==
  /\ <<m, v>> \in signed
  /\ serving' = [serving EXCEPT ![m] = {v}]
  /\ UNCHANGED <<signed, hasty>>

Withdraw(m) ==
  /\ m \in hasty
  /\ serving' = [serving EXCEPT ![m] = {}]
  /\ UNCHANGED <<signed, hasty>>

Next ==
  \E m \in Model : Withdraw(m) \/ \E v \in Version : Sign(m, v) \/ Switch(m, v)

Spec == Init /\ [][Next]_vars
=============================================================================

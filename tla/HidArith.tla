------------------------------ MODULE HidArith ------------------------------
(***************************************************************************)
(* The per-report arithmetic of the HID transport in scene-detect/common.py *)
(* : the clamp of _chunked_move and the integer cumulative interpolation of *)
(* drag.  Python's // with a positive divisor is floor division, as \div.   *)
(***************************************************************************)
EXTENDS Integers

CONSTANT MAX_DELTA   \* max delta per report (10 in the code)

ASSUME MaxDeltaAssumption == MAX_DELTA \in Nat \ {0}

\* The deltas one report may carry.
DeltaRange == (-MAX_DELTA)..MAX_DELTA

\* Mutant: the clamp one unit too tight.
ClampDeltaTight(d) ==
  IF d > MAX_DELTA - 1 THEN MAX_DELTA - 1
  ELSE IF d < -(MAX_DELTA - 1) THEN -(MAX_DELTA - 1) ELSE d

\* Mutant: the lower bound max(-MAX_DELTA, ...) left out.
ClampDeltaOneSided(d) == IF d > MAX_DELTA THEN MAX_DELTA ELSE d

\* max(-MAX_DELTA, min(MAX_DELTA, d))
ClampDelta(d) ==
  IF d > MAX_DELTA THEN MAX_DELTA ELSE IF d < -MAX_DELTA THEN -MAX_DELTA ELSE d

\* Mutant: a uniform step d // steps in place of the cumulative method.
DragDeltaUniform(d, i, steps) == d \div steps

\* (d * i // steps) - (d * (i - 1) // steps): the i-th of steps drag deltas.
DragDelta(d, i, steps) == (d * i) \div steps - (d * (i - 1)) \div steps

\* |d| and the smallest number of reports of at most MAX_DELTA covering it.
Abs(d) == IF d < 0 THEN -d ELSE d
MinReports(d) == (Abs(d) + MAX_DELTA - 1) \div MAX_DELTA
=============================================================================

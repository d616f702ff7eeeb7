----------------------------- MODULE DragInterp -----------------------------
(***************************************************************************)
(* The interpolation loop of drag (scene-detect/common.py): a drag by      *)
(* (dx, dy) = (x2 - x1, y2 - y1) is cut into steps deltas by the integer   *)
(* cumulative method.  The sum of the emitted deltas is kept as a history  *)
(* variable; the code itself sets _cx, _cy to x2, y2 after sending them.   *)
(***************************************************************************)
EXTENDS HidArith, Sequences

CONSTANTS Drags,        \* the drags (dx, dy) to try
          StepCounts    \* values of the argument steps (20 at every call)

ASSUME DragAssumption ==
  /\ Drags \subseteq Int \X Int
  /\ StepCounts \subseteq Nat \ {0}

VARIABLES d,        \* <<dx, dy>>
          steps,    \* the argument steps
          i,        \* the loop index of "for i in range(1, steps + 1)"
          cmds,     \* the deltas appended so far, as <<sx, sy>>
          sum       \* history: the sum of cmds

vars == <<d, steps, i, cmds, sum>>

Init ==
  /\ d \in Drags
  /\ steps \in StepCounts
  /\ i = 1
  /\ cmds = <<>>
  /\ sum = <<0, 0>>

\* Mutant: the loop runs one index too far, range(1, steps + 2).
DragStepExtra ==
  /\ i <= steps + 1
  /\ LET s == <<DragDelta(d[1], i, steps), DragDelta(d[2], i, steps)>> IN
       /\ cmds' = Append(cmds, s)
       /\ sum' = <<sum[1] + s[1], sum[2] + s[2]>>
  /\ i' = i + 1
  /\ UNCHANGED <<d, steps>>

\* One iteration: sx, sy by the cumulative method, cmds.append.
DragStep ==
  /\ i <= steps
  /\ LET s == <<DragDelta(d[1], i, steps), DragDelta(d[2], i, steps)>> IN
       /\ cmds' = Append(cmds, s)
       /\ sum' = <<sum[1] + s[1], sum[2] + s[2]>>
  /\ i' = i + 1
  /\ UNCHANGED <<d, steps>>

Next == DragStep

Spec == Init /\ [][Next]_vars /\ WF_vars(DragStep)
-----------------------------------------------------------------------------
\* Type invariant: the index never passes steps + 1, one delta per index.
TypeOK ==
  /\ d \in Drags
  /\ steps \in StepCounts
  /\ i \in 1..(steps + 1)
  /\ cmds \in Seq(Int \X Int) /\ Len(cmds) = i - 1
  /\ sum \in Int \X Int

\* Drag interpolation exactness (spec 8): once the loop has run, the deltas
\* sum to (dx, dy) exactly, for every steps >= 1, so that the pointer ends
\* at (x2, y2) where the code puts _cx, _cy.
DragExact ==
  i = steps + 1 => sum = d
=============================================================================

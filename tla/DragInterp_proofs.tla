-------------------------- MODULE DragInterp_proofs --------------------------
(***************************************************************************)
(* Exactness of the integer cumulative interpolation of drag, for every    *)
(* drag (dx, dy) and every steps >= 1: the deltas telescope.               *)
(***************************************************************************)
EXTENDS DragInterp, SequenceTheorems, TLAPS

\* After i - 1 iterations the deltas emitted sum to d * (i - 1) // steps
\* on each axis: each delta adds the next cumulative quotient and takes
\* away the previous one.
Partial(a, k, n) == (a * k) \div n

IInv ==
  /\ TypeOK
  /\ sum = <<Partial(d[1], i - 1, steps), Partial(d[2], i - 1, steps)>>

\* Floor division undoes the multiplication it follows.
LEMMA DivCancel ==
  ASSUME NEW a \in Int, NEW n \in Nat \ {0}
  PROVE  (a * n) \div n = a
OBVIOUS

\* Nothing has been emitted before the first iteration.
LEMMA PartialZero ==
  ASSUME NEW a \in Int, NEW n \in Nat \ {0}
  PROVE  Partial(a, 0, n) = 0
BY DEF Partial

\* One drag delta takes the partial sum from k - 1 steps to k steps.
LEMMA Telescope ==
  ASSUME NEW a \in Int, NEW k \in Int, NEW n \in Nat \ {0}
  PROVE  Partial(a, k - 1, n) + DragDelta(a, k, n) = Partial(a, k, n)
<1> DEFINE lo == (a * (k - 1)) \div n  hi == (a * k) \div n
<1>1. lo \in Int /\ hi \in Int
  OBVIOUS
<1>2. Partial(a, k - 1, n) = lo /\ Partial(a, k, n) = hi
  BY DEF Partial
<1>3. DragDelta(a, k, n) = hi - lo
  BY DEF DragDelta
<1> QED
  BY <1>1, <1>2, <1>3

LEMMA InitIInv == Init => IInv
<1> SUFFICES ASSUME Init PROVE IInv
  OBVIOUS
<1>1. d \in Int \X Int /\ steps \in Nat \ {0}
  BY DragAssumption DEF Init
<1>2. TypeOK
  BY <1>1 DEF Init, TypeOK
<1>3. QED
  BY <1>1, <1>2, PartialZero DEF Init, IInv

LEMMA NextIInv == IInv /\ [Next]_vars => IInv'
<1> SUFFICES ASSUME IInv, [Next]_vars PROVE IInv'
  OBVIOUS
<1>1. /\ d \in Int \X Int /\ steps \in Nat \ {0} /\ i \in 1..(steps + 1)
      /\ d \in Drags /\ steps \in StepCounts
  BY DragAssumption DEF IInv, TypeOK
<1>2. CASE UNCHANGED vars
  BY <1>2 DEF vars, IInv, TypeOK
<1>3. CASE DragStep
  <2> DEFINE s == <<DragDelta(d[1], i, steps), DragDelta(d[2], i, steps)>>
  <2>1. /\ cmds' = Append(cmds, s)
        /\ sum' = <<sum[1] + s[1], sum[2] + s[2]>>
        /\ i' = i + 1 /\ i <= steps
        /\ d' = d /\ steps' = steps
    BY <1>3 DEF DragStep
  <2>2. s \in Int \X Int
    BY <1>1 DEF DragDelta
  <2>3. cmds' \in Seq(Int \X Int) /\ Len(cmds') = i' - 1
    BY <2>1, <2>2, <1>1, AppendProperties DEF IInv, TypeOK
  <2>4. sum = <<Partial(d[1], i - 1, steps), Partial(d[2], i - 1, steps)>>
    BY DEF IInv
  <2>5. sum' = <<Partial(d[1], i, steps), Partial(d[2], i, steps)>>
    <3>1. /\ sum[1] + s[1] = Partial(d[1], i, steps)
          /\ sum[2] + s[2] = Partial(d[2], i, steps)
      BY <2>4, <1>1, Telescope
    <3> QED
      BY <2>1, <3>1
  <2>6. sum' \in Int \X Int
    BY <2>5, <1>1 DEF Partial
  <2>7. QED
    BY <2>1, <2>3, <2>5, <2>6, <1>1 DEF IInv, TypeOK
<1>4. QED
  BY <1>2, <1>3 DEF Next

\* The interpolation invariant holds in every state of the loop.
THEOREM IInvariant == Spec => []IInv
BY InitIInv, NextIInv, PTL DEF Spec

\* The drag loop's type invariant (the property TypeOK of the run
\* DragInterp): the loop index stays in 1..steps+1 with one command per
\* iteration done, for every drag and number of steps.
THEOREM TypeCorrect == Spec => []TypeOK
BY IInvariant, PTL DEF IInv

\* Drag interpolation exactness (the property DragExact of the run
\* DragInterp): when the loop of drag has run, its deltas sum to (dx, dy).
THEOREM DragExactness == Spec => []DragExact
<1>1. IInv => DragExact
  <2> SUFFICES ASSUME IInv, i = steps + 1 PROVE sum = d
    BY DEF DragExact
  <2>1. d \in Int \X Int /\ steps \in Nat \ {0}
    BY DragAssumption DEF IInv, TypeOK
  <2>2. i - 1 = steps
    BY <2>1
  <2>3. sum = <<Partial(d[1], steps, steps), Partial(d[2], steps, steps)>>
    BY <2>2 DEF IInv
  <2>4. Partial(d[1], steps, steps) = d[1] /\ Partial(d[2], steps, steps) = d[2]
    BY <2>1, DivCancel DEF Partial
  <2>5. d = <<d[1], d[2]>>
    BY <2>1
  <2>6. QED
    BY <2>3, <2>4, <2>5
<1>2. QED
  BY <1>1, IInvariant, PTL
=============================================================================

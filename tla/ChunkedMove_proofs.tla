-------------------------- MODULE ChunkedMove_proofs --------------------------
(***************************************************************************)
(* Chunk exactness of _chunked_move for every MAX_DELTA, request and start *)
(* cursor: the loop keeps "cursor moved so far + remainder = request".     *)
(* And the count of reports: each iteration takes one report off what the *)
(* remainder still needs, so the loop ends after the fewest reports.      *)
(***************************************************************************)
EXTENDS ChunkedMove, SequenceTheorems, TLAPS

\* The loop invariant of "while dx != 0 or dy != 0": what has been added to
\* _cx, _cy plus what remains in dx, dy is the requested motion.
IInv ==
  /\ TypeOK
  /\ req \in Requests /\ orig \in Cursors
  /\ cx - orig[1] + dx = req[1]
  /\ cy - orig[2] + dy = req[2]

\* The clamp yields a report within +-MAX_DELTA of the same integer type.
LEMMA ClampRange ==
  ASSUME NEW n \in Int
  PROVE  ClampDelta(n) \in DeltaRange
BY MaxDeltaAssumption DEF ClampDelta, DeltaRange

LEMMA InitIInv == Init => IInv
BY ChunkAssumption DEF Init, IInv, TypeOK

LEMMA NextIInv == IInv /\ [Next]_vars => IInv'
<1> SUFFICES ASSUME IInv, [Next]_vars PROVE IInv'
  OBVIOUS
<1>1. CASE UNCHANGED vars
  BY <1>1 DEF vars, IInv, TypeOK
<1>2. CASE ChunkStep
  <2>1. ClampDelta(dx) \in DeltaRange /\ ClampDelta(dy) \in DeltaRange
    BY ClampRange DEF IInv, TypeOK
  <2>2. <<ClampDelta(dx), ClampDelta(dy)>> \in DeltaRange \X DeltaRange
    BY <2>1
  <2>3. chunks' \in Seq(DeltaRange \X DeltaRange)
    BY <1>2, <2>2, AppendProperties DEF ChunkStep, IInv, TypeOK
  <2>4. /\ dx' = dx - ClampDelta(dx) /\ dy' = dy - ClampDelta(dy)
        /\ cx' = cx + ClampDelta(dx) /\ cy' = cy + ClampDelta(dy)
        /\ req' = req /\ orig' = orig
    BY <1>2 DEF ChunkStep
  <2>5. req[1] \in Int /\ req[2] \in Int /\ orig[1] \in Int /\ orig[2] \in Int
    BY ChunkAssumption DEF IInv
  <2>6. TypeOK'
    BY <2>1, <2>3, <2>4, MaxDeltaAssumption DEF IInv, TypeOK
  <2>7. /\ dx \in Int /\ dy \in Int /\ cx \in Int /\ cy \in Int
        /\ cx - orig[1] + dx = req[1] /\ cy - orig[2] + dy = req[2]
    BY DEF IInv, TypeOK
  <2>8. cx' - orig[1] + dx' = req[1] /\ cy' - orig[2] + dy' = req[2]
    BY <2>1, <2>4, <2>5, <2>7 DEF DeltaRange
  <2>9. QED
    BY <2>4, <2>6, <2>8 DEF IInv
<1>3. QED
  BY <1>1, <1>2 DEF Next

\* The loop invariant holds in every state of the loop.
THEOREM IInvariant == Spec => []IInv
BY InitIInv, NextIInv, PTL DEF Spec

\* The loop's type invariant (the property TypeOK of the run ChunkedMove):
\* the remainder and the tracked cursor stay integers and every report
\* made carries deltas within +-MAX_DELTA, whatever MAX_DELTA and request.
THEOREM TypeCorrect == Spec => []TypeOK
BY IInvariant, PTL DEF IInv

\* Chunk exactness (the property ChunkExact of the run ChunkedMove): when
\* the loop of _chunked_move ends, _cx, _cy have moved by the request.
THEOREM ChunkExactness == Spec => []ChunkExact
<1>1. IInv => ChunkExact
  BY ChunkAssumption DEF IInv, TypeOK, ChunkExact, Done
<1>2. QED
  BY <1>1, IInvariant, PTL

-----------------------------------------------------------------------------
(* The count of reports.                                                  *)

\* Floor division is fixed by the bounds of the quotient.
LEMMA DivUnique ==
  ASSUME NEW x \in Int, NEW q \in Int, NEW m \in Nat \ {0},
         q * m <= x, x < (q + 1) * m
  PROVE  x \div m = q
BY SMT

\* A motion of zero needs no report.
LEMMA MinReportsZero == MinReports(0) = 0
<1>1. MAX_DELTA - 1 \in Int /\ 0 * MAX_DELTA <= MAX_DELTA - 1 /\ MAX_DELTA - 1 < 1 * MAX_DELTA
  BY MaxDeltaAssumption
<1> QED
  BY <1>1, MaxDeltaAssumption, DivUnique DEF MinReports, Abs

\* A non-zero motion needs a report, and one clamped report leaves one
\* report fewer to make.
LEMMA MinReportsStep ==
  ASSUME NEW d \in Int, d # 0
  PROVE  /\ MinReports(d) \in Nat \ {0}
         /\ MinReports(d - ClampDelta(d)) = MinReports(d) - 1
<1> DEFINE M == MAX_DELTA
<1>0. M \in Nat \ {0}
  BY MaxDeltaAssumption
<1>1. CASE Abs(d) <= M
  <2>1. d - ClampDelta(d) = 0
    BY <1>0, <1>1 DEF ClampDelta, Abs
  <2>2. MinReports(d) = 1
    <3>1. 1 * M <= Abs(d) + M - 1 /\ Abs(d) + M - 1 < 2 * M /\ Abs(d) + M - 1 \in Int
      BY <1>0, <1>1 DEF Abs
    <3> QED
      BY <3>1, <1>0, DivUnique DEF MinReports
  <2> QED
    BY <2>1, <2>2, MinReportsZero
<1>2. CASE Abs(d) > M
  <2>1. Abs(d - ClampDelta(d)) = Abs(d) - M
    BY <1>0, <1>2 DEF ClampDelta, Abs
  <2> DEFINE x == Abs(d) + M - 1
             q == x \div M
  <2>2. x \in Int /\ q \in Int /\ q * M <= x /\ x < (q + 1) * M
    BY <1>0, <1>2 DEF Abs
  <2>3. (x - M) \div M = q - 1
    BY <2>2, <1>0, DivUnique
  <2>4. q >= 1
    BY <2>2, <1>0, <1>2 DEF Abs
  <2>5. MinReports(d) = q
    BY DEF MinReports
  <2>6. MinReports(d - ClampDelta(d)) = (x - M) \div M
    <3>1. Abs(d - ClampDelta(d)) + M - 1 = x - M
      BY <2>1, <1>0 DEF Abs
    <3> QED
      BY <3>1 DEF MinReports
  <2> QED
    BY <2>3, <2>4, <2>5, <2>6, <2>2
<1> QED
  BY <1>0, <1>1, <1>2 DEF Abs
\* Every motion needs a natural number of reports.
LEMMA MinReportsNat ==
  ASSUME NEW n \in Int
  PROVE  MinReports(n) \in Nat
<1>1. CASE n = 0
  BY <1>1, MinReportsZero
<1>2. CASE n # 0
  BY <1>2, MinReportsStep
<1> QED
  BY <1>1, <1>2

\* The reports made plus the reports the remainder still needs are the
\* reports the request needs.
CountInv == Len(chunks) + Reports(dx, dy) = Reports(req[1], req[2])

LEMMA InitCount == Init => CountInv
<1> SUFFICES ASSUME Init PROVE CountInv
  OBVIOUS
<1>1. dx = req[1] /\ dy = req[2] /\ chunks = <<>> /\ dx \in Int /\ dy \in Int
  BY ChunkAssumption DEF Init
<1>2. MinReports(dx) \in Nat /\ MinReports(dy) \in Nat
  BY <1>1, MinReportsNat
<1> QED
  BY <1>1, <1>2 DEF CountInv, Reports

LEMMA NextCount == IInv /\ CountInv /\ [Next]_vars => CountInv'
<1> SUFFICES ASSUME IInv, CountInv, [Next]_vars PROVE CountInv'
  OBVIOUS
<1>0. /\ dx \in Int /\ dy \in Int /\ chunks \in Seq(DeltaRange \X DeltaRange)
      /\ MinReports(0) = 0 /\ ClampDelta(0) = 0
  BY MinReportsZero, MaxDeltaAssumption DEF IInv, TypeOK, ClampDelta
<1>1. CASE UNCHANGED vars
  BY <1>1 DEF vars, CountInv
<1>2. CASE ChunkStep
  <2>1. /\ Len(chunks') = Len(chunks) + 1
        /\ dx' = dx - ClampDelta(dx) /\ dy' = dy - ClampDelta(dy)
        /\ req' = req
        /\ (dx # 0 \/ dy # 0)
    BY <1>0, <1>2 DEF ChunkStep
  <2> DEFINE mx == MinReports(dx)  my == MinReports(dy)
             mx2 == MinReports(dx')  my2 == MinReports(dy')
  <2>2. mx \in Nat /\ my \in Nat
    BY <1>0, MinReportsNat
  <2>3. /\ dx # 0 => mx2 = mx - 1 /\ mx >= 1
        /\ dx = 0 => mx2 = 0 /\ mx = 0
    BY <1>0, <2>1, MinReportsStep
  <2>4. /\ dy # 0 => my2 = my - 1 /\ my >= 1
        /\ dy = 0 => my2 = 0 /\ my = 0
    BY <1>0, <2>1, MinReportsStep
  <2>5. Reports(dx', dy') = Reports(dx, dy) - 1
    BY <2>1, <2>2, <2>3, <2>4 DEF Reports
  <2>6. Reports(dx, dy) \in Int /\ Len(chunks) \in Nat
    BY <1>0, <2>2 DEF Reports
  <2>7. Reports(req'[1], req'[2]) = Reports(req[1], req[2])
    BY <2>1
  <2> QED
    BY <2>1, <2>5, <2>6, <2>7 DEF CountInv
<1> QED
  BY <1>1, <1>2 DEF Next

\* The report count holds in every state of the loop.
THEOREM CountInvariant == Spec => [](IInv /\ CountInv)
<1>1. Init => IInv /\ CountInv
  BY InitIInv, InitCount
<1>2. IInv /\ CountInv /\ [Next]_vars => IInv' /\ CountInv'
  BY NextIInv, NextCount
<1> QED
  BY <1>1, <1>2, PTL DEF Spec

\* Fewest reports (the property ChunkCount of the run ChunkedMove): when
\* the loop of _chunked_move ends it has made exactly the larger of the
\* two axes' ceil(|d| / MAX_DELTA) reports, for every MAX_DELTA, request
\* and start cursor.
THEOREM ChunkCountExact == Spec => []ChunkCount
<1>1. CountInv /\ Done => ChunkCount
  BY MinReportsZero DEF CountInv, Done, ChunkCount, Reports
<1> QED
  BY <1>1, CountInvariant, PTL DEF ChunkCount
=============================================================================

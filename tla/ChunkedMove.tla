----------------------------- MODULE ChunkedMove -----------------------------
(***************************************************************************)
(* The chunking loop of _chunked_move (scene-detect/common.py): a requested *)
(* relative motion (dx, dy) is cut into reports of at most MAX_DELTA per    *)
(* axis, and the tracked cursor (_cx, _cy) is advanced by each report.  The *)
(* batching that follows the loop only sends the list and is modelled in    *)
(* HidTransport.                                                           *)
(***************************************************************************)
EXTENDS HidArith, Sequences

CONSTANTS Requests,   \* the requested motions (dx, dy) to try
          Cursors     \* the tracked cursors the loop may start from

ASSUME ChunkAssumption ==
  /\ Requests \subseteq Int \X Int
  /\ Cursors \subseteq Int \X Int

VARIABLES dx, dy,     \* the remainder, decremented by the loop
          cx, cy,     \* _cx, _cy
          chunks,     \* the reports made so far, as <<sx, sy>>
          req,        \* history: the requested motion
          orig        \* history: the tracked cursor at the call

vars == <<dx, dy, cx, cy, chunks, req, orig>>

Init ==
  /\ req \in Requests
  /\ orig \in Cursors
  /\ dx = req[1] /\ dy = req[2]
  /\ cx = orig[1] /\ cy = orig[2]
  /\ chunks = <<>>

\* Mutant: the loop body without "_cy += sy".
ChunkStepNoY ==
  /\ dx # 0 \/ dy # 0
  /\ LET sx == ClampDelta(dx)
         sy == ClampDelta(dy)
     IN /\ chunks' = Append(chunks, <<sx, sy>>)
        /\ dx' = dx - sx
        /\ dy' = dy - sy
        /\ cx' = cx + sx
        /\ UNCHANGED cy
  /\ UNCHANGED <<req, orig>>

\* Mutant: "and" in place of "or" in the loop condition.
ChunkStepAnd ==
  /\ dx # 0 /\ dy # 0
  /\ LET sx == ClampDelta(dx)
         sy == ClampDelta(dy)
     IN /\ chunks' = Append(chunks, <<sx, sy>>)
        /\ dx' = dx - sx
        /\ dy' = dy - sy
        /\ cx' = cx + sx
        /\ cy' = cy + sy
  /\ UNCHANGED <<req, orig>>

\* One iteration of "while dx != 0 or dy != 0".
ChunkStep ==
  /\ dx # 0 \/ dy # 0
  /\ LET sx == ClampDelta(dx)
         sy == ClampDelta(dy)
     IN /\ chunks' = Append(chunks, <<sx, sy>>)
        /\ dx' = dx - sx
        /\ dy' = dy - sy
        /\ cx' = cx + sx
        /\ cy' = cy + sy
  /\ UNCHANGED <<req, orig>>

Next == ChunkStep

Spec == Init /\ [][Next]_vars /\ WF_vars(ChunkStep)

Done == dx = 0 /\ dy = 0
-----------------------------------------------------------------------------
\* Type invariant.
TypeOK ==
  /\ dx \in Int /\ dy \in Int /\ cx \in Int /\ cy \in Int
  /\ chunks \in Seq(DeltaRange \X DeltaRange)

\* Chunk exactness (spec 8): when the loop ends the tracked cursor has moved
\* by exactly the requested motion, so move_to lands on its target.
ChunkExact ==
  Done => cx = orig[1] + req[1] /\ cy = orig[2] + req[2]

\* The loop "while dx != 0 or dy != 0" ends: the remainder reaches zero on
\* both axes, whatever the motion requested.
ChunkTerminates == <>Done

\* The number of reports a motion (a, b) needs at least: the larger of the
\* two axes' counts of reports of at most MAX_DELTA.
Reports(a, b) ==
  IF MinReports(a) > MinReports(b) THEN MinReports(a) ELSE MinReports(b)

\* When the loop ends it has made the smallest number of reports: both
\* axes advance together, and a report is short only in its last step on
\* that axis, so a move costs no more HID reports (and no more latency)
\* than the clamp allows.
ChunkCount == Done => Len(chunks) = Reports(req[1], req[2])
=============================================================================

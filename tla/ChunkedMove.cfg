CONSTANTS
  MAX_DELTA <- MC_MAX_DELTA
  Requests <- MC_Requests
  Cursors <- MC_Cursors
SPECIFICATION Spec
\* The loop ends when the remainder is zero: a terminating computation.
CHECK_DEADLOCK FALSE
INVARIANTS TypeOK ChunkExact ChunkCount
PROPERTIES ChunkTerminates

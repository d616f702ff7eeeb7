CONSTANTS
  MAX_DELTA <- MC_MAX_DELTA
  Drags <- MC_Drags
  StepCounts <- MC_StepCounts
SPECIFICATION Spec
\* The loop ends after steps iterations: a terminating computation.
CHECK_DEADLOCK FALSE
INVARIANTS TypeOK DragExact

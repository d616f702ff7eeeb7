CONSTANTS
  MAX_DELTA <- MC_MAX_DELTA
  BATCH_MIN <- MC_BATCH_MIN
  BATCH_MAX <- MC_BATCH_MAX
  RESET_SWEEP <- MC_RESET_SWEEP
  DRAG_STEPS <- MC_DRAG_STEPS
  ScreenW <- MC_ScreenW
  ScreenH <- MC_ScreenH
  Flicks <- MC_Flicks
  ActionSet <- MC_ActionSet
  HttpMayFail = TRUE
INIT Init
NEXT Next

INVARIANTS TrackedUnlessAborted ReleasedUnlessAborted
PROPERTIES ClickOnTarget

CONSTANTS
  Screens <- MC_Screens
  SCAN_STEP = 10
  RESET_SWEEP = 500
  MAX_SCAN = 500
  IconHalf <- MC_IconHalf
  MAX_DIALOG_RETRIES = 10
  Scripts <- MC_Scripts
SPECIFICATION Spec
CHECK_DEADLOCK FALSE
INVARIANTS CalibratedSizeExact ScriptTapsOnTarget

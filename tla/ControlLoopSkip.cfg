CONSTANTS
  None = None
  FSM_CONFIRM_COUNT <- MC_CONFIRM_COUNT
  PLAY_TURN_INTERVAL <- MC_PLAY_TURN_INTERVAL
  HidEnabled = TRUE
  Observable <- MC_Observable
  MaxQueue <- MC_MaxQueue
SPECIFICATION Spec
PROPERTIES SkipRetriedNextPoll

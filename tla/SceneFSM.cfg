CONSTANTS
  FSM_CONFIRM_COUNT <- MC_CONFIRM_COUNT
  None = None
INIT Init
NEXT Next
INVARIANTS
  TypeOK
  PendingInv
PROPERTIES
  ConfirmedByRun

CONSTANTS
  LoadOrder <- MC_LoadOrder
  Levels <- MC_Levels
SPECIFICATION Spec
INVARIANT SpecialRewardOnTop

---------------------------- MODULE MC_SceneFSM ----------------------------
(* Model-checking instance of SceneFSM with the code's FSM_CONFIRM_COUNT. *)
EXTENDS SceneFSM

MC_CONFIRM_COUNT == 3
=============================================================================

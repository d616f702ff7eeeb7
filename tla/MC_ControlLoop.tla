---------------------------- MODULE MC_ControlLoop ----------------------------
(* Small instance of ControlLoop: the code's FSM_CONFIRM_COUNT and          *)
(* PLAY_TURN_INTERVAL, HID enabled, and a classifier that returns any of    *)
(* four candidates, enough for the way into IN-PLAY (directly from UNKNOWN, *)
(* or from DECK-SELECT), the way out (CLEAR-OK) and the interruptions.      *)
EXTENDS ControlLoop

MC_CONFIRM_COUNT == 3
MC_PLAY_TURN_INTERVAL == 5
MC_Observable == {"UNKNOWN", "DECK-SELECT", "NORMAL-QUEST-UIJIN-IN-PLAY",
                  "CLEAR-OK"}
MC_MaxQueue == 2
=============================================================================

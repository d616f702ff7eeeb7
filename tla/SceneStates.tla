----------------------------- MODULE SceneStates -----------------------------
(***************************************************************************)
(* The FSM states of scene-detect/scene.py (the S_* constants), shared by  *)
(* the FSM and the classifier _evaluate_state that produces its candidates. *)
(***************************************************************************)

S_UNKNOWN                  == "UNKNOWN"
S_HOME                     == "HOME"
S_QUEST                    == "QUEST"
S_NORMAL_QUEST             == "NORMAL-QUEST"
S_NORMAL_QUEST_UIJIN       == "NORMAL-QUEST-UIJIN"
S_NORMAL_QUEST_UIJIN_KARYU == "NORMAL-QUEST-UIJIN-KARYU"
S_HELPER_SELECT            == "HELPER-SELECT"
S_DECK_SELECT              == "DECK-SELECT"
S_IN_PLAY                  == "NORMAL-QUEST-UIJIN-IN-PLAY"
S_CLEAR_OK                 == "CLEAR-OK"
S_SPECIAL_REWARD           == "SPECIAL-REWARD"
S_EVENT                    == "EVENT"
S_REWARD_NEXT              == "REWARD-NEXT"

\* The concrete screens: every state but UNKNOWN.
Concrete == {S_HOME, S_EVENT, S_QUEST, S_NORMAL_QUEST, S_NORMAL_QUEST_UIJIN,
             S_NORMAL_QUEST_UIJIN_KARYU, S_HELPER_SELECT, S_DECK_SELECT,
             S_IN_PLAY, S_CLEAR_OK, S_SPECIAL_REWARD, S_REWARD_NEXT}

States == Concrete \cup {S_UNKNOWN}
=============================================================================

--------------------------- MODULE MC_HidTransport ---------------------------
(* The code's constants on a 400 x 300 HID-unit screen (int(w * r) and the *)
(* model's w * r \div 1000 agree there for every r the actions use), with  *)
(* flicks of the greatest strength at 0, 90, 180 and 270 degrees, and the *)
(* actions of every shape: a click, two clicks, scrolls, and a flick.      *)
EXTENDS HidTransport

MC_MAX_DELTA == 10
MC_BATCH_MIN == 6
MC_BATCH_MAX == 14
MC_RESET_SWEEP == 500
MC_DRAG_STEPS == 20
MC_ScreenW == 400
MC_ScreenH == 300
MC_Flicks == {<<200, 0>>, <<0, 200>>, <<-200, 0>>, <<0, -200>>}
MC_ActionSet == {"quest_bt_click", "shojin_bt_click", "helper_select",
                 "play_turn", "clear_ok", "reward_next"}
=============================================================================

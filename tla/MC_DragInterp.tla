---------------------------- MODULE MC_DragInterp ----------------------------
(* The drags of shojin_bt_click and helper_select on a 400 x 400 screen      *)
(* (0.9 -> 0.3, 0.3 -> 0.9, 0.6 -> 0.2 of the height), a diagonal one, the   *)
(* null one and the drag of the spec's example, for 20 steps (the code's)  *)
(* and for 1, 3 and 4 steps.                                               *)
EXTENDS DragInterp

MC_MAX_DELTA == 10
MC_Drags == {<<0, -240>>, <<0, 240>>, <<0, -160>>, <<-37, 53>>, <<0, 0>>,
             <<100, 50>>}
MC_StepCounts == {1, 3, 4, 20}
=============================================================================

------------------------------ MODULE AutoTest ------------------------------
(***************************************************************************)
(* The auto-test scripts auto-test/initial.py and auto-test/home.py on the *)
(* library of scene-detect/common.py, with the automatic path of           *)
(* calibrate: a diagonal step-and-tap scan from the origin until the       *)
(* hamburger menu is seen, from which the screen size is derived.  Each    *)
(* HID primitive is one step here (module HidTransport models batching and *)
(* failing POSTs); the host pointer moves by each delta and stops at the   *)
(* screen edges.  capture_screen, detect_hamburger_menu and                *)
(* detect_home_screen are stubs in the code; they stand for the vision     *)
(* their docstrings describe: the menu is visible once a tap has landed on *)
(* its icon near the bottom-right corner, and the home screen may or may   *)
(* not be visible.                                                         *)
(***************************************************************************)
EXTENDS Integers, Sequences

CONSTANTS Screens,            \* the real screens, <<w, h>> in HID units
          SCAN_STEP,          \* 10
          RESET_SWEEP,        \* 500
          MAX_SCAN,           \* max_steps = 500
          IconHalf,           \* half the side of the hamburger icon
          MAX_DIALOG_RETRIES, \* 10
          Scripts             \* which scripts run, with or without size

\* What the code and the reports take for granted of these: sizes and
\* steps are whole HID units, and a script is one of the two with or
\* without a size on the command line.
ASSUME AutoTestAssumption ==
  /\ Screens \subseteq Nat \X Nat
  /\ SCAN_STEP \in Nat \ {0}
  /\ RESET_SWEEP \in Nat
  /\ MAX_SCAN \in Nat
  /\ IconHalf \in Nat
  /\ MAX_DIALOG_RETRIES \in Nat
  /\ Scripts \subseteq {"initial", "home"} \X BOOLEAN

VARIABLES scr,                 \* the real screen (environment)
          screen_w, screen_h,  \* common.screen_w, screen_h
          cx, cy,              \* common._cx, _cy
          ptr,                 \* the host pointer (environment)
          menu,                \* the hamburger menu is open (environment)
          script,              \* <<name, manual size given>>
          pc,                  \* where the script is
          step,                \* the scan's loop counter
          attempt, k,          \* the dialog attempt, the tap within a list
          tap                  \* history: the last script tap, aim and point

vars == <<scr, screen_w, screen_h, cx, cy, ptr, menu, script, pc, step,
          attempt, k, tap>>

ScreenW == scr[1]
ScreenH == scr[2]

\* How far calibrate's size may be off: the scan stops at the first tap
\* that opens the menu, anywhere on the icon, and moves a step at a time.
Tol == IconHalf + SCAN_STEP

O == <<0, 0>>
NoTap == [aim |-> O, at |-> O]

\* The icon the scan looks for, where calibrate expects it (0.95, 0.97).
OnIcon(p) ==
  /\ p[1] - (ScreenW * 95) \div 100 \in -IconHalf..IconHalf
  /\ p[2] - (ScreenH * 97) \div 100 \in -IconHalf..IconHalf

\* The host moves the pointer by a delta and stops it at the edges.
Clip(v, hi) == IF v < 0 THEN 0 ELSE IF v > hi THEN hi ELSE v
MoveBy(p, d) == <<Clip(p[1] + d[1], ScreenW), Clip(p[2] + d[2], ScreenH)>>

\* The taps of the scripts, in thousandths of the screen.
SPLASH_TAP == <<500, 500>>
DIALOG_OK_POSITIONS == <<<<500, 650>>, <<500, 700>>, <<650, 650>>, <<500, 800>>>>
HomeTaps == <<<<500, 850>>, <<200, 180>>, <<500, 350>>, <<500, 300>>,
              <<500, 300>>, <<500, 450>>, <<250, 850>>, <<700, 150>>,
              <<500, 380>>, <<500, 900>>>>

\* Where a sweep of n units up and left leaves the pointer: every report
\* is negative on both axes, so clipping each one is clipping the sum.
Swept(n) == MoveBy(ptr, <<-n, -n>>)

\* reset_origin_visual: RESET_SWEEP // 20 + 1 reports of (-20, -20).
ResetVisual ==
  /\ ptr' = Swept(20 * (RESET_SWEEP \div 20 + 1))
  /\ cx' = 0 /\ cy' = 0

\* reset_origin: RESET_SWEEP // 100 + 1 reports of (-100, -100).
ResetOrigin ==
  /\ ptr' = Swept(100 * (RESET_SWEEP \div 100 + 1))
  /\ cx' = 0 /\ cy' = 0

\* Mutant: click without "_cx, _cy = x, y" after the move.
ClickAtNoTrack(x, y) ==
  /\ ptr' = MoveBy(ptr, <<x - cx, y - cy>>)
  /\ UNCHANGED <<cx, cy>>
  /\ menu' = FALSE

\* click(x, y): move_to by the tracked delta, then down and up where the
\* pointer is; a tap closes an open menu.
ClickAt(x, y) ==
  /\ ptr' = MoveBy(ptr, <<x - cx, y - cy>>)
  /\ cx' = x /\ cy' = y
  /\ menu' = FALSE

\* click_pct(rx, ry) = click(int(screen_w * rx), int(screen_h * ry)).
ClickPct(r) ==
  /\ ClickAt((screen_w * r[1]) \div 1000, (screen_h * r[2]) \div 1000)
  /\ tap' = [aim |-> r, at |-> ptr']

Init ==
  /\ scr \in Screens
  /\ screen_w = 0 /\ screen_h = 0
  /\ cx = 0 /\ cy = 0
  /\ ptr \in {O, <<ScreenW, ScreenH>>}
  /\ menu = FALSE
  /\ script \in Scripts
  /\ pc = "start"
  /\ step = 0 /\ attempt = 0 /\ k = 0
  /\ tap = NoTap

-----------------------------------------------------------------------------
(* calibrate(manual_size)                                                  *)

\* run(): initial.py calibrates always; home.py only while screen_w == 0.
Start ==
  /\ pc = "start"
  /\ pc' = IF script[1] = "home" /\ screen_w # 0 THEN "reset" ELSE "calib"
  /\ UNCHANGED <<scr, screen_w, screen_h, cx, cy, ptr, menu, script, step,
                 attempt, k, tap>>

\* The manual path: the size is taken as given, then the visual reset.
CalibManual ==
  /\ pc = "calib" /\ script[2]
  /\ screen_w' = ScreenW /\ screen_h' = ScreenH
  /\ ResetVisual
  /\ pc' = "calibrated"
  /\ UNCHANGED <<scr, menu, script, step, attempt, k, tap>>

\* The automatic path starts with reset_origin_visual.
CalibAuto ==
  /\ pc = "calib" /\ ~script[2]
  /\ ResetVisual
  /\ step' = 0
  /\ pc' = "scan"
  /\ UNCHANGED <<scr, screen_w, screen_h, menu, script, attempt, k, tap>>

\* Mutant: the scan step without "_cy += SCAN_STEP".
ScanStepNoY ==
  /\ pc = "scan" /\ step < MAX_SCAN
  /\ ptr' = MoveBy(ptr, <<SCAN_STEP, SCAN_STEP>>)
  /\ cx' = cx + SCAN_STEP /\ UNCHANGED cy
  /\ menu' = (menu \/ OnIcon(ptr'))
  /\ step' = step + 1
  /\ pc' = IF menu' THEN "detected" ELSE "scan"
  /\ UNCHANGED <<scr, screen_w, screen_h, script, attempt, k, tap>>

\* One turn of the scan: send(0, SCAN_STEP, SCAN_STEP) with the tracked
\* cursor advanced by the same step whether or not the pointer moved, a
\* tap where the pointer is (it opens the menu on the icon), and the check
\* of detect_hamburger_menu(capture_screen()).
ScanStep ==
  /\ pc = "scan" /\ step < MAX_SCAN
  /\ ptr' = MoveBy(ptr, <<SCAN_STEP, SCAN_STEP>>)
  /\ cx' = cx + SCAN_STEP /\ cy' = cy + SCAN_STEP
  /\ menu' = (menu \/ OnIcon(ptr'))
  /\ step' = step + 1
  /\ pc' = IF menu' THEN "detected" ELSE "scan"
  /\ UNCHANGED <<scr, screen_w, screen_h, script, attempt, k, tap>>

\* Detected: screen_w = int(_cx / 0.95), screen_h = int(_cy / 0.97), then
\* reset_origin and the tap at (screen_w // 2, screen_h // 4) that closes
\* the menu; calibrate returns True.
ScanDetected ==
  /\ pc = "detected"
  /\ screen_w' = (cx * 100) \div 95
  /\ screen_h' = (cy * 100) \div 97
  /\ LET p0 == Swept(100 * (RESET_SWEEP \div 100 + 1)) IN
       ptr' = <<Clip(p0[1] + screen_w' \div 2, ScreenW),
                Clip(p0[2] + screen_h' \div 4, ScreenH)>>
  /\ cx' = screen_w' \div 2 /\ cy' = screen_h' \div 4
  /\ menu' = FALSE
  /\ pc' = "calibrated"
  /\ UNCHANGED <<scr, script, step, attempt, k, tap>>

\* max_steps scan turns without a detection: calibrate returns False and
\* the script aborts ("calibration failed, abort").
ScanExhausted ==
  /\ pc = "scan" /\ step = MAX_SCAN
  /\ pc' = "failed"
  /\ UNCHANGED <<scr, screen_w, screen_h, cx, cy, ptr, menu, script, step,
                 attempt, k, tap>>

-----------------------------------------------------------------------------
(* initial.py: dismiss_splash, dismiss_dialogs                             *)

\* After calibration: initial.py taps the splash (after its wait),
\* home.py runs reset_origin.
Calibrated ==
  /\ pc = "calibrated"
  /\ IF script[1] = "initial"
     THEN /\ ClickPct(SPLASH_TAP)
          /\ attempt' = 1
          /\ pc' = "dialogs"
          /\ UNCHANGED <<scr, screen_w, screen_h, script, step, k>>
     ELSE /\ pc' = "reset"
          /\ UNCHANGED <<scr, screen_w, screen_h, cx, cy, ptr, menu, script,
                         step, attempt, k, tap>>

\* detect_home_screen(capture_screen()) found the home screen: return True.
HomeSeen ==
  /\ pc = "dialogs"
  /\ pc' = "done"
  /\ UNCHANGED <<scr, screen_w, screen_h, cx, cy, ptr, menu, script, step,
                 attempt, k, tap>>

\* Not seen: tap each of DIALOG_OK_POSITIONS.
HomeNotSeen ==
  /\ pc = "dialogs"
  /\ k' = 1
  /\ pc' = "dialogtap"
  /\ UNCHANGED <<scr, screen_w, screen_h, cx, cy, ptr, menu, script, step,
                 attempt, tap>>

\* One tap of the inner loop; after the last one the next attempt, or
\* "max retries reached" and return False.
DialogTap ==
  /\ pc = "dialogtap"
  /\ ClickPct(DIALOG_OK_POSITIONS[k])
  /\ IF k < Len(DIALOG_OK_POSITIONS)
     THEN k' = k + 1 /\ UNCHANGED <<attempt, pc>>
     ELSE /\ k' = 0
          /\ attempt' = attempt + 1
          /\ pc' = IF attempt < MAX_DIALOG_RETRIES THEN "dialogs" ELSE "done"
  /\ UNCHANGED <<scr, screen_w, screen_h, script, step>>

-----------------------------------------------------------------------------
(* home.py: reset_origin and the steps quest .. deploy                     *)

HomeReset ==
  /\ pc = "reset"
  /\ ResetOrigin
  /\ k' = 1
  /\ pc' = "hometap"
  /\ UNCHANGED <<scr, screen_w, screen_h, menu, script, step, attempt, tap>>

HomeTap ==
  /\ pc = "hometap"
  /\ ClickPct(HomeTaps[k])
  /\ k' = k + 1
  /\ pc' = IF k < Len(HomeTaps) THEN "hometap" ELSE "done"
  /\ UNCHANGED <<scr, screen_w, screen_h, script, step, attempt>>

Next ==
  \/ Start \/ CalibManual \/ CalibAuto \/ ScanStep \/ ScanDetected
  \/ ScanExhausted \/ Calibrated \/ HomeSeen \/ HomeNotSeen \/ DialogTap
  \/ HomeReset \/ HomeTap

Spec == Init /\ [][Next]_vars

-----------------------------------------------------------------------------
\* Calibration measures the screen: once calibrate has returned True, the
\* size it set is the real one to within Tol.  It rests on the
\* icon lying on the scan's diagonal, which the pointer follows only while
\* it is inside the screen, and on _cx, _cy still being where it is.
CalibratedSizeExact ==
  pc \notin {"start", "calib", "scan", "detected", "failed"} =>
    /\ screen_w - ScreenW \in -Tol..Tol
    /\ screen_h - ScreenH \in -Tol..Tol

\* Every tap of a script lands where it aims on the real screen, to within
\* Tol: the size from calibrate and the cursor from move_to agree
\* with the screen.
ScriptTapsOnTarget ==
  tap # NoTap =>
    /\ tap.at[1] - (ScreenW * tap.aim[1]) \div 1000 \in -Tol..Tol
    /\ tap.at[2] - (ScreenH * tap.aim[2]) \div 1000 \in -Tol..Tol

=============================================================================

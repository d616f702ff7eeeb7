--------------------------- MODULE AutoTest_proofs ---------------------------
(***************************************************************************)
(* Proofs about module AutoTest: calibrate's automatic path measures the   *)
(* screen to within Tol whenever the diagonal scan can only meet the icon  *)
(* inside the screen.                                                      *)
(***************************************************************************)
EXTENDS AutoTest, TLAPS

\* The sweep of reset_origin_visual.
VisualSweep == 20 * (RESET_SWEEP \div 20 + 1)

\* The screen lies within the sweep, so that the visual reset puts the
\* pointer at the origin (common.py's header: a full screen is about 400 units).
ScreenSwept == ScreenW <= VisualSweep /\ ScreenH <= VisualSweep

\* Where the pointer is after n units of the scan from the origin: on the
\* diagonal until it meets an edge, then held there on that axis.
ScanPt(n) == <<Clip(n, ScreenW), Clip(n, ScreenH)>>

\* The tap of the j-th scan step lands on the icon.
Hit(j) == OnIcon(ScanPt(j * SCAN_STEP))

\* The scan meets the icon while the pointer is still on the diagonal
\* inside the screen, or not at all.
ScanGeometry ==
  \/ \E j \in 1..MAX_SCAN : /\ j * SCAN_STEP <= ScreenW
                            /\ j * SCAN_STEP <= ScreenH
                            /\ Hit(j)
  \/ \A j \in 1..MAX_SCAN : ~Hit(j)

\* The icon is small beside the scan step, so that int(_cx / 0.95) and
\* int(_cy / 0.97) of a point on it stay within Tol of the size.
IconSmall == 5 * IconHalf + 98 < 95 * SCAN_STEP

PCs == {"start", "calib", "scan", "detected", "failed", "calibrated",
        "dialogs", "dialogtap", "done", "reset", "hometap"}

InBox == ptr \in (0..ScreenW) \X (0..ScreenH)

IInv ==
  /\ scr \in Screens
  /\ step \in 0..MAX_SCAN
  /\ pc \in PCs
  /\ script \in Scripts
  /\ menu \in BOOLEAN
  /\ ScreenSwept /\ ScanGeometry
  /\ pc = "start" => screen_w = 0 /\ ~menu /\ InBox
  /\ pc = "calib" => ~menu /\ InBox
  /\ pc = "scan" => /\ cx = step * SCAN_STEP /\ cy = cx
                    /\ ptr = ScanPt(cx) /\ ~menu
                    /\ \A j \in 1..step : ~Hit(j)
  /\ pc = "detected" => /\ step \in 1..MAX_SCAN
                        /\ cx = step * SCAN_STEP /\ cy = cx
                        /\ Hit(step)
                        /\ \A j \in 1..(step - 1) : ~Hit(j)
  /\ CalibratedSizeExact

-----------------------------------------------------------------------------
(* Arithmetic: a point on the icon gives calibrate's size to within Tol.   *)

\* int(c / 0.95) for a c within IconHalf of int(0.95 * w) is w to within Tol.
LEMMA WidthFromIcon ==
  ASSUME IconSmall, NEW w \in Nat, NEW c \in Int,
         c - (w * 95) \div 100 \in -IconHalf..IconHalf
  PROVE  (c * 100) \div 95 - w \in -Tol..Tol
BY AutoTestAssumption DEF IconSmall, Tol

\* int(c / 0.97) for a c within IconHalf of int(0.97 * h) is h to within Tol.
LEMMA HeightFromIcon ==
  ASSUME IconSmall, NEW h \in Nat, NEW c \in Int,
         c - (h * 97) \div 100 \in -IconHalf..IconHalf
  PROVE  (c * 100) \div 97 - h \in -Tol..Tol
BY AutoTestAssumption DEF IconSmall, Tol

\* A move of the clipped pointer by a step forward is the clip of the sum.
LEMMA ClipForward ==
  ASSUME NEW c \in Nat, NEW d \in Nat, NEW hi \in Nat
  PROVE  Clip(Clip(c, hi) + d, hi) = Clip(c + d, hi)
BY DEF Clip

\* A pointer inside the screen swept back by at least the screen's size
\* ends at the origin.
LEMMA ClipBack ==
  ASSUME NEW p \in Nat, NEW n \in Nat, NEW hi \in Nat, p <= hi, hi <= n
  PROVE  Clip(p + (-n), hi) = 0
BY DEF Clip

LEMMA MulMono ==
  ASSUME NEW a \in Nat, NEW b \in Nat, NEW s \in Nat, a <= b
  PROVE  a * s <= b * s
BY SMT

-----------------------------------------------------------------------------
(* The inductive invariant.                                                *)

LEMMA InitIInv == Init /\ ScreenSwept /\ ScanGeometry => IInv
<1> SUFFICES ASSUME Init, ScreenSwept, ScanGeometry PROVE IInv
  OBVIOUS
<1>1. ScreenW \in Nat /\ ScreenH \in Nat
  BY AutoTestAssumption DEF Init, ScreenW, ScreenH
<1>2. InBox
  BY <1>1 DEF Init, InBox, O
<1>3. /\ scr \in Screens /\ step \in 0..MAX_SCAN /\ pc \in PCs
      /\ script \in Scripts
  BY AutoTestAssumption DEF Init, PCs
<1>5. menu \in BOOLEAN
  BY Zenon DEF Init
<1>4. pc = "start" /\ screen_w = 0 /\ ~menu
  BY DEF Init
<1> QED
  BY <1>2, <1>3, <1>4, <1>5 DEF IInv, CalibratedSizeExact

\* The screen's size is whole HID units.
LEMMA ScreenNat ==
  ASSUME IInv
  PROVE  ScreenW \in Nat /\ ScreenH \in Nat
BY AutoTestAssumption DEF IInv, ScreenW, ScreenH

\* The geometry of the screen, a constant of the behaviour, is kept.
LEMMA GeometryKept ==
  ASSUME IInv, UNCHANGED scr
  PROVE  (ScreenSwept /\ ScanGeometry)'
BY DEF IInv, ScreenSwept, ScanGeometry, VisualSweep, ScreenW, ScreenH, Hit,
       ScanPt, OnIcon, Clip

LEMMA StartIInv == IInv /\ Start => IInv'
<1> SUFFICES ASSUME IInv, Start PROVE IInv'
  OBVIOUS
<1>1. (ScreenSwept /\ ScanGeometry)'
  BY GeometryKept DEF Start
<1>2. pc' = "calib"
  BY DEF IInv, Start
<1>3. InBox'
  BY DEF IInv, Start, InBox, ScreenW, ScreenH
<1> QED
  BY <1>1, <1>2, <1>3 DEF IInv, Start, PCs, CalibratedSizeExact

LEMMA CalibManualIInv == IInv /\ CalibManual => IInv'
<1> SUFFICES ASSUME IInv, CalibManual PROVE IInv'
  OBVIOUS
<1>1. (ScreenSwept /\ ScanGeometry)'
  BY GeometryKept DEF CalibManual
<1>2. Tol \in Nat
  BY AutoTestAssumption DEF Tol
<1>3. CalibratedSizeExact'
  BY <1>2, ScreenNat DEF CalibManual, CalibratedSizeExact, ScreenW, ScreenH
<1> QED
  BY <1>1, <1>3 DEF IInv, CalibManual, PCs

LEMMA CalibAutoIInv == IInv /\ CalibAuto => IInv'
<1> SUFFICES ASSUME IInv, CalibAuto PROVE IInv'
  OBVIOUS
<1>1. (ScreenSwept /\ ScanGeometry)'
  BY GeometryKept DEF CalibAuto
<1>2. ScreenW \in Nat /\ ScreenH \in Nat /\ VisualSweep \in Nat
  BY AutoTestAssumption DEF IInv, ScreenW, ScreenH, VisualSweep
<1>3. ptr \in (0..ScreenW) \X (0..ScreenH)
  BY DEF IInv, InBox, CalibAuto
<1>4. ptr' = <<0, 0>>
  <2>1. Clip(ptr[1] + (-VisualSweep), ScreenW) = 0
    BY <1>2, <1>3, ClipBack DEF IInv, ScreenSwept
  <2>2. Clip(ptr[2] + (-VisualSweep), ScreenH) = 0
    BY <1>2, <1>3, ClipBack DEF IInv, ScreenSwept
  <2> QED
    BY <2>1, <2>2 DEF CalibAuto, ResetVisual, Swept, MoveBy, VisualSweep
<1>5. ScanPt(0) = <<0, 0>>
  BY <1>2 DEF ScanPt, Clip
<1>6. cx' = 0 * SCAN_STEP
  BY AutoTestAssumption DEF CalibAuto, ResetVisual
<1>7. (ptr = ScanPt(cx))'
  BY <1>4, <1>5, <1>6, AutoTestAssumption DEF CalibAuto, ResetVisual, ScanPt,
     ScreenW, ScreenH
<1> QED
  BY <1>1, <1>6, <1>7, AutoTestAssumption
  DEF IInv, CalibAuto, ResetVisual, PCs, CalibratedSizeExact, Hit, ScanPt,
      OnIcon, ScreenW, ScreenH

LEMMA ScanStepIInv == IInv /\ ScanStep => IInv'
<1> SUFFICES ASSUME IInv, ScanStep PROVE IInv'
  OBVIOUS
<1>1. (ScreenSwept /\ ScanGeometry)'
  BY GeometryKept DEF ScanStep
<1>2. ScreenW \in Nat /\ ScreenH \in Nat /\ SCAN_STEP \in Nat
  BY ScreenNat, AutoTestAssumption
<1>3. /\ pc = "scan" /\ step \in 0..(MAX_SCAN - 1)
      /\ cx = step * SCAN_STEP /\ cy = cx /\ ptr = ScanPt(cx) /\ ~menu
      /\ \A j \in 1..step : ~Hit(j)
  BY AutoTestAssumption DEF IInv, ScanStep
<1>4. cx \in Nat /\ cx' = (step + 1) * SCAN_STEP /\ cy' = cx'
  BY <1>2, <1>3 DEF ScanStep
<1>5. ptr' = ScanPt(cx')
  <2>1. Clip(Clip(cx, ScreenW) + SCAN_STEP, ScreenW) = Clip(cx + SCAN_STEP, ScreenW)
    BY <1>2, <1>4, ClipForward
  <2>2. Clip(Clip(cx, ScreenH) + SCAN_STEP, ScreenH) = Clip(cx + SCAN_STEP, ScreenH)
    BY <1>2, <1>4, ClipForward
  <2> QED
    BY <1>3, <2>1, <2>2 DEF ScanStep, MoveBy, ScanPt
<1>6. menu' = Hit(step + 1)
  BY <1>3, <1>4, <1>5 DEF ScanStep, Hit, ScanPt, OnIcon, ScreenW, ScreenH
<1>7. step' = step + 1 /\ step' \in 1..MAX_SCAN /\ step' \in 0..MAX_SCAN
  BY <1>3, AutoTestAssumption DEF ScanStep
<1>10. menu' \in BOOLEAN
  BY <1>6, Zenon DEF Hit, OnIcon
<1>8. CASE Hit(step + 1)
  <2>1. pc' = "detected"
    BY <1>6, <1>8 DEF ScanStep
  <2>2. (\A j \in 1..(step - 1) : ~Hit(j))'
    BY <1>3, <1>7 DEF ScanStep, Hit, ScanPt, OnIcon, ScreenW, ScreenH
  <2>3. Hit(step)'
    BY <1>7, <1>8 DEF ScanStep, Hit, ScanPt, OnIcon, ScreenW, ScreenH
  <2> QED
    BY <1>1, <1>4, <1>7, <1>10, <2>1, <2>2, <2>3, Zenon
    DEF IInv, ScanStep, PCs, CalibratedSizeExact
<1>9. CASE ~Hit(step + 1)
  <2>1. pc' = "scan" /\ ~menu'
    BY <1>6, <1>9 DEF ScanStep
  <2>2. (\A j \in 1..step : ~Hit(j))'
    <3> SUFFICES ASSUME NEW j \in 1..step' PROVE ~Hit(j)'
      OBVIOUS
    <3>1. CASE j = step + 1
      BY <1>9, <3>1 DEF ScanStep, Hit, ScanPt, OnIcon, ScreenW, ScreenH
    <3>2. CASE j \in 1..step
      BY <1>3, <3>2 DEF ScanStep, Hit, ScanPt, OnIcon, ScreenW, ScreenH
    <3> QED
      BY <1>3, <1>7, <3>1, <3>2
  <2>3. cx' = step' * SCAN_STEP
    BY <1>4, <1>7
  <2>4. scr' \in Screens /\ pc' \in PCs /\ script' \in Scripts
    BY <2>1 DEF IInv, ScanStep, PCs
  <2>5. (pc = "scan" => /\ cx = step * SCAN_STEP /\ cy = cx
                        /\ ptr = ScanPt(cx) /\ ~menu
                        /\ \A j \in 1..step : ~Hit(j))'
    BY <1>4, <1>5, <2>1, <2>2, <2>3 DEF ScanStep, ScanPt, ScreenW, ScreenH
  <2>6. /\ (pc = "start" => screen_w = 0 /\ ~menu /\ InBox)'
        /\ (pc = "calib" => ~menu /\ InBox)'
        /\ (pc = "detected" => /\ step \in 1..MAX_SCAN
                               /\ cx = step * SCAN_STEP /\ cy = cx
                               /\ Hit(step)
                               /\ \A j \in 1..(step - 1) : ~Hit(j))'
        /\ CalibratedSizeExact'
    BY <2>1 DEF CalibratedSizeExact
  <2> QED
    BY <1>1, <1>7, <1>10, <2>4, <2>5, <2>6 DEF IInv
<1> QED
  BY <1>8, <1>9

\* At the first scan tap that opens the menu, the pointer is still on the
\* diagonal inside the screen: the one promised by ScanGeometry is no
\* earlier, and nothing is hit when ScanGeometry promises none.
LEMMA DetectedOnDiagonal ==
  ASSUME IInv, pc = "detected"
  PROVE  /\ cx \in Nat /\ cx <= ScreenW /\ cx <= ScreenH
         /\ OnIcon(<<cx, cx>>)
<1>1. /\ step \in 1..MAX_SCAN /\ cx = step * SCAN_STEP /\ Hit(step)
      /\ \A j \in 1..(step - 1) : ~Hit(j)
  BY DEF IInv
<1>2. ScreenW \in Nat /\ ScreenH \in Nat /\ SCAN_STEP \in Nat
  BY ScreenNat, AutoTestAssumption
<1>3. PICK j0 \in 1..MAX_SCAN : /\ j0 * SCAN_STEP <= ScreenW
                               /\ j0 * SCAN_STEP <= ScreenH
                               /\ Hit(j0)
  BY <1>1 DEF IInv, ScanGeometry
<1>4. step <= j0
  BY <1>1, <1>3
<1>5. cx \in Nat /\ cx <= j0 * SCAN_STEP
  BY <1>1, <1>2, <1>4, MulMono
<1>6. ScanPt(cx) = <<cx, cx>>
  BY <1>2, <1>3, <1>5 DEF ScanPt, Clip
<1>7. OnIcon(ScanPt(cx))
  BY <1>1 DEF Hit
<1> QED
  BY <1>2, <1>3, <1>5, <1>6, <1>7

LEMMA ScanDetectedIInv ==
  ASSUME IconSmall, IInv, ScanDetected
  PROVE  IInv'
<1>1. (ScreenSwept /\ ScanGeometry)'
  BY GeometryKept DEF ScanDetected
<1>2. /\ cx \in Nat /\ cx <= ScreenW /\ cx <= ScreenH /\ OnIcon(<<cx, cx>>)
      /\ cy = cx
  BY DetectedOnDiagonal DEF IInv, ScanDetected
<1>4. screen_w' - ScreenW \in -Tol..Tol
  BY <1>2, ScreenNat, WidthFromIcon DEF OnIcon, ScanDetected
<1>5. screen_h' - ScreenH \in -Tol..Tol
  BY <1>2, ScreenNat, HeightFromIcon DEF OnIcon, ScanDetected
<1> QED
  BY <1>1, <1>4, <1>5 DEF IInv, ScanDetected, PCs, CalibratedSizeExact,
     ScreenW, ScreenH

LEMMA ScanExhaustedIInv == IInv /\ ScanExhausted => IInv'
<1> SUFFICES ASSUME IInv, ScanExhausted PROVE IInv'
  OBVIOUS
<1>1. (ScreenSwept /\ ScanGeometry)'
  BY GeometryKept DEF ScanExhausted
<1> QED
  BY <1>1 DEF IInv, ScanExhausted, PCs, CalibratedSizeExact

\* The steps after calibrate has returned True leave the size alone and
\* never go back to calibrate.
LEMMA LaterIInv ==
  ASSUME IInv,
         pc \notin {"start", "calib", "scan", "detected", "failed"},
         pc' \in {"dialogs", "dialogtap", "done", "reset", "hometap"},
         menu' \in BOOLEAN,
         UNCHANGED <<scr, screen_w, screen_h, script, step>>
  PROVE  IInv'
<1>1. (ScreenSwept /\ ScanGeometry)'
  BY GeometryKept
<1> QED
  BY <1>1 DEF IInv, PCs, CalibratedSizeExact, ScreenW, ScreenH

LEMMA CalibratedIInv == IInv /\ Calibrated => IInv'
<1> SUFFICES ASSUME IInv, Calibrated PROVE IInv'
  OBVIOUS
<1>1. CASE script[1] = "initial"
  <2>1. /\ pc' = "dialogs" /\ menu' = FALSE
        /\ UNCHANGED <<scr, screen_w, screen_h, script, step>>
    BY <1>1 DEF Calibrated, ClickPct, ClickAt
  <2>2. pc = "calibrated"
    BY DEF Calibrated
  <2> QED
    BY <2>1, <2>2, LaterIInv
<1>2. CASE script[1] # "initial"
  BY <1>2, LaterIInv DEF Calibrated, IInv
<1> QED
  BY <1>1, <1>2

LEMMA HomeSeenIInv == IInv /\ HomeSeen => IInv'
BY LaterIInv DEF HomeSeen, IInv

LEMMA HomeNotSeenIInv == IInv /\ HomeNotSeen => IInv'
BY LaterIInv DEF HomeNotSeen, IInv

LEMMA DialogTapIInv == IInv /\ DialogTap => IInv'
BY LaterIInv DEF DialogTap, ClickPct, ClickAt

LEMMA HomeResetIInv == IInv /\ HomeReset => IInv'
BY LaterIInv DEF HomeReset, ResetOrigin, IInv

LEMMA HomeTapIInv == IInv /\ HomeTap => IInv'
BY LaterIInv DEF HomeTap, ClickPct, ClickAt

LEMMA StutterIInv == IInv /\ UNCHANGED vars => IInv'
BY DEF IInv, vars, InBox, ScreenSwept, ScanGeometry, VisualSweep, ScreenW,
       ScreenH, Hit, ScanPt, OnIcon, Clip, CalibratedSizeExact

LEMMA NextIInv ==
  ASSUME IconSmall
  PROVE  IInv /\ [Next]_vars => IInv'
BY InitIInv, StartIInv, CalibManualIInv, CalibAutoIInv, ScanStepIInv,
   ScanDetectedIInv, ScanExhaustedIInv, CalibratedIInv, HomeSeenIInv,
   HomeNotSeenIInv, DialogTapIInv, HomeResetIInv, HomeTapIInv, StutterIInv
   DEF Next

-----------------------------------------------------------------------------
\* IInv holds in every state of a run of the scripts on a screen within
\* the visual reset's sweep whose icon the scan meets on the diagonal or
\* not at all, when the icon is small beside the scan step.
THEOREM IInvariant ==
  ASSUME IconSmall
  PROVE  Spec /\ ScreenSwept /\ ScanGeometry => []IInv
<1>1. Init /\ ScreenSwept /\ ScanGeometry => IInv
  BY InitIInv
<1>2. IInv /\ [Next]_vars => IInv'
  BY NextIInv
<1> QED
  BY <1>1, <1>2, PTL DEF Spec

\* calibrate measures the screen: under the same conditions, once it has
\* returned True (by the manual path or the scan of common.py's
\* calibrate), screen_w and screen_h are the real size to within Tol.
\* Without ScanGeometry it fails: run AutoTestPortrait.
THEOREM CalibrationExact ==
  ASSUME IconSmall
  PROVE  Spec /\ ScreenSwept /\ ScanGeometry => []CalibratedSizeExact
<1>1. IInv => CalibratedSizeExact
  BY DEF IInv
<1> QED
  BY <1>1, IInvariant, PTL

=============================================================================

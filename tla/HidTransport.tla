----------------------------- MODULE HidTransport -----------------------------
(***************************************************************************)
(* The HID transport and action library of scene-detect/common.py, as the  *)
(* dispatcher worker runs them: one registered action after another, each  *)
(* expanded into transport primitives (reset_origin_visual, reset_origin,  *)
(* move_to, send, the drag and flick motions) and each primitive into      *)
(* reports that are POSTed one at a time (send) or in batches.  The host   *)
(* pointer that receives the reports is part of the model: it moves by     *)
(* each delta and stops at the screen edges.  A POST may raise (connection *)
(* error, timeout) when HttpMayFail; the exception leaves the action and   *)
(* is caught by _action_worker, which goes on with the next action.        *)
(***************************************************************************)
EXTENDS HidArith, Sequences, SequencesExt

CONSTANTS BATCH_MIN, BATCH_MAX,  \* random batch size bounds (6, 14)
          RESET_SWEEP,           \* 500
          DRAG_STEPS,            \* the default steps of drag (20)
          ScreenW, ScreenH,      \* the host screen in HID units = hid_w, hid_h
          Flicks,                \* the (dx, dy) play_turn may draw
          ActionSet,             \* the actions the FSM dispatches
          HttpMayFail            \* requests.post may raise

ASSUME HidTransportAssumption ==
  /\ BATCH_MIN \in Nat \ {0} /\ BATCH_MAX \in Nat /\ BATCH_MIN <= BATCH_MAX
  /\ RESET_SWEEP \in Nat /\ DRAG_STEPS \in Nat \ {0}
  /\ ScreenW \in Nat /\ ScreenH \in Nat
  /\ Flicks \subseteq Int \X Int
  /\ HttpMayFail \in BOOLEAN

VARIABLES cx, cy,    \* _cx, _cy: the tracked cursor
          ptr,       \* the host pointer <<x, y>> (environment)
          down,      \* the host's button state, from the last report
          prog,      \* the primitives of the running action still to start
          cur,       \* the primitive being sent, or NoPrim
          out,       \* its reports not yet POSTed, as <<op, dx, dy>>
          emitted,   \* history: sum of the deltas POSTed since a reset
          aborted    \* history: an action raised since the last reset ended

vars == <<cx, cy, ptr, down, prog, cur, out, emitted, aborted>>

-----------------------------------------------------------------------------
(* Primitives, as records of a kind and two points.                        *)

Prim(k, p, q) == [k |-> k, p |-> p, q |-> q]
O == <<0, 0>>
NoPrim        == Prim("none", O, O)       \* between primitives
Visual        == Prim("visual", O, O)     \* reset_origin_visual()
Reset         == Prim("reset", O, O)      \* reset_origin()
Move(p)       == Prim("move", p, O)       \* move_to(x, y)
Press         == Prim("press", O, O)      \* send(1, 0, 0)
Release       == Prim("release", O, O)    \* send(0, 0, 0)
Flick(f)      == Prim("flick", f, O)      \* _chunked_move(1, dx, dy)
DragSteps(p, q) == Prim("drag", p, q)     \* the interpolated part of drag

\* Mutant: click_pct scaling by screen_h, screen_w swapped.
PtSwapped(rx, ry) == <<(ScreenH * rx) \div 1000, (ScreenW * ry) \div 1000>>

\* int(screen_w * r) for r given in thousandths.
Pt(rx, ry) == <<(ScreenW * rx) \div 1000, (ScreenH * ry) \div 1000>>

\* Mutant: click without its mouse-up.
ClickNoRelease(p) == <<Move(p), Press>>

\* click(x, y): move_to, mouse-down, mouse-up.
Click(p) == <<Move(p), Press, Release>>

\* drag(x1, y1, x2, y2): move_to the start, mouse-down, the steps, mouse-up.
Drag(p, q) == <<Move(p), Press, DragSteps(p, q), Release>>

\* calibrate(manual_size=(hid_w, hid_h)): screen_w, screen_h are set from
\* the arguments (here ScreenW, ScreenH) and reset_origin_visual runs.
Calibrate == <<Visual>>

\* The scroll loops of shojin_bt_click and helper_select (wait() only sleeps).
Scroll3(p, q) == LET one == <<Reset>> \o Drag(p, q) IN one \o one \o one

\* The body of each registered action, given hid_args = [hid_w, hid_h] (the
\* "len(args) < 2" early return cannot happen: scene.py always passes two).
Program(a, f) ==
  Calibrate \o
  CASE a = "quest_bt_click"         -> <<Reset>> \o Click(Pt(500, 850))
    [] a = "normal_bt_click"        -> <<Reset>> \o Click(Pt(500, 500))
    [] a = "normal_ikusei_bt_click" -> <<Reset>> \o Click(Pt(270, 720))
    [] a = "shojin_bt_click"        -> Scroll3(Pt(500, 900), Pt(500, 300))
                                         \o <<Reset>> \o Click(Pt(500, 900))
    [] a = "karyu_bt_click"         -> <<Reset>> \o Click(Pt(500, 600))
    [] a = "solo_bt_click"          -> <<Reset>> \o Click(Pt(250, 600))
    [] a = "helper_select"          -> Scroll3(Pt(500, 300), Pt(500, 900))
                                         \o <<Reset>> \o Drag(Pt(500, 600), Pt(500, 200))
                                         \o <<Reset>> \o Click(Pt(500, 460))
    [] a = "shutsugeki_bt_click"    -> <<Reset>> \o Click(Pt(500, 700))
    [] a = "play_turn"              -> <<Reset, Move(Pt(500, 500)), Press,
                                         Flick(f), Release>>
    [] a = "clear_ok"               -> <<Reset>> \o Click(Pt(500, 650))
                                         \o <<Reset>> \o Click(Pt(500, 780))
    [] a = "special_reward"         -> <<Reset>> \o Click(Pt(500, 500))
    [] a = "reward_next"            -> <<Reset>> \o Click(Pt(500, 999))

-----------------------------------------------------------------------------
(* Reports.                                                                *)

\* The chunk list of _chunked_move(op, dx, dy), as its while loop builds it
\* (module ChunkedMove checks and proves the loop).
RECURSIVE Chunks(_, _, _)
Chunks(op, dx, dy) ==
  IF dx = 0 /\ dy = 0 THEN <<>>
  ELSE LET sx == ClampDelta(dx)
           sy == ClampDelta(dy)
       IN <<<<op, sx, sy>>>> \o Chunks(op, dx - sx, dy - sy)

\* The motion a list of reports carries, axis by axis.
Total(rs) == FoldLeft(LAMBDA acc, r : <<acc[1] + r[2], acc[2] + r[3]>>, O, rs)

\* A point moved by a motion.
Shift(u, v) == <<u[1] + v[1], u[2] + v[2]>>

\* The reports of a primitive when it starts from the tracked (x, y).
Reports(pr, x, y) ==
  CASE pr.k = "visual"  -> [j \in 1..(RESET_SWEEP \div 20 + 1) |-> <<0, -20, -20>>]
    [] pr.k = "reset"   -> [j \in 1..(RESET_SWEEP \div 100 + 1) |-> <<0, -100, -100>>]
    [] pr.k = "move"    -> Chunks(0, pr.p[1] - x, pr.p[2] - y)
    [] pr.k = "press"   -> <<<<1, 0, 0>>>>
    [] pr.k = "release" -> <<<<0, 0, 0>>>>
    [] pr.k = "flick"   -> Chunks(1, pr.p[1], pr.p[2])
    [] pr.k = "drag"    ->
         [j \in 1..DRAG_STEPS |->
            <<1, DragDelta(pr.q[1] - pr.p[1], j, DRAG_STEPS),
                 DragDelta(pr.q[2] - pr.p[2], j, DRAG_STEPS)>>]

\* Whether the primitive POSTs all its reports at once: send() is one POST,
\* reset_origin one _send_batch; the others cut the list into random
\* batches of BATCH_MIN..BATCH_MAX.
OneShot(pr) == pr.k \in {"reset", "press", "release"}

\* The host moves the pointer by each delta and stops it at the screen edge.
Clip(v, hi) == IF v < 0 THEN 0 ELSE IF v > hi THEN hi ELSE v
Deliver(pos, rs) ==
  FoldLeft(LAMBDA p, r : <<Clip(p[1] + r[2], ScreenW), Clip(p[2] + r[3], ScreenH)>>,
           pos, rs)

-----------------------------------------------------------------------------
(* The worker running actions.                                             *)

\* The pointer is wherever the user left it; _cx, _cy are 0 at import.
Init ==
  /\ cx = 0 /\ cy = 0
  /\ ptr \in {O, <<ScreenW, ScreenH>>, Pt(500, 500)}
  /\ down = FALSE
  /\ prog = <<>> /\ cur = NoPrim /\ out = <<>>
  /\ emitted = O
  /\ aborted = FALSE

Idle == prog = <<>> /\ cur = NoPrim

\* _action_worker calls hid.ACTIONS[name](hid_args); play_turn draws its
\* angle and strength, i.e. its flick f.
RunAction(a, f) ==
  /\ Idle
  /\ prog' = Program(a, f)
  /\ UNCHANGED <<cx, cy, ptr, down, cur, out, emitted, aborted>>

\* A primitive starts and builds its reports; move_to and the flick
\* (_chunked_move) add every chunk to _cx, _cy while building the list,
\* before the first POST.
StartPrim ==
  /\ cur = NoPrim /\ prog # <<>>
  /\ LET pr == Head(prog)
         rs == Reports(pr, cx, cy)
     IN /\ cur' = pr
        /\ out' = rs
        /\ prog' = Tail(prog)
        /\ IF pr.k \in {"move", "flick"}
           THEN cx' = cx + Total(rs)[1] /\ cy' = cy + Total(rs)[2]
           ELSE UNCHANGED <<cx, cy>>
  /\ UNCHANGED <<ptr, down, emitted, aborted>>

\* The reports the next POST carries: all of them for send() and
\* reset_origin, else chunks[i:i + n] with n = random.randint(...).
NextBatch(n) ==
  IF OneShot(cur) \/ n > Len(out) THEN out ELSE SubSeq(out, 1, n)

\* The deltas a POST adds to the emitted sum: the sweeps of the resets only
\* establish the origin the sum counts from.
Counted(batch) == IF cur.k \in {"visual", "reset"} THEN O ELSE Total(batch)

\* The pointer after a POST that reached the device.
Received(batch) ==
  /\ ptr' = Deliver(ptr, batch)
  /\ down' = (batch[Len(batch)][1] = 1)

\* requests.post returns (any status: it is only printed).
PostOk(n) ==
  /\ cur # NoPrim /\ out # <<>>
  /\ LET batch == NextBatch(n) IN
       /\ Received(batch)
       /\ emitted' = Shift(emitted, Counted(batch))
       /\ out' = SubSeq(out, Len(batch) + 1, Len(out))
  /\ UNCHANGED <<cx, cy, prog, cur, aborted>>

\* requests.post raises, after or before the device got the reports: the
\* exception leaves the primitive and the action, and the worker catches it.
PostRaises(n, delivered) ==
  /\ HttpMayFail
  /\ cur # NoPrim /\ out # <<>>
  /\ LET batch == NextBatch(n) IN
       /\ IF delivered THEN Received(batch) ELSE UNCHANGED <<ptr, down>>
       /\ emitted' = Shift(emitted, Counted(batch))
  /\ prog' = <<>> /\ cur' = NoPrim /\ out' = <<>>
  /\ aborted' = TRUE
  /\ UNCHANGED <<cx, cy>>

\* Mutant: reset_origin without "_cy = 0".
FinishPrimKeepY ==
  /\ cur # NoPrim /\ out = <<>>
  /\ CASE cur.k \in {"visual", "reset"} -> cx' = 0 /\ UNCHANGED cy /\ emitted' = O
                                            /\ aborted' = FALSE
       [] cur.k = "drag" -> cx' = cur.q[1] /\ cy' = cur.q[2] /\ UNCHANGED <<emitted, aborted>>
       [] OTHER -> UNCHANGED <<cx, cy, emitted, aborted>>
  /\ cur' = NoPrim
  /\ UNCHANGED <<ptr, down, prog, out>>

\* Mutant: drag assigns _cx, _cy without "global _cx, _cy".
FinishPrimDragNoGlobal ==
  /\ cur # NoPrim /\ out = <<>>
  /\ CASE cur.k \in {"visual", "reset"} -> cx' = 0 /\ cy' = 0 /\ emitted' = O
                                            /\ aborted' = FALSE
       [] OTHER -> UNCHANGED <<cx, cy, emitted, aborted>>
  /\ cur' = NoPrim
  /\ UNCHANGED <<ptr, down, prog, out>>

\* The lines after the last POST: the resets set _cx, _cy to the origin,
\* drag sets them to (x2, y2).
FinishPrim ==
  /\ cur # NoPrim /\ out = <<>>
  /\ CASE cur.k \in {"visual", "reset"} -> cx' = 0 /\ cy' = 0 /\ emitted' = O
                                            /\ aborted' = FALSE
       [] cur.k = "drag" -> cx' = cur.q[1] /\ cy' = cur.q[2] /\ UNCHANGED <<emitted, aborted>>
       [] OTHER -> UNCHANGED <<cx, cy, emitted, aborted>>
  /\ cur' = NoPrim
  /\ UNCHANGED <<ptr, down, prog, out>>

Next ==
  \/ \E a \in ActionSet :
       \E f \in (IF a = "play_turn" THEN Flicks ELSE {O}) : RunAction(a, f)
  \/ StartPrim
  \/ \E n \in BATCH_MIN..BATCH_MAX : PostOk(n)
  \/ \E n \in BATCH_MIN..BATCH_MAX, delivered \in BOOLEAN : PostRaises(n, delivered)
  \/ FinishPrim

Spec == Init /\ [][Next]_vars

-----------------------------------------------------------------------------
\* Every mouse-down the device sees happens where the transport believes the
\* pointer is, so that click, drag and play_turn press where they aimed.
\* It rests on the sweep of the resets reaching the corner from anywhere on
\* the screen, on exact chunking, on no move leaving the screen before a
\* press, and on every action starting with calibrate's reset, which also
\* repairs the cursor after an action aborted by an exception.
ClickOnTarget ==
  [][~down /\ down' => ptr = <<cx, cy>>]_vars

\* Spec 4.4: transport errors are swallowed and the action goes on, so the
\* worker hands every action a transport at rest: the button up, and the
\* tracked cursor equal to the deltas emitted since the last reset (the
\* cursor tracking of spec 8).
IdleConsistent ==
  Idle => ~down /\ <<cx, cy>> = emitted

\* A failed POST is the only way to lose the tracking, and the next reset
\* repairs it: once the reset that follows an aborted action has ended,
\* _cx, _cy again equal the deltas emitted since that reset, whatever
\* actions, batch sizes and failures came before.
TrackedUnlessAborted ==
  cur = NoPrim /\ ~aborted => <<cx, cy>> = emitted

\* Likewise for the button: an action that ends normally leaves it up, and
\* one left down by an aborted action is up again once the next action's
\* sweep (reports with op 0) has ended.
ReleasedUnlessAborted ==
  Idle /\ ~aborted => ~down
=============================================================================

# TLA+ models of the HID scene-detect controller

This directory holds a TLA+ verification of `src/examples/hid-usb/`. It covers
`scene-detect/scene.py` (the camera-driven controller), `scene-detect/common.py`
(the HID-over-HTTP library it drives) and the scripts `auto-test/initial.py`
and `auto-test/home.py`, which drive the same library without a camera. It contains the modules, the TLC configurations that
model-check them on small instances, and TLAPS proofs of the main safety
properties for every value of the constants. `PROJECT.json` lists the
components, the runs, the mutants, the map from definitions to source lines,
the findings and the hazards.

## The system

`scene.py` runs two threads.

* **The main loop** (`main`). Once per second it scores the camera frame
  against the template histograms (`scene_similarity`) and sorts the scores.
  It then turns them into a *candidate* state (`_evaluate_state`) and steps a
  confirming Moore FSM (`fsm_update`): a transition needs `FSM_CONFIRM_COUNT = 3`
  consecutive identical allowed candidates. On a confirmed transition it
  enqueues the state's HID action (`dispatch_action`). While the FSM is in
  IN-PLAY it also offers `play_turn` every 5 s through `dispatch_if_idle`,
  which enqueues only if the worker's `_worker_idle` event is set.
* **The dispatcher worker** (`_action_worker`, a daemon thread). It takes
  actions from the FIFO `_action_queue`, clears the idle event, runs
  `hid.ACTIONS[name]` and catches any exception. After `task_done()` it sets the
  event again if the queue is empty.

Each action in `common.py` is a sequence of primitives:

* `calibrate(manual_size)` → `reset_origin_visual`
* `reset_origin`
* `click_pct` → `click` → `move_to` → `_chunked_move`, then mouse-down and
  mouse-up via `send`
* `drag`
* in `play_turn`, a random flick via `_chunked_move`

The primitives POST mouse reports to the HID device in random-sized batches
(`_send_batch`). They track the cursor in the globals `_cx, _cy`, because the
device accepts only relative deltas. `requests.post` exceptions are not caught
in `common.py`. They unwind the action and are caught by the worker.

The auto-test scripts call the library in sequence:

* **`initial.py`** calibrates, taps the splash, then makes up to 10 attempts
  to see the home screen. Each failed attempt taps four dialog OK positions.
* **`home.py`** calibrates only while `screen_w == 0`, then runs
  `reset_origin` and ten `click_pct` taps from the home screen to deploy.

Without a size, `calibrate` scans. It makes steps of (10, 10) from the
origin, tapping after each one, until `detect_hamburger_menu` sees the menu.
It then sets `screen_w = int(_cx / 0.95)` and `screen_h = int(_cy / 0.97)`.
`capture_screen` and the `detect_*` functions are stubs in the code.

## Modules

| Module | Models | State ↔ code |
|---|---|---|
| `SceneStates` | the `S_*` state names | constants only |
| `SceneFSM` | `FSM_TRANSITIONS`, `FSM_ACTIONS`, the QUEST override, `fsm_update` | `state`=`fsm_state`, `pending`/`pendingCount`=`_fsm_pending`/`_fsm_pending_count`; history variables `lastCand`, `run`, `dwell` observe the candidate stream |
| `Classifier` | the sort at the end of `scene_similarity`, `_score_of`, `_top_names`, `_evaluate_state` | `score` = `score_map` of one frame (hundredths); `scores` = the sorted list |
| `Dispatcher` | `_action_queue`, `_worker_idle`, `_action_worker`, `dispatch_action`, `dispatch_if_idle` | `queue`, `idle`, `wpc` (the worker's line), `current`; a client with history `enqueued`/`done` |
| `AtomicDispatcher` | what the dispatcher promises: a FIFO of pending actions, appended by a put and run oldest-first in one step | `pending`, with the histories `enqueued`, `done`; `Dispatcher` maps `pending` to the worker's taken item, if it holds one, followed by the queue |
| `ControlLoop` | one detection of `main()` composed with the FSM (INSTANCE `SceneFSM`) and the worker (INSTANCE `Dispatcher`) | `mpc` = where the main thread is within a detection; `sincePlay` = `now - last_play_turn` in detections, capped |
| `HidArith` | the clamp of `_chunked_move` and the drag interpolation step | pure operators |
| `ChunkedMove` | the chunk loop of `_chunked_move` | `dx, dy, cx, cy` as in the code, `chunks` the list built |
| `DragInterp` | the interpolation loop of `drag` | `i`, `cmds`, and `sum` of the steps emitted |
| `HidTransport` | the actions as primitive programs, the primitives' reports, batching, POST success and failure, the pointer on the device | `cx, cy`=`_cx, _cy`; `ptr`/`down` = the device's pointer and button; `prog`, `cur`, `out` = the rest of the action, the current primitive and its unsent reports; `emitted` = the sum of deltas sent since the last reset; `aborted` = an action raised since the last reset ended |
| `AutoTest` | `calibrate` (both paths), `reset_origin(_visual)`, `click`, `click_pct`, and the scripts `initial.py` and `home.py` | `screen_w, screen_h, cx, cy` as in `common.py`; `scr` and `ptr` = the real screen and the host pointer; `menu` = the menu is open; `pc`, `step`, `attempt`, `k` = where the script is and its loop counters; `tap` = the last script tap (history) |
| `Dispatcher_proofs`, `ControlLoop_proofs`, `SceneFSM_proofs`, `ChunkedMove_proofs`, `DragInterp_proofs`, `AutoTest_proofs` | TLAPS proofs | — |

Every action of a module is a whole handler or one line of a thread that
touches shared state. The dispatcher worker has one step per line (`get`,
`clear`, run, `task_done`/`empty`, `set`), so the main thread interleaves
between them. A detection is one step: the main thread is the only writer
of the FSM. `dispatch_if_idle` is split into the flag test and the put
(`PeriodicCheck`/`PeriodicSkip`, then `PeriodicPut`). An HID primitive
computes its reports and updates `_cx, _cy` in `StartPrim`. Each POST is then
a step that succeeds or raises (`PostOk`, `PostRaises`), and the primitive's
trailing assignments are `FinishPrim`.

In `AutoTest` each HID primitive is one step, because `HidTransport` already
covers batching and failing POSTs. The host moves the pointer by each delta
and clips it at the screen edges. Each reset sweep is modelled as the code
sends it: 26 × (−20, −20) for the visual reset and 6 × (−100, −100) for
`reset_origin`. The stubbed vision stands for what the docstrings describe:

* the menu opens when a tap lands within `IconHalf` of the icon, which sits
  at (0.95, 0.97) of the screen;
* `detect_home_screen` may answer either way.

## Runs

| Run | Expect | Properties | What it shows |
|---|---|---|---|
| SceneFSM | pass | TypeOK, PendingInv, ConfirmedByRun | over every candidate stream, the pending bookkeeping stays consistent, and each transition follows 3 consecutive identical candidates in the state left |
| Dispatcher | pass | BlockedWorkerIdle, FifoOrder, ImplementsAtomic, AllDispatchedRun | the threaded dispatcher implements the atomic FIFO `AtomicDispatcher`; the actions run, the one held and the queue are exactly the actions put, in order; the k-th dispatched action is eventually the k-th run; a worker blocked on an empty queue has the flag set |
| ControlLoop | pass | TypeOK, PlayTurnRecurs | while the FSM stays in IN-PLAY, play_turn is queued again and again |
| ControlLoopFlood | violation | PlayTurnNotDuplicated | entering IN-PLAY queues play_turn twice (finding) |
| ControlLoopSkip | violation | SkipRetriedNextPoll | a skipped play_turn is not retried at the next poll (finding) |
| ChunkedMove | pass | TypeOK, ChunkExact, ChunkCount, ChunkTerminates | every report is within ±MAX_DELTA; the loop ends, with the cursor moved exactly by the request, after the fewest reports |
| DragInterp | pass | TypeOK, DragExact | floor-division drag steps sum to the displacement |
| HidTransport | pass | TrackedUnlessAborted, ReleasedUnlessAborted, ClickOnTarget | with POSTs that may raise: unless an action was aborted since the last reset, `_cx, _cy` equal the deltas sent since that reset and the button is up between actions; every mouse-down lands where `_cx, _cy` say |
| HidTransportAbort | violation | IdleConsistent | a POST that raises mid-action leaves the worker idle with `_cx, _cy` off the pointer or the touch held (finding) |
| AutoTest | pass | CalibratedSizeExact, ScriptTapsOnTarget | on a square screen the scan measures the size to within `IconHalf + SCAN_STEP`; on a tall one it misses the icon and the script aborts; every tap of both scripts, with or without a given size, lands within that tolerance of its target |
| AutoTestPortrait | violation | CalibratedSizeExact | on a 300×400 portrait screen calibrate reports 400×391 (finding) |
| ClassifierSpecialReward | violation | SpecialRewardOnTop | a dark frame is classified SPECIAL-REWARD (finding) |

Each property of a passing run has a mutant in `PROJECT.json`: a plausible
slip in a mapped definition that TLC catches. Examples are an off-by-one
threshold, a pending candidate not cleared, a LIFO queue, a dropped `set()`,
a put replaced by running the action inline when the flag is set, a worker
loop that exits after `set()`, a loop condition with "and" for "or",
a one-sided clamp, a drag without `global`, a click without mouse-up,
swapped axes in `click_pct`, a scan that forgets `_cy += SCAN_STEP`, and a
click that does not record where it moved to.

### Findings

1. **Double play_turn on entering IN-PLAY.** `scene.py:664` and `:670` both
   run in the detection that confirms IN-PLAY, and `last_play_turn` starts at
   0.0. `dispatch_if_idle` tests only the event, which is still set because
   the worker has not yet taken the first play_turn. Two play_turns are
   therefore queued back to back. The spec (§4.3, scenario 6) says the worker
   must be idle and play_turn is emitted "then at intervals ≥ 5 s".
2. **Skipped play_turn waits a full interval.** `last_play_turn = now`
   (`scene.py:671`) runs even when `dispatch_if_idle` skipped. The spec
   (scenario 6) says it is retried at the next poll.
3. **SPECIAL-REWARD precedence.** `scene.py:429-434` parses as
   `(A and B and C) or D`. As a result, a frame where every other scene scores
   ≤ 0.2 is SPECIAL-REWARD whatever the top scene. TLC's counterexample is all
   four scenes at 0.10, with top `clear-ok`. The spec encodes
   `A and ((B and C) or D)`.
4. **Uncaught transport errors.** `requests.post` (`common.py:66, 78`) may
   raise. `_chunked_move` has already advanced `_cx, _cy` to the target, and
   `click` may already have sent its mouse-down. The worker catches the
   exception and goes idle with the tracked cursor off the pointer, or with
   the touch held (HidTransportAbort). The spec (§4.1, failure semantics, and §7) says such errors are
   swallowed and the action continues. The passing run shows the damage is
   contained: the next reset restores both (`TrackedUnlessAborted`,
   `ReleasedUnlessAborted`).
5. **The calibration scan only works on one diagonal.** `common.py:278-290`
   steps both axes by `SCAN_STEP`. It adds the step to `_cx, _cy` even after
   the host has stopped the pointer at an edge. The size is then derived from
   `_cx, _cy`. On a 300×400 portrait screen the menu opens with the pointer
   at (300, 380) and `_cx = _cy = 380`, so calibrate reports 400×391. If the
   icon is off the diagonal by more than its half-width, the scan never finds
   it and gives up after 500 taps. The scripts' usage comment gives a portrait
   phone; spec §4.4 says the scan discovers the size.

## Bounds

* **FSM.** All 13 states are candidates with `FSM_CONFIRM_COUNT = 3`, so
  every pending count and every blocked or overridden candidate occurs.
* **Control loop.** The candidates are UNKNOWN, DECK-SELECT, IN-PLAY and
  CLEAR-OK: the path into and out of IN-PLAY and an illegal candidate. The
  interval is 5 detections and the queue is bounded at 2. Two slots suffice
  for the double play_turn. The bound only limits `Detect` (the code's queue
  is unbounded).
* **Dispatcher.** Two actions, four dispatches.
* **HID arithmetic.** `MAX_DELTA = 10` with requests in −25..25 on both axes
  covers zero, sub-chunk, exact multiples and mixed signs. The drags are the
  displacements used by the actions plus odd ones, with 1, 3, 4 and 20 steps.
* **HidTransport.** The screen is 400×300 with the code's `RESET_SWEEP = 500`,
  `MAX_DELTA = 10`, batches of 6..14 and 20 drag steps. It runs six actions
  that together use every primitive, plus four flicks. Moves cross batch
  boundaries, so a POST can fail mid-primitive.
* **AutoTest.** The code's `SCAN_STEP`, `RESET_SWEEP`, 500 scan steps and
  10 dialog retries. Both scripts run with and without a given size, from a
  pointer at either corner. There are two screens, both within the 520 and
  600 units the resets sweep. `common.py:10` puts a full screen at about
  400 HID units, and the two screens lie on either side of that. One is 200×200, where the icon lies on the diagonal and the scan
  succeeds. The other is 400×500, where the scan runs to exhaustion. The icon
  has a half-width of 15, so detection happens within a step or two of the
  icon's edge. A screen beyond the sweep (over 520 units) would leave the
  visual reset short of the origin, and every tap would be off by the
  shortfall. The header of `common.py` rules this out, but the usage comments
  of the scripts (`initial.py:89`, `home.py:150`) give a manual size of
  1170×2532. A screen that large is beyond both sweeps. No run includes one,
  so the hazard of a sweep that is too short (`common.py:117`) is argued
  here, not checked. `int(w * r)` with
  a float `r` and the model's `(w * r) \div 1000` can differ by one for some
  widths. This is far below the tolerance.
* **Classifier.** Four loaded scenes and four score levels around the
  thresholds (0.10, 0.30, 0.60, 0.85).

## Fairness

`ControlLoop` assumes weak fairness of the main thread and of the worker. The
main loop polls without end and blocks only in `capture_array`, which returns.
The worker is a daemon thread that keeps being scheduled. Neither the
classifier's output nor the dispatches get fairness, because they depend on
the screen. `Dispatcher` assumes weak fairness of each worker step.
`ChunkedMove` assumes weak fairness of its loop step, since the loop is
straight-line code. `AutoTest` checks only invariants and assumes no
fairness. Its scripts end, so its run does not check deadlock.

## Proofs (TLAPS)

* **`SceneFSM_proofs`.** Assumes `FSM_CONFIRM_COUNT ∈ Nat \ {0}` and that
  `None` is not a state. The inductive invariant `IInv` combines `TypeOK` and
  `PendingInv` with `HistInv`: a pending candidate is the last candidate seen,
  seen at least `pendingCount` times in a row in the current state. `HistInv`
  is what links the counter to the observed stream. With it, lemma
  `StepConfirmed` shows that a state-changing step has a run of
  `FSM_CONFIRM_COUNT` behind it. Theorems: `TypeCorrect`, `PendingSafe` and
  `Hysteresis` (`Spec => ConfirmedByRun`).
* **`ChunkedMove_proofs`.** Assumes `MAX_DELTA ∈ Nat \ {0}` and integer
  requests and cursors. Lemma `ClampRange` says a clamped delta lies in
  `DeltaRange`. `IInv` adds the loop invariant
  `cx − orig + dx = req` on each axis to `TypeOK`. Theorem `ChunkExactness`:
  when the loop ends, the cursor is exactly at `orig + req`. `TypeCorrect`
  follows from the same invariant. For the count of reports, `MinReports(d)`
  is ⌈|d|/MAX_DELTA⌉ and `Reports(a, b)` is the larger of the two axes'
  counts. The invariant `CountInv` is
  `Len(chunks) + Reports(dx, dy) = Reports(req)`. It rests on lemma
  `MinReportsStep`: one clamped report takes exactly one report off a
  non-zero axis. That lemma comes from `DivUnique`, which says floor division
  is fixed by the bounds of its quotient. A zero axis stays at zero
  (`MinReportsZero`), so the larger count drops by one at each iteration.
  Theorem `ChunkCountExact`: when the loop ends, it has made exactly
  `Reports(req)` reports.
* **`Dispatcher_proofs`.** This needs no assumption. `BlockedWorkerIdle` is
  inductive once it is paired with `HoldsAction`: away from `get()` the
  worker holds an action. `HoldsAction` makes `done` a sequence of actions.
  No step but the worker's `get()` shortens the queue, so a worker sent back
  to `get()` with the flag clear (`WorkerCheck` on a non-empty queue) finds
  the queue non-empty. Theorems: `TypeCorrect` and `WorkerIdleWhenBlocked`.
  `TypeCorrect` is a step toward the others, and no run checks `TypeOK`. In
  this model only the `NoItem` sentinel could break it, and a bug in the
  code would put a well-typed action name.
  The refinement uses the mapping `Pending`: the item the worker holds, while
  it is at `clear` or `run`, followed by the queue.
  * Sequence lemmas: `ConsHeadTail`, `HeadTailCons`, `AppendConcat` and
    `AppendThenConcat`.
  * Step lemmas, built on them: `PutPending`, `GetPending`, `RunPending` and
    `OtherPending`. A put appends to `Pending`. `get()` moves the head of the
    queue into the worker's hands without changing `Pending`. The worker's
    run takes exactly the head of `Pending`. Every other step leaves
    `Pending` alone.
  * The inductive invariant adds `FifoOrder` (`enqueued = done ∘ Pending`) to
    the three facts above, and its proof uses the step lemmas.
  * `NextRefines` maps each step to `Enqueue`, `Run` or a stutter of
    `AtomicDispatcher`.

  Theorems: `FifoPreserved` (`Spec => []FifoOrder`) and `Implementation`
  (`Spec => ImplementsAtomic`, i.e. `Spec => A!Spec`). `Implementation`
  follows the usual refinement argument: the initial state maps to the
  FIFO's, and every step maps to a FIFO step or a stutter.
* **`ControlLoop_proofs`.** Assumes `ControlLoopAssumption`, which includes
  `FSM_CONFIRM_COUNT ∈ Nat \ {0}`; the instantiated modules' own assumptions
  are not facts to TLAPS. It uses the same invariant over the composed state.
  The lemmas are:
  * `TransitionsType`, `OverrideType` and `DetectFsm`: a detection keeps the
    FSM typed, and a transition is into a concrete state, whose action is one
    of `ActionNames`;
  * `PlayTurnAction`: `"play_turn"` is one of `ActionNames`.

  Theorems: `TypeCorrect` and `WorkerIdleWhenBlocked`, the latter for
  `BlockedWorkerIdle` under every interleaving of the main thread with the
  worker.
* **`DragInterp_proofs`.** `IInv` states that after `i−1` steps the sum is
  `⌊d·(i−1)/steps⌋`, a telescoping sum. Lemma `Telescope` shows that one
  step adds the next difference of floors. It treats the two floors as
  atoms, so the provers need no nonlinear reasoning. Lemma `DivCancel` gives
  `⌊d·steps/steps⌋ = d`. Theorems `DragExactness` and `TypeCorrect` follow.
* **`AutoTest_proofs`.** `AutoTest` assumes `AutoTestAssumption`: whole-unit
  sizes and steps, with `SCAN_STEP > 0`. The theorem `CalibrationExact`
  proves `CalibratedSizeExact` for every value of the constants, under three
  hypotheses. Each is stated, not assumed:
  * `ScreenSwept`: the screen is no larger than the sweep of
    `reset_origin_visual`, so the reset puts the pointer at the origin.
  * `ScanGeometry`: the diagonal scan meets the icon while the pointer is
    still inside the screen on both axes, or never meets it.
  * `IconSmall`: `5·IconHalf + 98 < 95·SCAN_STEP`.

  The run's two screens satisfy `ScreenSwept` and `ScanGeometry`. The
  200×200 screen is hit at step 18. The 400×500 screen is never hit. With
  `IconHalf = 15` and `SCAN_STEP = 10`, `IconSmall` reads 173 < 950. The
  3:4 screen of run AutoTestPortrait fails `ScanGeometry`, and the property
  fails there. So the hypothesis is the real condition, not a convenience.

  The inductive invariant `IInv` adds the following to typing and the
  hypotheses:
  * During the scan, `_cx = _cy = step·SCAN_STEP` and the pointer is at
    `ScanPt(_cx)`, the diagonal clipped at the edges.
  * The menu is closed, and no earlier scan tap hit the icon.
  * At detection, the tap of the current `step` hit the icon.
  * Before the scan, the pointer is inside the screen.

  The proof uses these lemmas:
  * `ClipForward`: a step forward from a clipped point is the clip of the
    sum.
  * `ClipBack`: the sweep brings the pointer to the origin.
  * `DetectedOnDiagonal`: the first hit is no later than the one
    `ScanGeometry` promises. So `_cx` is at most both sides, and
    `(_cx, _cx)` is on the icon.
  * `WidthFromIcon` and `HeightFromIcon`: from there,
    `int(_cx/0.95)` and `int(_cy/0.97)` are within `Tol` of the size. This
    is linear arithmetic on floors of constant divisions.

## Model-checked only

Some properties stay with TLC because TLAPS 1.4.5 cannot check them:

* **Liveness.** `PlayTurnRecurs`, `AllDispatchedRun` and `ChunkTerminates`
  need fairness and ENABLED reasoning. Their safety halves are proved:
  `FifoOrder` gives the order in which `AllDispatchedRun` runs actions, and
  `ChunkCount` the number of reports once the loop ends.
* **Recursive and fold definitions.** `HidTransport` uses the recursive
  `Chunks` and `FoldLeft`, and the provers cannot do induction over such data.
* **Classifier.** It is a pure function over a finite frame set, and its
  finding is a counterexample.
* **HidTransport and AutoTest invariants.** `TrackedUnlessAborted` and
  `ReleasedUnlessAborted` are stated over the recursive `Chunks` and the
  folds `Total` and `Deliver`. Their invariant needs the sum of a split
  report list to be the sum of its parts, which is induction over
  sequences. `HidTransport` also reaches `RECURSIVE` declarations through
  `SequencesExt`. `CalibratedSizeExact` is proved under the hypotheses
  above; see `AutoTest_proofs`. `ScriptTapsOnTarget` is not proved. With a
  size that is off by up to `Tol`, a tap near an edge can be clipped. After
  that, the tracked `_cx, _cy` no longer match the pointer. A proof would
  have to bound this drift across the ten taps of `home.py`. The aims
  `⌊screen_w·r/1000⌋` are products of a variable and per-tap constants.

## Not modelled

* **Histogram scoring.** The histogram correlation, region weights and
  `SCENE_CUSTOMS` boosts are image processing. A frame is any score
  assignment, and the FSM's candidate is any state.
* **I/O.** Camera capture, OpenCV drawing, snapshots and key handling.
* **Payload details.** `_seq` and the batch padding only label payloads.
* **Timing.** Sleeps only delay steps that the interleaving already covers.
* **The game's response to scan taps.** The scan taps at every step. A tap
  that lands on a button other than the menu icon would change the screen,
  and nothing in the code describes that screen.
* **Early returns.** The `len(args) < 2` returns of the actions cannot happen:
  `scene.py` always passes two arguments.
* **Float positions.** `click_pct` positions are per-mille integers. This is
  exact for the widths `HidTransport` uses. In `AutoTest` it may be off by
  one, which is within the tolerance.
* **Logging and waits** in the scripts.

## Plan for later work

* Give the Classifier a passing run relating it to the FSM: a stream of frames
  whose candidates feed `SceneFSM`.
* Give `ControlLoop` history variables for the actions put and run, and
  prove that its queue and worker refine `AtomicDispatcher` too.
* Model the effect of the HID actions on the screen, so that an action
  dispatched for a screen that has since changed can be stated.

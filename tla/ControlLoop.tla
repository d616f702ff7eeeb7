----------------------------- MODULE ControlLoop -----------------------------
(***************************************************************************)
(* The two threads of scene-detect/scene.py together: the main loop of    *)
(* main(), which once per second classifies the frame, steps the FSM of   *)
(* SceneFSM, dispatches the action of a confirmed transition and, in      *)
(* IN-PLAY, the periodic play_turn through dispatch_if_idle; and the      *)
(* dispatcher worker of Dispatcher, which runs the queued actions.  One   *)
(* detection step is one tick of the clock; PLAY_TURN_INTERVAL is counted *)
(* in ticks.                                                              *)
(***************************************************************************)
EXTENDS Naturals, Sequences

CONSTANTS FSM_CONFIRM_COUNT,   \* 3 in the code
          PLAY_TURN_INTERVAL,  \* 5.0 s in the code, i.e. five detections
          HidEnabled,          \* hid_enabled: device id, hid_w, hid_h all set
          Observable,          \* the candidates the classifier may return
          None,                \* Python None
          MaxQueue             \* bound on the queue length, for TLC

VARIABLES state, pending, pendingCount,   \* the FSM (main thread)
          queue, idle, wpc, current,      \* the dispatcher (shared)
          mpc,         \* where the main thread is in one detection
          sincePlay,   \* now - last_play_turn, in ticks, capped
          skipped      \* history: the last periodic dispatch was skipped

F == INSTANCE SceneFSM WITH lastCand <- None, run <- 0, dwell <- 0

ASSUME ControlLoopAssumption ==
  /\ FSM_CONFIRM_COUNT \in Nat \ {0}
  /\ PLAY_TURN_INTERVAL \in Nat \ {0}
  /\ HidEnabled \in BOOLEAN
  /\ Observable \subseteq F!States
  /\ MaxQueue \in Nat \ {0}

ActionNames == {F!FSM_ACTIONS[s] : s \in F!Concrete}

D == INSTANCE Dispatcher WITH Actions <- ActionNames, NoItem <- None,
       MaxDispatch <- 0, ifIdleItem <- None, enqueued <- <<>>, done <- <<>>

fsmVars  == <<state, pending, pendingCount>>
dvars    == <<queue, idle, wpc, current>>
mainVars == <<mpc, sincePlay, skipped>>
vars     == <<fsmVars, dvars, mainVars>>

\* now - last_play_turn only matters up to PLAY_TURN_INTERVAL.
CapPlay(n) == IF n > PLAY_TURN_INTERVAL THEN PLAY_TURN_INTERVAL ELSE n

Init ==
  /\ F!FsmInit
  /\ D!DInit
  /\ mpc = "detect"
  \* last_play_turn = 0.0 and time.monotonic() is the uptime, long past 5 s
  /\ sincePlay = PLAY_TURN_INTERVAL
  /\ skipped = FALSE

-----------------------------------------------------------------------------
(* The main thread.                                                        *)

\* Whether the periodic play_turn is due after a detection that leaves the
\* FSM in state st: "if hid_enabled and fsm_state == IN-PLAY and now -
\* last_play_turn >= PLAY_TURN_INTERVAL".
PlayDue(st) ==
  HidEnabled /\ st = F!S_IN_PLAY /\ CapPlay(sincePlay + 1) >= PLAY_TURN_INTERVAL

\* Mutant: the periodic dispatch nested under "if fsm_changed".
DetectPeriodicOnChange(c) ==
  /\ mpc = "detect"
  /\ Len(queue) < MaxQueue
  /\ LET cand == F!Override(state, c) IN
       F!FsmSame(cand) \/ F!FsmAdvance(cand) \/ F!FsmBlocked(cand)
  /\ IF HidEnabled /\ state' # state
     THEN D!Put(F!FSM_ACTIONS[state'])
     ELSE UNCHANGED dvars
  /\ sincePlay' = CapPlay(sincePlay + 1)
  /\ mpc' = IF state' # state /\ PlayDue(state') THEN "ifidle" ELSE "detect"
  /\ UNCHANGED skipped

\* One detection (the body of "if templates_hist and now - last_detect >=
\* 1.0"): scene_similarity and _evaluate_state give the candidate c,
\* fsm_update steps the FSM, a confirmed transition with HID enabled puts
\* FSM_ACTIONS[state] on the queue (dispatch_action), and then, changed or
\* not, the periodic play_turn is tested.  The queue bound is TLC's.
Detect(c) ==
  /\ mpc = "detect"
  /\ Len(queue) < MaxQueue
  /\ LET cand == F!Override(state, c) IN
       F!FsmSame(cand) \/ F!FsmAdvance(cand) \/ F!FsmBlocked(cand)
  /\ IF HidEnabled /\ state' # state
     THEN D!Put(F!FSM_ACTIONS[state'])
     ELSE UNCHANGED dvars
  /\ sincePlay' = CapPlay(sincePlay + 1)
  /\ mpc' = IF PlayDue(state') THEN "ifidle" ELSE "detect"
  /\ UNCHANGED skipped

\* dispatch_if_idle("play_turn"): _worker_idle.is_set() is read and found
\* set; then last_play_turn = now.
PeriodicCheck ==
  /\ mpc = "ifidle"
  /\ idle
  /\ mpc' = "put"
  /\ sincePlay' = 0
  /\ skipped' = FALSE
  /\ UNCHANGED <<fsmVars, dvars>>

\* dispatch_if_idle("play_turn") finds the flag clear and skips; then
\* last_play_turn = now all the same.
PeriodicSkip ==
  /\ mpc = "ifidle"
  /\ ~idle
  /\ mpc' = "detect"
  /\ sincePlay' = 0
  /\ skipped' = TRUE
  /\ UNCHANGED <<fsmVars, dvars>>

\* The put of dispatch_if_idle, after the flag was found set.
PeriodicPut ==
  /\ mpc = "put"
  /\ D!Put("play_turn")
  /\ mpc' = "detect"
  /\ UNCHANGED <<fsmVars, sincePlay, skipped>>

Main ==
  \/ \E c \in Observable : Detect(c)
  \/ PeriodicCheck
  \/ PeriodicSkip
  \/ PeriodicPut

\* The worker thread, as in Dispatcher.
Worker ==
  /\ \/ D!WorkerGet \/ D!WorkerClear \/ D!WorkerRun
     \/ D!WorkerCheck \/ D!WorkerSet
  /\ UNCHANGED <<fsmVars, mainVars>>

Next == Main \/ Worker

\* Both threads keep running: the main loop polls the camera without end
\* (it blocks only in capture_array, which returns) and the worker is a
\* daemon thread the interpreter keeps scheduling.  Which candidate the
\* classifier returns gets no fairness: any of Observable may come.
Fairness ==
  /\ WF_vars(Main)
  /\ WF_vars(Worker)

Spec == Init /\ [][Next]_vars /\ Fairness

-----------------------------------------------------------------------------
\* Type invariant.
TypeOK ==
  /\ state \in F!States
  /\ pending \in F!Concrete \cup {None}
  /\ pendingCount \in 0..(FSM_CONFIRM_COUNT - 1)
  /\ queue \in Seq(ActionNames)
  /\ idle \in BOOLEAN
  /\ wpc \in D!WorkerPCs
  /\ current \in ActionNames \cup {None}
  /\ mpc \in {"detect", "ifidle", "put"}
  /\ sincePlay \in 0..PLAY_TURN_INTERVAL
  /\ skipped \in BOOLEAN

\* While the FSM stays in IN-PLAY, play_turn is queued again and again: the
\* worker, once it has drained the queue, sets its idle flag, so that a
\* later periodic dispatch_if_idle finds it set.
PlayTurnRecurs ==
  HidEnabled /\ <>[](state = F!S_IN_PLAY) => []<><<PeriodicPut>>_vars

\* The play_turn actions queued or running.
PlayTurnsOutstanding ==
  Len(SelectSeq(queue, LAMBDA a : a = "play_turn"))
    + (IF wpc \in {"clear", "run"} /\ current = "play_turn" THEN 1 ELSE 0)

\* dispatch_if_idle exists to keep play_turn from flooding the queue
\* (spec 4.3): at no time are two play_turn actions queued or running.
PlayTurnNotDuplicated ==
  PlayTurnsOutstanding <= 1

\* Spec 8, scenario 6: a periodic play_turn skipped because the worker is
\* busy is retried at the next poll while the FSM stays in IN-PLAY.
SkipRetriedNextPoll ==
  [][(skipped /\ \E c \in Observable : Detect(c) /\ state' = F!S_IN_PLAY)
       => mpc' = "ifidle"]_vars

=============================================================================

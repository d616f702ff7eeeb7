------------------------------ MODULE SceneFSM ------------------------------
(***************************************************************************)
(* The confirming Moore FSM of scene-detect/scene.py: the transition table *)
(* FSM_TRANSITIONS, the QUEST context override and the hysteresis of       *)
(* fsm_update (FSM_CONFIRM_COUNT consecutive identical allowed candidates  *)
(* before a transition).  The candidate of each evaluation is the output   *)
(* of _evaluate_state, which the control loop computes from the camera;    *)
(* here it is any member of States (UNKNOWN included), chosen by the       *)
(* environment.  Module EvaluateState models how the candidate is made.    *)
(***************************************************************************)
EXTENDS Naturals, SceneStates

CONSTANTS FSM_CONFIRM_COUNT,   \* consecutive hits required (3 in the code)
          None                 \* the value None of _fsm_pending

ASSUME ConfirmAssumption == FSM_CONFIRM_COUNT \in Nat \ {0}

\* _fsm_pending = None is told apart from every state name.
ASSUME NoneAssumption == None \notin States

\* FSM_TRANSITIONS: state -> allowed next states.  Every state has an entry,
\* so FSM_TRANSITIONS.get(state, []) never falls back to its default.
FSM_TRANSITIONS ==
  [s \in States |->
     CASE s = S_UNKNOWN                  -> Concrete
       [] s = S_HOME                     -> {S_EVENT, S_QUEST, S_NORMAL_QUEST_UIJIN}
       [] s = S_EVENT                    -> {S_NORMAL_QUEST_UIJIN, S_HOME}
       [] s = S_QUEST                    -> {S_NORMAL_QUEST, S_HOME}
       [] s = S_NORMAL_QUEST             -> {S_NORMAL_QUEST_UIJIN, S_QUEST, S_HOME}
       [] s = S_NORMAL_QUEST_UIJIN       -> {S_NORMAL_QUEST_UIJIN_KARYU,
                                             S_NORMAL_QUEST, S_HOME}
       [] s = S_NORMAL_QUEST_UIJIN_KARYU -> {S_HELPER_SELECT, S_HOME}
       [] s = S_HELPER_SELECT            -> {S_DECK_SELECT, S_HOME}
       [] s = S_DECK_SELECT              -> {S_IN_PLAY, S_HOME}
       [] s = S_IN_PLAY                  -> {S_CLEAR_OK}
       [] s = S_CLEAR_OK                 -> {S_SPECIAL_REWARD, S_REWARD_NEXT, S_HOME}
       [] s = S_SPECIAL_REWARD           -> {S_REWARD_NEXT}
       [] s = S_REWARD_NEXT              -> {S_HOME}]

\* FSM_ACTIONS: the HID action emitted on a confirmed transition into a state.
FSM_ACTIONS ==
  [s \in Concrete |->
     CASE s = S_HOME                     -> "quest_bt_click"
       [] s = S_EVENT                    -> "normal_ikusei_bt_click"
       [] s = S_QUEST                    -> "normal_bt_click"
       [] s = S_NORMAL_QUEST             -> "shojin_bt_click"
       [] s = S_NORMAL_QUEST_UIJIN       -> "karyu_bt_click"
       [] s = S_NORMAL_QUEST_UIJIN_KARYU -> "solo_bt_click"
       [] s = S_HELPER_SELECT            -> "helper_select"
       [] s = S_DECK_SELECT              -> "shutsugeki_bt_click"
       [] s = S_IN_PLAY                  -> "play_turn"
       [] s = S_CLEAR_OK                 -> "clear_ok"
       [] s = S_SPECIAL_REWARD           -> "special_reward"
       [] s = S_REWARD_NEXT              -> "reward_next"]

\* The context override: in QUEST a NORMAL-QUEST-UIJIN candidate is read as
\* NORMAL-QUEST (the intermediate screen passes too quickly to be seen).
Override(st, c) ==
  IF st = S_QUEST /\ c = S_NORMAL_QUEST_UIJIN THEN S_NORMAL_QUEST ELSE c

-----------------------------------------------------------------------------
VARIABLES state,          \* fsm_state, owned by the control loop
          pending,        \* _fsm_pending
          pendingCount,   \* _fsm_pending_count
          lastCand,       \* history: the last candidate fsm_update acted on
          run,            \* history: how many times in a row it was seen
          dwell           \* history: evaluations made in the current state

fsmVars  == <<state, pending, pendingCount>>
histVars == <<lastCand, run, dwell>>
vars     == <<fsmVars, histVars>>

\* The history variables observe the stream of candidates (after the
\* override) independently of the pending logic; they are capped at
\* FSM_CONFIRM_COUNT, beyond which the properties cannot tell them apart.
Cap(n) == IF n > FSM_CONFIRM_COUNT THEN FSM_CONFIRM_COUNT ELSE n

Observe(cand) ==
  /\ lastCand' = cand
  /\ run'      = IF lastCand = cand THEN Cap(run + 1) ELSE 1
  /\ dwell'    = IF state' # state THEN 0 ELSE Cap(dwell + 1)

FsmInit ==
  /\ state = S_UNKNOWN
  /\ pending = None
  /\ pendingCount = 0

HistInit ==
  /\ lastCand = None
  /\ run = 0
  /\ dwell = 0

Init == FsmInit /\ HistInit

\* Mutants of the actions below, each a plausible slip in fsm_update; each
\* must be caught by a property of the run SceneFSM.
\* The threshold compared with > instead of >= (one hit too many).
FsmAdvanceOffByOne(cand) ==
  /\ cand # state
  /\ cand \in FSM_TRANSITIONS[state]
  /\ LET n == IF pending = cand THEN pendingCount + 1 ELSE 1 IN
       IF n > FSM_CONFIRM_COUNT
       THEN state' = cand /\ pending' = None /\ pendingCount' = 0
       ELSE pending' = cand /\ pendingCount' = n /\ UNCHANGED state

\* The transition leaves _fsm_pending set to the adopted candidate.
FsmAdvanceKeepsPending(cand) ==
  /\ cand # state
  /\ cand \in FSM_TRANSITIONS[state]
  /\ LET n == IF pending = cand THEN pendingCount + 1 ELSE 1 IN
       IF n >= FSM_CONFIRM_COUNT
       THEN state' = cand /\ pending' = cand /\ pendingCount' = 0
       ELSE pending' = cand /\ pendingCount' = n /\ UNCHANGED state

\* A BLOCKED candidate does not reset the pending count.
FsmBlockedNoReset(cand) ==
  /\ cand # state
  /\ cand \notin FSM_TRANSITIONS[state]
  /\ UNCHANGED fsmVars

\* candidate == state: pending is reset, the state is kept.
FsmSame(cand) ==
  /\ cand = state
  /\ pending' = None
  /\ pendingCount' = 0
  /\ UNCHANGED state

\* An allowed candidate: counted, and adopted at FSM_CONFIRM_COUNT hits.
FsmAdvance(cand) ==
  /\ cand # state
  /\ cand \in FSM_TRANSITIONS[state]
  /\ LET n == IF pending = cand THEN pendingCount + 1 ELSE 1 IN
       IF n >= FSM_CONFIRM_COUNT
       THEN /\ state' = cand
            /\ pending' = None
            /\ pendingCount' = 0
       ELSE /\ pending' = cand
            /\ pendingCount' = n
            /\ UNCHANGED state

\* A candidate the table does not allow: BLOCKED, pending is reset.
FsmBlocked(cand) ==
  /\ cand # state
  /\ cand \notin FSM_TRANSITIONS[state]
  /\ pending' = None
  /\ pendingCount' = 0
  /\ UNCHANGED state

\* fsm_update(state, scores) given c = _evaluate_state(scores); the returned
\* flag "changed" is state' # state.
FsmUpdate(c) ==
  LET cand == Override(state, c) IN
    /\ \/ FsmSame(cand)
       \/ FsmAdvance(cand)
       \/ FsmBlocked(cand)
    /\ Observe(cand)

Next == \E c \in States : FsmUpdate(c)

Spec == Init /\ [][Next]_vars

-----------------------------------------------------------------------------
\* Type invariant.
TypeOK ==
  /\ state \in States
  /\ pending \in Concrete \cup {None}
  /\ pendingCount \in 0..(FSM_CONFIRM_COUNT - 1)
  /\ lastCand \in States \cup {None}
  /\ run \in 0..FSM_CONFIRM_COUNT
  /\ dwell \in 0..FSM_CONFIRM_COUNT

\* Pending bookkeeping of fsm_update: a pending candidate is always a legal,
\* different successor of the current state with a count below the
\* threshold, and no pending candidate means a zero count.  A transition
\* that forgot to clear _fsm_pending would carry a stale candidate into the
\* next state.
PendingInv ==
  /\ pending = None <=> pendingCount = 0
  /\ pending # None =>
       /\ pending \in FSM_TRANSITIONS[state]
       /\ pending # state
       /\ pendingCount \in 1..(FSM_CONFIRM_COUNT - 1)

\* Hysteresis of fsm_update: every transition the FSM makes is to a state
\* that the last FSM_CONFIRM_COUNT evaluations, all made in the state being
\* left, named as candidate; an interruption by the current state, an
\* illegal candidate or another candidate restarts the count.
ConfirmedByRun ==
  [][state' # state =>
       /\ lastCand' = state'
       /\ run' = FSM_CONFIRM_COUNT
       /\ dwell >= FSM_CONFIRM_COUNT - 1]_vars

=============================================================================

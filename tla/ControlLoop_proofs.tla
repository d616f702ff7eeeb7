------------------------- MODULE ControlLoop_proofs -------------------------
(***************************************************************************)
(* Proofs about ControlLoop, the main loop and the dispatcher worker of   *)
(* scene.py together, for every confirmation count, play_turn interval,   *)
(* set of observable candidates and queue bound: the type invariant, and  *)
(* that the worker's idle flag is set whenever it waits on an empty       *)
(* queue, whatever the main thread does between the worker's steps.       *)
(***************************************************************************)
EXTENDS ControlLoop, TLAPS

\* Away from get() the worker holds the action it took.
HoldsAction == wpc # "get" => current \in ActionNames

IInv == TypeOK /\ HoldsAction /\ D!BlockedWorkerIdle

\* The transition table names concrete states only.
LEMMA TransitionsType ==
  \A s \in F!States : F!FSM_TRANSITIONS[s] \subseteq F!Concrete
BY DEF F!FSM_TRANSITIONS, F!States, F!Concrete, F!S_UNKNOWN, F!S_HOME,
       F!S_QUEST, F!S_NORMAL_QUEST, F!S_NORMAL_QUEST_UIJIN,
       F!S_NORMAL_QUEST_UIJIN_KARYU, F!S_HELPER_SELECT, F!S_DECK_SELECT,
       F!S_IN_PLAY, F!S_CLEAR_OK, F!S_SPECIAL_REWARD, F!S_EVENT,
       F!S_REWARD_NEXT

\* The periodic action is one of the actions of the table.
LEMMA PlayTurnAction == "play_turn" \in ActionNames
<1>1. F!S_IN_PLAY \in F!Concrete /\ F!FSM_ACTIONS[F!S_IN_PLAY] = "play_turn"
  BY DEF F!FSM_ACTIONS, F!Concrete, F!S_UNKNOWN, F!S_HOME,
         F!S_QUEST, F!S_NORMAL_QUEST, F!S_NORMAL_QUEST_UIJIN,
         F!S_NORMAL_QUEST_UIJIN_KARYU, F!S_HELPER_SELECT, F!S_DECK_SELECT,
         F!S_IN_PLAY, F!S_CLEAR_OK, F!S_SPECIAL_REWARD, F!S_EVENT,
         F!S_REWARD_NEXT
<1> QED
  BY <1>1 DEF ActionNames

\* The override turns a state into a state.
LEMMA OverrideType ==
  \A st, c \in F!States : F!Override(st, c) \in F!States
BY DEF F!Override, F!States, F!Concrete, F!S_NORMAL_QUEST

\* The initial state satisfies the inductive invariant.
LEMMA InitIInv == Init => IInv
<1> SUFFICES ASSUME Init PROVE IInv
  OBVIOUS
<1>1. state \in F!States /\ pending \in F!Concrete \cup {None}
  BY DEF Init, F!FsmInit, F!States
<1>2. /\ pendingCount \in 0..(FSM_CONFIRM_COUNT - 1)
      /\ sincePlay \in 0..PLAY_TURN_INTERVAL
  BY ControlLoopAssumption DEF Init, F!FsmInit
<1>3. /\ queue \in Seq(ActionNames)
      /\ wpc \in D!WorkerPCs /\ current \in ActionNames \cup {None}
      /\ mpc \in {"detect", "ifidle", "put"}
  BY DEF Init, D!DInit, D!WorkerPCs
<1>5. idle \in BOOLEAN /\ skipped \in BOOLEAN
  BY Zenon DEF Init, D!DInit
<1>4. HoldsAction /\ D!BlockedWorkerIdle
  BY DEF Init, D!DInit, HoldsAction, D!BlockedWorkerIdle
<1> QED
  BY <1>1, <1>2, <1>3, <1>4, <1>5 DEF IInv, TypeOK

\* One detection keeps the FSM typed, and a change of state is to a
\* concrete state, whose action is one of ActionNames.
LEMMA DetectFsm ==
  ASSUME TypeOK, NEW c \in Observable,
         LET cand == F!Override(state, c) IN
           F!FsmSame(cand) \/ F!FsmAdvance(cand) \/ F!FsmBlocked(cand)
  PROVE  /\ state' \in F!States
         /\ pending' \in F!Concrete \cup {None}
         /\ pendingCount' \in 0..(FSM_CONFIRM_COUNT - 1)
         /\ state' # state => F!FSM_ACTIONS[state'] \in ActionNames
<1> DEFINE cand == F!Override(state, c)
<1>1. cand \in F!States /\ F!FSM_TRANSITIONS[state] \subseteq F!Concrete
  BY OverrideType, TransitionsType, ControlLoopAssumption DEF TypeOK
<1>2. FSM_CONFIRM_COUNT \in Nat \ {0}
  BY ControlLoopAssumption
<1>3. CASE F!FsmSame(cand)
  BY <1>3, <1>2 DEF F!FsmSame, TypeOK
<1>4. CASE F!FsmBlocked(cand)
  BY <1>4, <1>2 DEF F!FsmBlocked, TypeOK
<1>5. CASE F!FsmAdvance(cand)
  <2>1. cand \in F!Concrete
    BY <1>1, <1>5 DEF F!FsmAdvance
  <2>2. F!FSM_ACTIONS[cand] \in ActionNames
    BY <2>1 DEF ActionNames
  <2>3. (IF pending = cand THEN pendingCount + 1 ELSE 1) \in Nat \ {0}
    BY DEF TypeOK
  <2> QED
    BY <1>5, <1>2, <2>1, <2>2, <2>3
    DEF F!FsmAdvance, TypeOK, F!States
<1> QED
  BY <1>3, <1>4, <1>5

\* Every step of either thread preserves the inductive invariant.
LEMMA NextIInv == IInv /\ [Next]_vars => IInv'
<1> SUFFICES ASSUME IInv, [Next]_vars PROVE IInv'
  OBVIOUS
<1> USE ControlLoopAssumption
<1>1. CASE \E c \in Observable : Detect(c)
  <2>1. PICK c \in Observable : Detect(c)
    BY <1>1
  <2>2. /\ state' \in F!States
        /\ pending' \in F!Concrete \cup {None}
        /\ pendingCount' \in 0..(FSM_CONFIRM_COUNT - 1)
        /\ state' # state => F!FSM_ACTIONS[state'] \in ActionNames
    BY <2>1, DetectFsm DEF Detect, IInv
  <2>3. CapPlay(sincePlay + 1) \in 0..PLAY_TURN_INTERVAL
    BY DEF IInv, TypeOK, CapPlay
  <2>4. CASE HidEnabled /\ state' # state
    BY <2>1, <2>2, <2>3, <2>4
    DEF Detect, D!Put, IInv, TypeOK, HoldsAction, D!BlockedWorkerIdle
  <2>5. CASE ~(HidEnabled /\ state' # state)
    BY <2>1, <2>2, <2>3, <2>5
    DEF Detect, dvars, IInv, TypeOK, HoldsAction, D!BlockedWorkerIdle
  <2> QED
    BY <2>4, <2>5
<1>2. CASE PeriodicCheck
  <2>1. /\ mpc' = "put" /\ sincePlay' = 0 /\ skipped' = FALSE
        /\ UNCHANGED <<state, pending, pendingCount, queue, idle, wpc, current>>
    BY <1>2 DEF PeriodicCheck, fsmVars, dvars
  <2>2. idle' \in BOOLEAN /\ skipped' \in BOOLEAN /\ D!BlockedWorkerIdle'
    BY <2>1, Zenon DEF IInv, TypeOK, D!BlockedWorkerIdle
  <2>3. /\ state' \in F!States
        /\ pending' \in F!Concrete \cup {None}
        /\ pendingCount' \in 0..(FSM_CONFIRM_COUNT - 1)
        /\ queue' \in Seq(ActionNames)
        /\ wpc' \in D!WorkerPCs
        /\ current' \in ActionNames \cup {None}
        /\ mpc' \in {"detect", "ifidle", "put"}
        /\ sincePlay' \in 0..PLAY_TURN_INTERVAL
        /\ HoldsAction'
    BY <2>1 DEF IInv, TypeOK, HoldsAction
  <2> QED
    BY <2>2, <2>3 DEF IInv, TypeOK
<1>6. CASE PeriodicSkip
  BY <1>6 DEF PeriodicSkip, fsmVars, dvars, IInv, TypeOK, HoldsAction,
              D!BlockedWorkerIdle
<1>3. CASE PeriodicPut
  BY <1>3, PlayTurnAction
  DEF PeriodicPut, D!Put, fsmVars, IInv, TypeOK, HoldsAction,
      D!BlockedWorkerIdle
<1>4. CASE Worker
  <2> USE DEF IInv, TypeOK, HoldsAction, D!BlockedWorkerIdle, D!WorkerPCs,
              fsmVars, mainVars
  <2>1. CASE D!WorkerGet
    <3>1. queue # <<>> /\ queue \in Seq(ActionNames)
      BY <2>1 DEF D!WorkerGet
    <3>2. Head(queue) \in ActionNames /\ Tail(queue) \in Seq(ActionNames)
      BY <3>1
    <3> QED
      BY <1>4, <2>1, <3>2 DEF D!WorkerGet, Worker
  <2>2. CASE D!WorkerClear \/ D!WorkerRun \/ D!WorkerCheck \/ D!WorkerSet
    BY <1>4, <2>2
    DEF D!WorkerClear, D!WorkerRun, D!WorkerCheck, D!WorkerSet, Worker
  <2> QED
    BY <1>4, <2>1, <2>2 DEF Worker
<1>5. CASE UNCHANGED vars
  BY <1>5 DEF vars, fsmVars, dvars, mainVars, IInv, TypeOK, HoldsAction,
              D!BlockedWorkerIdle
<1> QED
  BY <1>1, <1>2, <1>3, <1>4, <1>5, <1>6 DEF Next, Main

\* The inductive invariant holds in every state of a behaviour.
THEOREM IInvariant == Spec => []IInv
BY InitIInv, NextIInv, PTL DEF Spec

\* The control loop's type invariant (the property TypeOK of the run
\* ControlLoop): the FSM, the queue, the worker and the main thread's
\* place and play_turn timer stay in their ranges.
THEOREM TypeCorrect == Spec => []TypeOK
BY IInvariant, PTL DEF IInv

\* The worker, blocked in get() on an empty queue, has its idle flag set
\* however the main thread's detections, dispatch_action and the two
\* halves of dispatch_if_idle interleave with the worker's steps: the
\* periodic play_turn cannot be skipped for ever for want of the flag.
THEOREM WorkerIdleWhenBlocked == Spec => []D!BlockedWorkerIdle
BY IInvariant, PTL DEF IInv

=============================================================================

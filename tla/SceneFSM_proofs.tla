--------------------------- MODULE SceneFSM_proofs ---------------------------
(***************************************************************************)
(* Proofs about SceneFSM for every value of FSM_CONFIRM_COUNT: the type    *)
(* invariant, the pending bookkeeping invariant PendingInv and the         *)
(* hysteresis property ConfirmedByRun of fsm_update.                       *)
(***************************************************************************)
EXTENDS SceneFSM, TLAPS

\* What the history variables know of a pending candidate: it is the last
\* candidate seen, and it has been seen, in the current state, at least
\* pendingCount times in a row.  This is what makes ConfirmedByRun follow
\* from the counting of fsm_update.
HistInv ==
  pending # None =>
    /\ lastCand = pending
    /\ pendingCount <= run
    /\ pendingCount <= dwell

IInv == TypeOK /\ PendingInv /\ HistInv

\* FSM_TRANSITIONS maps every state to a set of concrete states.
LEMMA TransitionsType ==
  \A s \in States : FSM_TRANSITIONS[s] \subseteq Concrete
BY DEF FSM_TRANSITIONS, States, Concrete, S_UNKNOWN, S_HOME, S_QUEST,
       S_NORMAL_QUEST, S_NORMAL_QUEST_UIJIN, S_NORMAL_QUEST_UIJIN_KARYU,
       S_HELPER_SELECT, S_DECK_SELECT, S_IN_PLAY, S_CLEAR_OK,
       S_SPECIAL_REWARD, S_EVENT, S_REWARD_NEXT

\* The override turns a state into a state.
LEMMA OverrideType ==
  \A st, c \in States : Override(st, c) \in States
BY DEF Override, States, Concrete, S_NORMAL_QUEST

\* The capped counter stays within 0..FSM_CONFIRM_COUNT and never drops
\* below min(n, FSM_CONFIRM_COUNT).
LEMMA CapFacts ==
  ASSUME NEW n \in Nat
  PROVE  /\ Cap(n) \in 0..FSM_CONFIRM_COUNT
         /\ n <= FSM_CONFIRM_COUNT => Cap(n) = n
         /\ n >= FSM_CONFIRM_COUNT => Cap(n) = FSM_CONFIRM_COUNT
BY ConfirmAssumption DEF Cap

\* The initial state satisfies the inductive invariant.
LEMMA InitIInv == Init => IInv
BY ConfirmAssumption DEF Init, FsmInit, HistInit, IInv, TypeOK, PendingInv,
                         HistInv, States

\* One step of fsm_update preserves the inductive invariant.
LEMMA NextIInv == IInv /\ [Next]_vars => (IInv)'
<1> SUFFICES ASSUME IInv, [Next]_vars PROVE IInv'
  OBVIOUS
<1>1. CASE UNCHANGED vars
  BY <1>1 DEF vars, fsmVars, histVars, IInv, TypeOK, PendingInv, HistInv
<1>2. CASE Next
  <2>1. PICK c \in States : FsmUpdate(c)
    BY <1>2 DEF Next
  <2> DEFINE cand == Override(state, c)
  <2>2. cand \in States
    BY OverrideType DEF IInv, TypeOK
  <2>3. /\ state \in States
        /\ pending \in Concrete \cup {None}
        /\ pendingCount \in 0..(FSM_CONFIRM_COUNT - 1)
        /\ lastCand \in States \cup {None}
        /\ run \in 0..FSM_CONFIRM_COUNT
        /\ dwell \in 0..FSM_CONFIRM_COUNT
        /\ FSM_TRANSITIONS[state] \subseteq Concrete
        /\ FSM_CONFIRM_COUNT \in Nat \ {0}
        /\ None \notin States
    BY TransitionsType, ConfirmAssumption, NoneAssumption DEF IInv, TypeOK
  <2>4. /\ lastCand' = cand
        /\ run' = IF lastCand = cand THEN Cap(run + 1) ELSE 1
        /\ dwell' = IF state' # state THEN 0 ELSE Cap(dwell + 1)
    BY <2>1 DEF FsmUpdate, Observe
  <2>5. /\ run' \in 0..FSM_CONFIRM_COUNT
        /\ run' >= 1
        /\ lastCand = cand => run' >= (IF run + 1 <= FSM_CONFIRM_COUNT
                                       THEN run + 1 ELSE FSM_CONFIRM_COUNT)
    BY <2>3, <2>4, CapFacts
  <2>6. state' = state => /\ dwell' \in 1..FSM_CONFIRM_COUNT
                          /\ dwell' >= (IF dwell + 1 <= FSM_CONFIRM_COUNT
                                        THEN dwell + 1 ELSE FSM_CONFIRM_COUNT)
    BY <2>3, <2>4, CapFacts
  <2>7. state' # state => dwell' = 0
    BY <2>4
  <2>8. CASE FsmSame(cand)
    BY <2>2, <2>3, <2>4, <2>5, <2>6, <2>8
    DEF FsmSame, IInv, TypeOK, PendingInv, HistInv
  <2>9. CASE FsmAdvance(cand)
    <3>1. cand # state /\ cand \in FSM_TRANSITIONS[state] /\ cand \in Concrete
      BY <2>3, <2>9 DEF FsmAdvance
    <3> DEFINE n == IF pending = cand THEN pendingCount + 1 ELSE 1
    <3>2. n \in 1..FSM_CONFIRM_COUNT
      BY <2>3 DEF IInv, PendingInv
    <3>3. CASE n >= FSM_CONFIRM_COUNT
      <4>1. state' = cand /\ pending' = None /\ pendingCount' = 0
        BY <2>9, <3>3 DEF FsmAdvance
      <4>2. QED
        BY <4>1, <3>1, <2>2, <2>3, <2>4, <2>5, <2>7
        DEF IInv, TypeOK, PendingInv, HistInv, States
    <3>4. CASE n < FSM_CONFIRM_COUNT
      <4>1. pending' = cand /\ pendingCount' = n /\ state' = state
        BY <2>9, <3>4, <3>2, <2>3 DEF FsmAdvance
      <4>2. pending = cand =>
              /\ lastCand = cand
              /\ pendingCount <= run
              /\ pendingCount <= dwell
        BY <3>1, <2>3 DEF IInv, HistInv, States
      <4>3. QED
        BY <4>1, <4>2, <3>1, <3>2, <3>4, <2>2, <2>3, <2>4, <2>5, <2>6
        DEF IInv, TypeOK, PendingInv, HistInv, States
    <3>5. QED
      BY <3>3, <3>4, <3>2, <2>3
  <2>10. CASE FsmBlocked(cand)
    BY <2>2, <2>3, <2>4, <2>5, <2>6, <2>10
    DEF FsmBlocked, IInv, TypeOK, PendingInv, HistInv
  <2>11. QED
    BY <2>1, <2>8, <2>9, <2>10 DEF FsmUpdate
<1>3. QED
  BY <1>1, <1>2

\* IInv holds in every reachable state.
THEOREM IInvariant == Spec => []IInv
BY InitIInv, NextIInv, PTL DEF Spec

\* The type invariant of the FSM (the property TypeOK of the run SceneFSM).
THEOREM TypeCorrect == Spec => []TypeOK
BY IInvariant, PTL DEF IInv

\* The pending candidate of fsm_update is always a legal, different
\* successor of the current state with a count below FSM_CONFIRM_COUNT
\* (the property PendingInv of the run SceneFSM).
THEOREM PendingSafe == Spec => []PendingInv
BY IInvariant, PTL DEF IInv

\* A step that changes the state is a confirmed transition.
LEMMA StepConfirmed ==
  IInv /\ [Next]_vars =>
    [state' # state =>
       /\ lastCand' = state'
       /\ run' = FSM_CONFIRM_COUNT
       /\ dwell >= FSM_CONFIRM_COUNT - 1]_vars
<1> SUFFICES ASSUME IInv, Next, state' # state
             PROVE  /\ lastCand' = state'
                    /\ run' = FSM_CONFIRM_COUNT
                    /\ dwell >= FSM_CONFIRM_COUNT - 1
  BY DEF vars, fsmVars
<1>1. PICK c \in States : FsmUpdate(c)
  BY DEF Next
<1> DEFINE cand == Override(state, c)
<1>2. /\ pending \in Concrete \cup {None}
      /\ pendingCount \in 0..(FSM_CONFIRM_COUNT - 1)
      /\ run \in 0..FSM_CONFIRM_COUNT
      /\ dwell \in 0..FSM_CONFIRM_COUNT
      /\ FSM_CONFIRM_COUNT \in Nat \ {0}
      /\ pending # None => /\ lastCand = pending
                           /\ pendingCount <= run
                           /\ pendingCount <= dwell
  BY ConfirmAssumption DEF IInv, TypeOK, HistInv
<1>3. /\ lastCand' = cand
      /\ run' = IF lastCand = cand THEN Cap(run + 1) ELSE 1
  BY <1>1 DEF FsmUpdate, Observe
<1>4. ~FsmSame(cand) /\ ~FsmBlocked(cand)
  BY DEF FsmSame, FsmBlocked
<1> DEFINE n == IF pending = cand THEN pendingCount + 1 ELSE 1
<1>5. n >= FSM_CONFIRM_COUNT /\ state' = cand /\ cand \in Concrete
  <2>1. FsmAdvance(cand)
    BY <1>1, <1>4 DEF FsmUpdate
  <2>2. n \in Nat
    BY <1>2
  <2>3. QED
    BY <2>1, <2>2, <1>2, TransitionsType DEF FsmAdvance, IInv, TypeOK
<1>6. CASE pending = cand
  <2>1. pending # None
    BY <1>5, <1>6, NoneAssumption DEF States
  <2>2. lastCand = cand /\ run + 1 >= FSM_CONFIRM_COUNT
        /\ dwell >= FSM_CONFIRM_COUNT - 1
    BY <2>1, <1>2, <1>5, <1>6
  <2>3. QED
    BY <2>2, <1>2, <1>3, <1>5, CapFacts
<1>7. CASE pending # cand
  <2>1. FSM_CONFIRM_COUNT = 1
    BY <1>2, <1>5, <1>7
  <2>2. QED
    BY <2>1, <1>2, <1>3, <1>5, CapFacts
<1>8. QED
  BY <1>6, <1>7

\* Hysteresis of fsm_update (the property ConfirmedByRun of the run
\* SceneFSM): every transition is preceded by FSM_CONFIRM_COUNT consecutive
\* identical candidates evaluated in the state being left.
THEOREM Hysteresis == Spec => ConfirmedByRun
BY IInvariant, StepConfirmed, PTL DEF Spec, ConfirmedByRun

=============================================================================

-------------------------- MODULE Dispatcher_proofs --------------------------
(***************************************************************************)
(* Proofs about Dispatcher for every set of actions and every bound on    *)
(* the dispatches: the type invariant, BlockedWorkerIdle (the fact that   *)
(* keeps dispatch_if_idle from skipping for ever), FifoOrder, and that    *)
(* the threaded dispatcher implements the atomic FIFO AtomicDispatcher.   *)
(***************************************************************************)
EXTENDS Dispatcher, SequenceTheorems, TLAPS

\* Away from get() the worker holds the item it took, an action: this is
\* what makes done a sequence of actions once WorkerRun appends current.
HoldsAction == wpc # "get" => current \in Actions

BaseInv == TypeOK /\ HoldsAction /\ BlockedWorkerIdle

\* The initial state satisfies the invariant without FifoOrder.
LEMMA InitBase == Init => BaseInv
BY DEF Init, DInit, BaseInv, TypeOK, HoldsAction, BlockedWorkerIdle, WorkerPCs

\* Every step of the client and of the worker preserves it.
LEMMA NextBase == BaseInv /\ [Next]_vars => BaseInv'
<1> SUFFICES ASSUME BaseInv, [Next]_vars PROVE BaseInv'
  OBVIOUS
<1> USE DEF BaseInv, TypeOK, HoldsAction, BlockedWorkerIdle, WorkerPCs
<1>1. CASE \E a \in Actions : DispatchAction(a)
  BY <1>1 DEF DispatchAction, Put, CanDispatch
<1>2. CASE \E a \in Actions : DispatchIfIdleCheck(a)
  BY <1>2 DEF DispatchIfIdleCheck, dvars
<1>3. CASE DispatchIfIdlePut
  BY <1>3 DEF DispatchIfIdlePut, Put
<1>4. CASE WorkerRun /\ done' = Append(done, current)
                     /\ UNCHANGED <<ifIdleItem, enqueued>>
  BY <1>4 DEF WorkerRun
<1>5. CASE WorkerGet /\ UNCHANGED <<ifIdleItem, enqueued, done>>
  <2>1. queue # <<>> /\ queue \in Seq(Actions)
    BY <1>5 DEF WorkerGet
  <2>2. Head(queue) \in Actions /\ Tail(queue) \in Seq(Actions)
    BY <2>1
  <2> QED
    BY <1>5, <2>2 DEF WorkerGet
<1>6. CASE WorkerClear /\ UNCHANGED <<ifIdleItem, enqueued, done>>
  BY <1>6 DEF WorkerClear
<1>7. CASE WorkerCheck /\ UNCHANGED <<ifIdleItem, enqueued, done>>
  BY <1>7 DEF WorkerCheck
<1>8. CASE WorkerSet /\ UNCHANGED <<ifIdleItem, enqueued, done>>
  BY <1>8 DEF WorkerSet
<1>9. CASE UNCHANGED vars
  BY <1>9 DEF vars, dvars
<1> QED
  BY <1>1, <1>2, <1>3, <1>4, <1>5, <1>6, <1>7, <1>8, <1>9
  DEF Next, Client, Worker

-----------------------------------------------------------------------------
(* Facts about sequences that the refinement mapping Pending rests on.    *)

\* An item put in front of a sequence is its head, and the rest its tail.
LEMMA ConsHeadTail ==
  ASSUME NEW S, NEW c \in S, NEW q \in Seq(S)
  PROVE  /\ <<c>> \o q \in Seq(S)
         /\ <<c>> \o q # <<>>
         /\ Head(<<c>> \o q) = c
         /\ Tail(<<c>> \o q) = q
<1>1. <<c>> \in Seq(S)
  OBVIOUS
<1>2. /\ <<c>> \o q \in Seq(S)
      /\ Len(<<c>> \o q) = 1 + Len(q)
      /\ \A i \in 1 .. 1 + Len(q) : (<<c>> \o q)[i] = IF i <= 1 THEN c ELSE q[i - 1]
  BY <1>1, ConcatProperties
<1>3. <<c>> \o q # <<>> /\ Head(<<c>> \o q) = c
  BY <1>2
<1>4. Tail(<<c>> \o q) = q
  <2>1. /\ Tail(<<c>> \o q) \in Seq(S)
        /\ Len(Tail(<<c>> \o q)) = Len(q)
        /\ \A i \in 1 .. Len(q) : Tail(<<c>> \o q)[i] = q[i]
    BY <1>2, <1>3, HeadTailProperties
  <2> QED
    BY <2>1, SeqEqual
<1> QED
  BY <1>2, <1>3, <1>4

\* A non-empty sequence is its head put in front of its tail.
LEMMA HeadTailCons ==
  ASSUME NEW S, NEW q \in Seq(S), q # <<>>
  PROVE  <<Head(q)>> \o Tail(q) = q
<1>1. Head(q) \in S /\ Tail(q) \in Seq(S)
  BY HeadTailProperties
<1>2. /\ <<Head(q)>> \o Tail(q) \in Seq(S)
      /\ Len(<<Head(q)>> \o Tail(q)) = Len(q)
      /\ \A i \in 1 .. Len(q) : (<<Head(q)>> \o Tail(q))[i] = q[i]
  BY <1>1, ConcatProperties, HeadTailProperties
<1> QED
  BY <1>2, SeqEqual

\* Appending to a concatenation appends to its second part.
LEMMA AppendConcat ==
  ASSUME NEW S, NEW s \in Seq(S), NEW t \in Seq(S), NEW e \in S
  PROVE  Append(s \o t, e) = s \o Append(t, e)
<1>1. s \o t \in Seq(S) /\ <<e>> \in Seq(S)
  BY ConcatProperties
<1>2. Append(s \o t, e) = (s \o t) \o <<e>> /\ Append(t, e) = t \o <<e>>
  BY <1>1, AppendIsConcat
<1> QED
  BY <1>1, <1>2, ConcatAssociative

\* Moving the front item of the second part to the end of the first.
LEMMA AppendThenConcat ==
  ASSUME NEW S, NEW d \in Seq(S), NEW c \in S, NEW q \in Seq(S)
  PROVE  Append(d, c) \o q = d \o (<<c>> \o q)
<1>1. <<c>> \in Seq(S) /\ Append(d, c) = d \o <<c>>
  BY AppendIsConcat
<1> QED
  BY <1>1, ConcatAssociative

-----------------------------------------------------------------------------
(* How each step moves the pending actions of the refinement mapping.     *)

\* The pending actions are a sequence of actions.
LEMMA PendingType == BaseInv => Pending \in Seq(Actions)
<1> SUFFICES ASSUME BaseInv PROVE Pending \in Seq(Actions)
  OBVIOUS
<1>1. CASE wpc \in {"clear", "run"}
  <2>1. current \in Actions /\ queue \in Seq(Actions)
    BY <1>1 DEF BaseInv, TypeOK, HoldsAction
  <2> QED
    BY <1>1, <2>1, ConsHeadTail DEF Pending
<1>2. CASE wpc \notin {"clear", "run"}
  BY <1>2 DEF Pending, BaseInv, TypeOK
<1> QED
  BY <1>1, <1>2

\* A put, of dispatch_action or dispatch_if_idle, appends to them.
LEMMA PutPending ==
  ASSUME BaseInv, NEW a \in Actions, Put(a)
  PROVE  Pending' = Append(Pending, a)
<1>1. queue \in Seq(Actions) /\ queue' = Append(queue, a)
      /\ wpc' = wpc /\ current' = current
  BY DEF BaseInv, TypeOK, Put
<1>2. CASE wpc \in {"clear", "run"}
  <2>1. current \in Actions
    BY <1>2 DEF BaseInv, HoldsAction
  <2> QED
    BY <1>1, <1>2, <2>1, AppendConcat DEF Pending
<1>3. CASE wpc \notin {"clear", "run"}
  BY <1>1, <1>3 DEF Pending
<1> QED
  BY <1>2, <1>3

\* get() moves the head of the queue into the worker's hands: nothing
\* stops being pending.
LEMMA GetPending ==
  ASSUME BaseInv, WorkerGet
  PROVE  Pending' = Pending
<1>1. queue \in Seq(Actions) /\ queue # <<>> /\ wpc = "get" /\ wpc' = "clear"
  BY DEF BaseInv, TypeOK, WorkerGet
<1>2. Pending' = <<Head(queue)>> \o Tail(queue)
  BY <1>1 DEF WorkerGet, Pending
<1> QED
  BY <1>1, <1>2, HeadTailCons DEF Pending

\* The worker's run of the action it holds runs the oldest pending one.
LEMMA RunPending ==
  ASSUME BaseInv, WorkerRun
  PROVE  /\ Pending # <<>>
         /\ Head(Pending) = current
         /\ Pending' = Tail(Pending)
<1>1. /\ current \in Actions /\ queue \in Seq(Actions)
      /\ Pending = <<current>> \o queue /\ Pending' = queue
  BY DEF BaseInv, TypeOK, HoldsAction, WorkerRun, Pending
<1> QED
  BY <1>1, ConsHeadTail

\* The worker's other lines, and the flag test, leave them alone.
LEMMA OtherPending ==
  ASSUME WorkerClear \/ WorkerCheck \/ WorkerSet \/ UNCHANGED dvars
  PROVE  Pending' = Pending
BY DEF WorkerClear, WorkerCheck, WorkerSet, dvars, Pending


-----------------------------------------------------------------------------
(* FifoOrder, and the refinement of the atomic FIFO.                      *)

IInv == BaseInv /\ FifoOrder

\* The initial state satisfies the inductive invariant.
LEMMA InitIInv == Init => IInv
<1> SUFFICES ASSUME Init PROVE IInv
  OBVIOUS
<1>1. BaseInv
  BY InitBase
<1>2. Pending = <<>> /\ enqueued = <<>> /\ done = <<>>
  BY DEF Init, DInit, Pending
<1>3. <<>> \o <<>> = <<>>
  BY ConcatEmptySeq
<1> QED
  BY <1>1, <1>2, <1>3 DEF IInv, FifoOrder, A!FifoConserved

\* A put keeps the actions put equal to those run, then those pending.
LEMMA PutFifo ==
  ASSUME BaseInv, FifoOrder, NEW a \in Actions,
         Pending' = Append(Pending, a),
         enqueued' = Append(enqueued, a), done' = done
  PROVE  enqueued' = done' \o Pending'
<1>1. Pending \in Seq(Actions) /\ done \in Seq(Actions)
      /\ enqueued = done \o Pending
  BY PendingType DEF FifoOrder, A!FifoConserved, BaseInv, TypeOK
<1>2. /\ Append(done \o Pending, a) = (done \o Pending) \o <<a>>
      /\ Append(Pending, a) = Pending \o <<a>>
  BY <1>1, AppendIsConcat, ConcatProperties
<1>3. Append(done \o Pending, a) = done \o Append(Pending, a)
  BY <1>1, <1>2, ConcatAssociative
<1> QED
  BY <1>1, <1>3

\* Every step keeps the actions put equal to those run, then those pending.
LEMMA NextFifo == IInv /\ [Next]_vars => FifoOrder'
<1> SUFFICES ASSUME IInv, [Next]_vars
             PROVE  enqueued' = done' \o Pending'
  BY DEF FifoOrder, A!FifoConserved
<1>1. /\ BaseInv
      /\ enqueued = done \o Pending
      /\ Pending \in Seq(Actions) /\ done \in Seq(Actions)
  BY PendingType DEF IInv, FifoOrder, A!FifoConserved, BaseInv, TypeOK
<1>3. CASE \E a \in Actions : DispatchAction(a)
  <2>1. PICK a \in Actions : DispatchAction(a)
    BY <1>3
  <2>2. Pending' = Append(Pending, a)
    BY <1>1, <2>1, PutPending DEF DispatchAction
  <2> QED
    BY <1>1, <2>1, <2>2, PutFifo DEF DispatchAction, IInv
<1>4. CASE DispatchIfIdlePut
  <2>1. ifIdleItem \in Actions
    BY <1>1, <1>4 DEF DispatchIfIdlePut, BaseInv, TypeOK
  <2>2. Pending' = Append(Pending, ifIdleItem)
    BY <1>1, <1>4, <2>1, PutPending DEF DispatchIfIdlePut
  <2> QED
    BY <1>1, <1>4, <2>1, <2>2, PutFifo DEF DispatchIfIdlePut, IInv
<1>5. CASE WorkerRun /\ done' = Append(done, current)
                     /\ UNCHANGED <<ifIdleItem, enqueued>>
  <2>1. Pending # <<>> /\ Head(Pending) = current /\ Pending' = Tail(Pending)
    BY <1>1, <1>5, RunPending
  <2>2. current \in Actions /\ Tail(Pending) \in Seq(Actions)
    BY <1>1, <2>1, HeadTailProperties
  <2>3. Pending = <<current>> \o Tail(Pending)
    BY <1>1, <2>1, HeadTailCons
  <2> QED
    BY <1>1, <1>5, <2>1, <2>2, <2>3, AppendThenConcat
<1>6. CASE \/ \E a \in Actions : DispatchIfIdleCheck(a)
           \/ /\ WorkerGet \/ WorkerClear \/ WorkerCheck \/ WorkerSet
              /\ UNCHANGED <<ifIdleItem, enqueued, done>>
           \/ UNCHANGED vars
  <2>1. Pending' = Pending /\ UNCHANGED <<enqueued, done>>
    BY <1>1, <1>6, GetPending, OtherPending DEF DispatchIfIdleCheck, vars
  <2> QED
    BY <1>1, <2>1
<1> QED
  BY <1>3, <1>4, <1>5, <1>6 DEF Next, Client, Worker

\* Every step of the threaded dispatcher is a step of the atomic FIFO under
\* the mapping Pending, or leaves the FIFO's state as it was.
LEMMA NextRefines == IInv /\ [Next]_vars => [A!Next]_A!avars
<1> SUFFICES ASSUME IInv, [Next]_vars PROVE [A!Next]_A!avars
  OBVIOUS
<1>1. BaseInv
  BY DEF IInv
<1>2. CASE \E a \in Actions : DispatchAction(a)
  <2>1. PICK a \in Actions : DispatchAction(a)
    BY <1>2
  <2>2. Pending' = Append(Pending, a)
    BY <1>1, <2>1, PutPending DEF DispatchAction
  <2> QED
    BY <2>1, <2>2 DEF DispatchAction, A!Next, A!Enqueue
<1>3. CASE DispatchIfIdlePut
  <2>1. ifIdleItem \in Actions
    BY <1>1, <1>3 DEF DispatchIfIdlePut, BaseInv, TypeOK
  <2>2. Pending' = Append(Pending, ifIdleItem)
    BY <1>1, <1>3, <2>1, PutPending DEF DispatchIfIdlePut
  <2> QED
    BY <1>3, <2>1, <2>2 DEF DispatchIfIdlePut, A!Next, A!Enqueue
<1>4. CASE WorkerRun /\ done' = Append(done, current)
                     /\ UNCHANGED <<ifIdleItem, enqueued>>
  <2>1. Pending # <<>> /\ Head(Pending) = current /\ Pending' = Tail(Pending)
    BY <1>1, <1>4, RunPending
  <2> QED
    BY <1>4, <2>1 DEF A!Next, A!Run
<1>5. CASE \/ \E a \in Actions : DispatchIfIdleCheck(a)
           \/ /\ WorkerGet \/ WorkerClear \/ WorkerCheck \/ WorkerSet
              /\ UNCHANGED <<ifIdleItem, enqueued, done>>
           \/ UNCHANGED vars
  <2>1. Pending' = Pending /\ UNCHANGED <<enqueued, done>>
    BY <1>1, <1>5, GetPending, OtherPending DEF DispatchIfIdleCheck, vars
  <2> QED
    BY <2>1 DEF A!avars
<1> QED
  BY <1>2, <1>3, <1>4, <1>5 DEF Next, Client, Worker

\* The inductive invariant holds in every state of a behaviour.
THEOREM IInvariant == Spec => []IInv
<1>1. Init => IInv
  BY InitIInv
<1>2. IInv /\ [Next]_vars => IInv'
  BY NextBase, NextFifo DEF IInv
<1> QED
  BY <1>1, <1>2, PTL DEF Spec

\* The dispatcher's type invariant (the property TypeOK of the run
\* Dispatcher): queue, history and the worker's item are always actions.
THEOREM TypeCorrect == Spec => []TypeOK
BY IInvariant, PTL DEF IInv, BaseInv

\* A worker blocked in get() on an empty queue has set its idle flag, for
\* every interleaving of dispatch_action, dispatch_if_idle and the worker
\* (the property BlockedWorkerIdle of the run Dispatcher).
THEOREM WorkerIdleWhenBlocked == Spec => []BlockedWorkerIdle
BY IInvariant, PTL DEF IInv, BaseInv

\* No action dispatched is lost, run twice or run out of order, however
\* the puts of the main thread and the worker's get, run, empty test and
\* set interleave (the property FifoOrder of the run Dispatcher).
THEOREM FifoPreserved == Spec => []FifoOrder
BY IInvariant, PTL DEF IInv

\* The threaded dispatcher of scene.py implements the atomic FIFO of
\* AtomicDispatcher (the property ImplementsAtomic of the run Dispatcher):
\* its initial state is the FIFO's, each put is an Enqueue, the worker's
\* run is the FIFO's Run of the oldest action, and every other step of
\* either thread is a stutter of the FIFO.
THEOREM Implementation == Spec => ImplementsAtomic
<1>1. Init => A!Init
  BY DEF Init, DInit, Pending, A!Init
<1>2. IInv /\ [Next]_vars => [A!Next]_A!avars
  BY NextRefines
<1> QED
  BY <1>1, <1>2, IInvariant, PTL DEF Spec, ImplementsAtomic, A!Spec

=============================================================================

----------------------------- MODULE Dispatcher -----------------------------
(***************************************************************************)
(* The HID action dispatcher of scene-detect/scene.py: the FIFO           *)
(* _action_queue, the threading.Event _worker_idle and the daemon thread  *)
(* _action_worker, with the two enqueue operations the control loop uses, *)
(* dispatch_action and dispatch_if_idle.  Each line of the worker loop    *)
(* that touches shared state is a step of its own, so that the control    *)
(* loop interleaves between them as the interpreter lets it; the action   *)
(* itself runs as one step (module ControlLoop says what it does).        *)
(***************************************************************************)
EXTENDS Naturals, Sequences

CONSTANTS Actions,       \* names of the HID actions that can be queued
          NoItem,        \* no dispatch_if_idle in progress
          MaxDispatch    \* bound on the dispatches of one behaviour

ASSUME DispatcherAssumption ==
  /\ NoItem \notin Actions
  /\ MaxDispatch \in Nat

VARIABLES queue,       \* _action_queue (queue.Queue, unbounded)
          idle,        \* _worker_idle.is_set()
          wpc,         \* the worker's place in _action_worker
          current,     \* action_name, the item the worker took last
          ifIdleItem,  \* dispatch_if_idle saw the flag set, put pending
          enqueued,    \* history: every action put, in order
          done         \* history: every action the worker ran, in order

\* The state of the code, shared by the control loop and the worker.
dvars == <<queue, idle, wpc, current>>
vars  == <<dvars, ifIdleItem, enqueued, done>>

\* The worker's places: blocked in get(), between get() and clear(),
\* running the action, at task_done()/empty(), and before set().
WorkerPCs == {"get", "clear", "run", "check", "set"}

DInit ==
  /\ queue = <<>>
  /\ idle = TRUE                  \* _worker_idle.set() at import
  /\ wpc = "get"
  /\ current = NoItem

Init ==
  /\ DInit
  /\ ifIdleItem = NoItem
  /\ enqueued = <<>>
  /\ done = <<>>

-----------------------------------------------------------------------------
(* The operations on the code's state.  They leave the history variables  *)
(* to the specification that uses them.                                   *)

\* _action_queue.put((action_name, hid_args)) from the control loop.
Put(a) ==
  /\ queue' = Append(queue, a)
  /\ UNCHANGED <<idle, wpc, current>>

\* Mutant: a LIFO queue (queue.LifoQueue) in place of the FIFO one.
WorkerGetLifo ==
  /\ wpc = "get"
  /\ queue # <<>>
  /\ current' = queue[Len(queue)]
  /\ queue' = SubSeq(queue, 1, Len(queue) - 1)
  /\ wpc' = "clear"
  /\ UNCHANGED idle

\* action_name, hid_args = _action_queue.get(): blocks while empty.
WorkerGet ==
  /\ wpc = "get"
  /\ queue # <<>>
  /\ current' = Head(queue)
  /\ queue' = Tail(queue)
  /\ wpc' = "clear"
  /\ UNCHANGED idle

\* _worker_idle.clear()
WorkerClear ==
  /\ wpc = "clear"
  /\ idle' = FALSE
  /\ wpc' = "run"
  /\ UNCHANGED <<queue, current>>

\* hid.ACTIONS[action_name](hid_args) inside try/except: the action runs to
\* its end or raises; either way the exception is caught and the loop goes
\* on, so both outcomes lead to the same dispatcher state.
WorkerRun ==
  /\ wpc = "run"
  /\ wpc' = "check"
  /\ UNCHANGED <<queue, idle, current>>

\* Mutant: the dropped set() when the queue is found empty.
WorkerCheckNoSet ==
  /\ wpc = "check"
  /\ wpc' = "get"
  /\ UNCHANGED <<queue, idle, current>>

\* _action_queue.task_done(); if _action_queue.empty(): ...
WorkerCheck ==
  /\ wpc = "check"
  /\ wpc' = IF queue = <<>> THEN "set" ELSE "get"
  /\ UNCHANGED <<queue, idle, current>>

\* Mutant: the worker loop left after the idle flag is set.
WorkerSetExits ==
  /\ wpc = "set"
  /\ idle' = TRUE
  /\ UNCHANGED <<queue, wpc, current>>

\* _worker_idle.set()
WorkerSet ==
  /\ wpc = "set"
  /\ idle' = TRUE
  /\ wpc' = "get"
  /\ UNCHANGED <<queue, current>>

-----------------------------------------------------------------------------
(* A client that dispatches any action, at most MaxDispatch times, and     *)
(* records what is put and what is run.                                   *)

CanDispatch == Len(enqueued) < MaxDispatch

\* Mutant: a fast path that runs the action on the caller's thread when
\* the idle flag is set, instead of putting it.
DispatchActionInline(a) ==
  /\ ifIdleItem = NoItem
  /\ CanDispatch
  /\ IF idle
       THEN /\ done' = Append(done, a)
            /\ UNCHANGED dvars
       ELSE /\ Put(a)
            /\ UNCHANGED done
  /\ enqueued' = Append(enqueued, a)
  /\ UNCHANGED ifIdleItem

\* dispatch_action: an unconditional put.
DispatchAction(a) ==
  /\ ifIdleItem = NoItem
  /\ CanDispatch
  /\ Put(a)
  /\ enqueued' = Append(enqueued, a)
  /\ UNCHANGED <<ifIdleItem, done>>

\* dispatch_if_idle, first half: _worker_idle.is_set() is read.  When it is
\* clear the call only logs "skip (busy)", a step that changes nothing.
DispatchIfIdleCheck(a) ==
  /\ ifIdleItem = NoItem
  /\ CanDispatch
  /\ idle
  /\ ifIdleItem' = a
  /\ UNCHANGED <<dvars, enqueued, done>>

\* dispatch_if_idle, second half: the put, made on the strength of the flag
\* read before it.
DispatchIfIdlePut ==
  /\ ifIdleItem # NoItem
  /\ Put(ifIdleItem)
  /\ enqueued' = Append(enqueued, ifIdleItem)
  /\ ifIdleItem' = NoItem
  /\ UNCHANGED done

Client ==
  \/ \E a \in Actions : DispatchAction(a) \/ DispatchIfIdleCheck(a)
  \/ DispatchIfIdlePut

\* The worker's steps, with the record of the actions it runs.
Worker ==
  \/ /\ WorkerRun
     /\ done' = Append(done, current)
     /\ UNCHANGED <<ifIdleItem, enqueued>>
  \/ /\ WorkerGet \/ WorkerClear \/ WorkerCheck \/ WorkerSet
     /\ UNCHANGED <<ifIdleItem, enqueued, done>>

Next == Client \/ Worker

\* The worker is a daemon thread that the interpreter keeps scheduling:
\* each of its steps, once enabled, is eventually taken.  The client gets
\* no fairness: the control loop dispatches only when the screen changes.
Fairness ==
  /\ WF_dvars(WorkerGet)
  /\ WF_dvars(WorkerClear)
  /\ WF_dvars(WorkerRun)
  /\ WF_dvars(WorkerCheck)
  /\ WF_dvars(WorkerSet)

Spec == Init /\ [][Next]_vars /\ Fairness

-----------------------------------------------------------------------------
(* The refinement mapping to AtomicDispatcher: the item the worker has    *)
(* taken with get() is pending until its action has run.                 *)

Pending == IF wpc \in {"clear", "run"} THEN <<current>> \o queue ELSE queue

A == INSTANCE AtomicDispatcher WITH pending <- Pending

-----------------------------------------------------------------------------
\* Type invariant.
TypeOK ==
  /\ queue \in Seq(Actions)
  /\ idle \in BOOLEAN
  /\ wpc \in WorkerPCs
  /\ current \in Actions \cup {NoItem}
  /\ ifIdleItem \in Actions \cup {NoItem}
  /\ enqueued \in Seq(Actions)
  /\ done \in Seq(Actions)

\* A worker blocked in get() on an empty queue has its idle flag set.  If it
\* did not, dispatch_if_idle would skip for ever and the periodic play_turn
\* of IN-PLAY would never be queued again.  It rests on the order of the
\* worker's last steps: empty() is tested after the action, and set()
\* follows whenever the test succeeds.
BlockedWorkerIdle ==
  (wpc = "get" /\ queue = <<>>) => idle

\* The threaded dispatcher implements the atomic FIFO: every put of
\* dispatch_action and dispatch_if_idle appends to the pending actions,
\* the worker's run of the action it took is the atomic run of the oldest
\* one, and its other lines (get, clear, the empty test, set) and the flag
\* test of dispatch_if_idle change nothing the control loop can tell.
ImplementsAtomic == A!Spec

\* No action is lost, run twice or run out of order (the invariant of the
\* atomic FIFO, of the threaded dispatcher's state): the actions run, then
\* the one the worker holds, then the queue, are the actions put.
FifoOrder == A!FifoConserved

\* Every dispatched action eventually runs, and the k-th action to run is
\* the k-th one dispatched: the worker survives failing actions and drains
\* the FIFO in order.
AllDispatchedRun ==
  \A k \in 1..MaxDispatch :
    (Len(enqueued) >= k) ~> (Len(done) >= k /\ done[k] = enqueued[k])

=============================================================================

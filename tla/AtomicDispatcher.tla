-------------------------- MODULE AtomicDispatcher --------------------------
(***************************************************************************)
(* What the dispatcher of scene-detect/scene.py promises the control loop, *)
(* with the worker's lines collapsed: an unbounded FIFO of pending HID     *)
(* actions, to which dispatch_action and dispatch_if_idle append, and from *)
(* which the worker runs the oldest in one atomic step.  The history of    *)
(* what was put and what was run is kept to state the promise.  Module     *)
(* Dispatcher implements it under the mapping Dispatcher!Pending.          *)
(***************************************************************************)
EXTENDS Sequences

CONSTANT Actions

VARIABLES pending,   \* the actions put and not yet run, oldest first
          enqueued,  \* every action put, in order
          done       \* every action run, in order

avars == <<pending, enqueued, done>>

Init ==
  /\ pending = <<>>
  /\ enqueued = <<>>
  /\ done = <<>>

\* _action_queue.put: the action joins the end of the FIFO.
Enqueue(a) ==
  /\ pending' = Append(pending, a)
  /\ enqueued' = Append(enqueued, a)
  /\ UNCHANGED done

\* The worker takes the oldest pending action and runs it.
Run ==
  /\ pending # <<>>
  /\ done' = Append(done, Head(pending))
  /\ pending' = Tail(pending)
  /\ UNCHANGED enqueued

Next == (\E a \in Actions : Enqueue(a)) \/ Run

Spec == Init /\ [][Next]_avars

-----------------------------------------------------------------------------
\* Nothing is lost, duplicated or reordered: the actions run so far, then
\* the ones pending, are exactly the actions put, in the order put.
FifoConserved == enqueued = done \o pending

=============================================================================

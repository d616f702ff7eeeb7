\* The bound on dispatches ends the control loop's part of a behaviour; the
\* worker then blocks in get() on the empty queue, as the daemon thread does
\* when nothing is dispatched, so a final state is not an error here.
CONSTANTS
  a1 = a1
  a2 = a2
  NoItem = NoItem
  Actions <- MC_Actions
  MaxDispatch <- MC_MaxDispatch
SPECIFICATION Spec
CHECK_DEADLOCK FALSE
INVARIANTS
  BlockedWorkerIdle
  FifoOrder
PROPERTIES
  ImplementsAtomic
  AllDispatchedRun

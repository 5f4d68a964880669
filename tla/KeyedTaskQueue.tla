--------------------------- MODULE KeyedTaskQueue ---------------------------
(***************************************************************************)
(* server/connectors/keyed-task-queue.js as a state machine: callers       *)
(* enqueue, the event loop begins the body of a task in a later microtask  *)
(* than the one that made it current, bodies end, and close() cancels the  *)
(* waiting tasks and waits for the running ones or for its timeout.        *)
(***************************************************************************)
EXTENDS KeyedTaskQueueOps

VARIABLES
    q,          \* the queue record of KeyedTaskQueueOps
    began,      \* running tasks whose body has begun
    closing,    \* where the call of close() stands
    timedOut    \* what close() reported

vars == <<q, began, closing, timedOut>>

ASSUME QueueAssumption ==
    /\ NoTask \notin Ids
    /\ Capacity \in Nat \ {0}

TypeOK ==
    /\ q \in Queue
    /\ q.active \in Nat
    /\ q.queued \in Nat
    /\ began \in SUBSET Ids
    /\ closing \in {"open", "waiting", "returned"}
    /\ timedOut \in BOOLEAN

Init ==
    /\ q = EmptyQueue
    /\ began = {}
    /\ closing = "open"
    /\ timedOut = FALSE

Running(k) == q.lanes[k].running

EnqueueTask(k, id) ==
    /\ CanEnqueue(q, id)
    /\ q' = Enqueue(q, k, id)
    /\ UNCHANGED <<began, closing, timedOut>>

\* The microtask that startNext scheduled calls the task.
BeginTask(k) ==
    /\ Running(k) # NoTask
    /\ Running(k) \notin began
    /\ began' = began \cup {Running(k)}
    /\ UNCHANGED <<q, closing, timedOut>>

\* A body settles, with a value or an error; the lane starts its next task,
\* and when nothing is left the waiters of close() are resolved.
EndTask(k) ==
    /\ Running(k) # NoTask
    /\ Running(k) \in began
    /\ began' = began \ {Running(k)}
    /\ q' = Finish(q, k)
    /\ closing' = IF closing = "waiting" /\ IsIdle(q') THEN "returned" ELSE closing
    /\ UNCHANGED timedOut

Close(cancelPending) ==
    /\ closing = "open"
    /\ q' = IF cancelPending THEN CancelWaiting(StopAccepting(q)) ELSE StopAccepting(q)
    /\ closing' = IF IsIdle(q') THEN "returned" ELSE "waiting"
    /\ UNCHANGED <<began, timedOut>>

\* Mutant: the timer is armed only when tasks are queued.
CloseTimesOutIfQueued ==
    /\ closing = "waiting"
    /\ q.queued > 0
    /\ closing' = "returned"
    /\ timedOut' = TRUE
    /\ UNCHANGED <<q, began>>

CloseTimesOut ==
    /\ closing = "waiting"
    /\ closing' = "returned"
    /\ timedOut' = TRUE
    /\ UNCHANGED <<q, began>>

Next ==
    \/ \E k \in Keys, id \in Ids : EnqueueTask(k, id)
    \/ \E k \in Keys : BeginTask(k) \/ EndTask(k)
    \/ \E cancelPending \in BOOLEAN : Close(cancelPending)
    \/ CloseTimesOut

Spec == Init /\ [][Next]_vars

\* Microtasks run and task bodies settle: each await in the bodies the worker
\* enqueues has a timeout of its own.
TasksSettle == \A k \in Keys : WF_vars(BeginTask(k)) /\ WF_vars(EndTask(k))

-----------------------------------------------------------------------------
(***************************************************************************)
(* Properties.                                                             *)
(***************************************************************************)

HeldIds(k) == Waiting(q.lanes[k]) \cup ({Running(k)} \ {NoTask})

\* The two counters, the set of ids and the lanes, four places the code
\* updates separately, always tell the same story: the counters are the
\* numbers of running and queued entries, an id is registered exactly while
\* one entry holds it, and no lane with queued work is left without a
\* running task.
Bookkeeping ==
    /\ q.active = Cardinality({k \in Keys : Running(k) # NoTask})
    /\ q.queued = Cardinality(Entries(q))
    /\ q.pendingIds = UNION {HeldIds(k) : k \in Keys}
    /\ Pending(q) = Cardinality(q.pendingIds)
    /\ \A k \in Keys : Running(k) = NoTask => q.lanes[k].waiting = <<>>

\* close() reports a clean stop only when no task is running or queued, and
\* it stays so: nothing can begin executing after a clean return.
CleanCloseIsQuiet ==
    closing = "returned" /\ ~timedOut => IsIdle(q) /\ began = {}

\* The queue never holds more tasks than its capacity, however enqueues,
\* completions and the close interleave.
WithinCapacity == Pending(q) <= Capacity

\* What holds of the queue at every moment, with the types.
QueueInv == TypeOK /\ Bookkeeping /\ CleanCloseIsQuiet /\ WithinCapacity

\* The queue implements serial lanes: per key, tasks run in the order they
\* were accepted, one at a time, each exactly once unless close drops it.
Line(k) ==
    IF Running(k) = NoTask THEN q.lanes[k].waiting
    ELSE <<Running(k)>> \o q.lanes[k].waiting

Lanes == INSTANCE SerialLanes WITH
    line    <- [k \in Keys |-> Line(k)],
    started <- began,
    open    <- q.accepting

ImplementsSerialLanes == Lanes!Spec

\* Every accepted task is run to its end or canceled: no lane gets stuck
\* behind a task that failed, and none is forgotten, provided tasks settle.
AcceptedTasksLeave ==
    TasksSettle => \A id \in Ids : id \in q.pendingIds ~> id \notin q.pendingIds

\* A call of close() returns even if a task never settles.
CloseReturns == closing # "open" ~> closing = "returned"
=============================================================================

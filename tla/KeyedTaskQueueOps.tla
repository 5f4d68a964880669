------------------------- MODULE KeyedTaskQueueOps -------------------------
(***************************************************************************)
(* The data structure of server/connectors/keyed-task-queue.js: one FIFO   *)
(* lane per key, at most one running task per lane, a bound on the tasks   *)
(* held, and a set of ids that rejects duplicates.                         *)
(*                                                                         *)
(* A queue is a record, and each operator is what one synchronous stretch  *)
(* of the code does to it.  Tasks are named by their id, which the only    *)
(* caller (dispatchCommands) always passes.  A lane the code deletes from  *)
(* its map is an EmptyLane here; the completed, failed and canceled        *)
(* statistics are left out.                                                *)
(***************************************************************************)
EXTENDS Integers, Sequences, FiniteSets

CONSTANTS
    Ids,        \* task ids
    Keys,       \* lane keys
    NoTask,     \* "this lane runs nothing"
    Capacity    \* maxPending

Lane == [running : Ids \cup {NoTask}, waiting : Seq(Ids)]

EmptyLane == [running |-> NoTask, waiting |-> <<>>]

Queue == [ accepting  : BOOLEAN,
           active     : Int,
           queued     : Int,
           pendingIds : SUBSET Ids,
           lanes      : [Keys -> Lane] ]

EmptyQueue ==
    [ accepting  |-> TRUE,
      active     |-> 0,
      queued     |-> 0,
      pendingIds |-> {},
      lanes      |-> [k \in Keys |-> EmptyLane] ]

Pending(q) == q.active + q.queued

\* Mutant: running tasks are forgotten.
NothingQueued(q) == q.queued = 0

IsIdle(q) == q.active = 0 /\ q.queued = 0

Waiting(lane) == {lane.waiting[i] : i \in DOMAIN lane.waiting}

\* Every queued entry of every lane.
Entries(q) == UNION {{k} \X DOMAIN q.lanes[k].waiting : k \in Keys}

\* Mutants: a lane that does not wait for its running task, and one that
\* takes the newest entry first.
StartNextAlways(q, k) ==
    LET lane == q.lanes[k] IN
    IF lane.waiting = <<>>
    THEN q
    ELSE [q EXCEPT !.queued   = @ - 1,
                   !.active   = @ + 1,
                   !.lanes[k] = [ running |-> Head(lane.waiting),
                                  waiting |-> Tail(lane.waiting) ]]

StartNewest(q, k) ==
    LET lane == q.lanes[k]
        last == Len(lane.waiting)
    IN
    IF lane.running # NoTask \/ last = 0
    THEN q
    ELSE [q EXCEPT !.queued   = @ - 1,
                   !.active   = @ + 1,
                   !.lanes[k] = [ running |-> lane.waiting[last],
                                  waiting |-> SubSeq(lane.waiting, 1, last - 1) ]]

StartNext(q, k) ==
    LET lane == q.lanes[k] IN
    IF lane.running # NoTask \/ lane.waiting = <<>>
    THEN q
    ELSE [q EXCEPT !.queued   = @ - 1,
                   !.active   = @ + 1,
                   !.lanes[k] = [ running |-> Head(lane.waiting),
                                  waiting |-> Tail(lane.waiting) ]]

CanEnqueue(q, id) ==
    /\ q.accepting
    /\ Pending(q) < Capacity
    /\ id \notin q.pendingIds

Enqueue(q, k, id) ==
    StartNext([q EXCEPT !.lanes[k].waiting = Append(@, id),
                        !.queued           = @ + 1,
                        !.pendingIds       = @ \cup {id}], k)

\* Mutants: the id stays registered, and the lane is not restarted.
FinishKeepingId(q, k) ==
    StartNext([q EXCEPT !.active           = @ - 1,
                        !.lanes[k].running = NoTask], k)

FinishOnly(q, k) ==
    [q EXCEPT !.active           = @ - 1,
              !.pendingIds       = @ \ {q.lanes[k].running},
              !.lanes[k].running = NoTask]

\* The finally block of a task: its lane is free for the next one.
Finish(q, k) ==
    StartNext([q EXCEPT !.active           = @ - 1,
                        !.pendingIds       = @ \ {q.lanes[k].running},
                        !.lanes[k].running = NoTask], k)

StopAccepting(q) == [q EXCEPT !.accepting = FALSE]

CancelWaiting(q) ==
    [q EXCEPT !.queued     = @ - Cardinality(Entries(q)),
              !.pendingIds = @ \ UNION {Waiting(q.lanes[k]) : k \in Keys},
              !.lanes      = [k \in Keys |-> [q.lanes[k] EXCEPT !.waiting = <<>>]]]
=============================================================================

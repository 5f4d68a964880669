----------------------------- MODULE WorkerLoops -----------------------------
(***************************************************************************)
(* The two loops of server/connector-worker.js together, from start to     *)
(* shutdown: the poller finds stored commands, their tasks run in the      *)
(* queue, a completed command whose immediate audit fails asks the         *)
(* recovery scheduler for a pass, and shutdown() stops poller, queue and   *)
(* scheduler one after the other.                                          *)
(*                                                                         *)
(* The poller is WakeablePoller, the scheduler the instance Recovery.  A   *)
(* task is only its beginning and end (CommandPipeline has the rest), and  *)
(* commands whose immediate audit succeeds are not followed further.       *)
(***************************************************************************)
EXTENDS WakeablePoller

CONSTANTS
    Capacity,       \* maxPending of the queue
    PollLimit,      \* the most commands a poll reads, 20
    PageLimit,      \* limit of flushPendingTerminalCommandAudits
    Former          \* commands of a former worker whose audits may be owed

ASSUME LoopsAssumption ==
    /\ {Capacity, PollLimit, PageLimit} \subseteq Nat \ {0}
    /\ Former \subseteq Items

VARIABLES
    recoveryStarted, recoveryStopped, recoveryRun, page, nextDelay,
    recoveryRerun, timer, recoveryStop, owed, written, asked,
    phase,      \* how far main() or shutdown() has come
    executing,  \* commands with a task in the queue
    auditing    \* completed commands whose immediate audit has not failed yet

recovery == <<recoveryStarted, recoveryStopped, recoveryRun, page, nextDelay,
              recoveryRerun, timer, recoveryStop, owed, written, asked>>
tasks    == <<executing, auditing>>
all      == <<vars, recovery, phase, tasks>>

Recovery == INSTANCE RecoveryScheduler WITH
    Audits  <- Items,
    started <- recoveryStarted,
    stopped <- recoveryStopped,
    run     <- recoveryRun,
    rerun   <- recoveryRerun,
    stop    <- recoveryStop

LoopsInit ==
    /\ Init
    /\ Recovery!Init
    /\ owed \in SUBSET Former
    /\ phase = "booting"
    /\ executing = {}
    /\ auditing = {}

-----------------------------------------------------------------------------
(* main() starts the scheduler, awaits its first pass, starts the poller   *)
(* and awaits its first poll, which is not told apart from those that      *)
(* follow it; only then can a signal shut the worker down.                 *)

StartRecovery ==
    /\ phase = "booting"
    /\ Recovery!Start
    /\ phase' = "recovering"
    /\ UNCHANGED <<vars, tasks>>

StartPoller ==
    /\ phase = "recovering"
    /\ recoveryRun = "none"
    /\ Start
    /\ phase' = "polling"
    /\ UNCHANGED <<recovery, tasks>>

Ready ==
    /\ phase = "polling"
    /\ phase' = "ready"
    /\ UNCHANGED <<vars, recovery, tasks>>

-----------------------------------------------------------------------------
(* The loops.                                                              *)

\* A command is stored; its id is new.
StoreCommand(i) ==
    /\ i \notin owed \cup written \cup executing \cup auditing
    /\ Store(i)
    /\ UNCHANGED <<recovery, phase, tasks>>

\* Most steps of a loop change nothing else.
PollerAlone(step) == step /\ UNCHANGED <<recovery, phase, tasks>>

RecoveryAlone(step) == step /\ UNCHANGED <<vars, phase, tasks>>

QueueOpen == phase \in {"booting", "recovering", "polling", "ready", "stopping poller"}

\* Mutant: the tasks in the queue are not counted.
RoomOfEmptyQueue == IF PollLimit < Capacity THEN PollLimit ELSE Capacity

\* The commands a poll that begins now may read.
Room ==
    LET free == Capacity - Cardinality(executing) IN IF PollLimit < free THEN PollLimit ELSE free

\* dispatchCommands: without room nothing is read.  What the query finds is
\* put into the queue, which may have emptied further meanwhile.
BeginPoll ==
    /\ IF Room > 0 THEN PollBegins(Room) ELSE PollSkips
    /\ UNCHANGED <<recovery, phase, tasks>>

Dispatch ==
    /\ \E batch \in SUBSET stored :
          /\ PollReads(batch)
          /\ executing' = IF QueueOpen THEN executing \cup batch ELSE executing
    /\ UNCHANGED <<recovery, phase, auditing>>

\* A task completes its command: the audit is owed and written at once ...
Complete(i) ==
    /\ phase # "exited"
    /\ i \in executing
    /\ executing' = executing \ {i}
    /\ auditing' = auditing \cup {i}
    /\ Recovery!Owe(i)
    /\ UNCHANGED <<vars, phase>>

\* ... or cannot be: onAuditDeferred asks for a pass, if one may still run.
Defer(i) ==
    /\ phase # "exited"
    /\ i \in auditing
    /\ auditing' = auditing \ {i}
    /\ IF recoveryStarted /\ ~recoveryStopped THEN Recovery!Request ELSE UNCHANGED recovery
    /\ UNCHANGED <<vars, phase, executing>>

-----------------------------------------------------------------------------
(* shutdown().                                                             *)

Shutdown ==
    /\ phase = "ready"
    /\ phase' = "stopping poller"
    /\ Stop
    /\ UNCHANGED <<recovery, tasks>>

\* commandPoller.stop() has returned: close the queue, canceling what waits.
\* A canceled command was never claimed.
CloseQueue ==
    /\ phase = "stopping poller"
    /\ stop = "returned"
    /\ phase' = "closing queue"
    /\ \E canceled \in SUBSET executing :
          /\ executing' = executing \ canceled
          /\ stored' = stored \cup canceled
    /\ UNCHANGED <<poller, waking, woken, excused, recovery, auditing>>

\* The queue is closed when the last task has ended or the grace is over.
StopRecovery ==
    /\ phase = "closing queue"
    /\ phase' = "stopping recovery"
    /\ Recovery!Stop
    /\ UNCHANGED <<vars, tasks>>

\* terminalAuditRecovery.stop() has returned.
Exit ==
    /\ phase = "stopping recovery"
    /\ recoveryStop = "returned"
    /\ phase' = "exited"
    /\ UNCHANGED <<vars, recovery, tasks>>

\* Each loop is one process, and so are main() and shutdown() together: at
\* most one of a group's steps but for failures is possible at a time.
PollerLoop ==
    \/ PollerAlone(Tick) \/ BeginPoll
    \/ PollerAlone(PollFails) \/ Dispatch
    \/ PollerAlone(PollEnds) \/ PollerAlone(Settle)

RecoveryLoop ==
    \/ RecoveryAlone(Recovery!TimerFires)
    \/ RecoveryAlone(Recovery!ReadPage) \/ RecoveryAlone(Recovery!PassFails)
    \/ \E i \in Items : RecoveryAlone(Recovery!WriteAudit(i))
    \/ RecoveryAlone(Recovery!Settle)

Process ==
    \/ StartRecovery \/ StartPoller \/ Ready
    \/ PollerAlone(StopReturns) \/ CloseQueue
    \/ StopRecovery \/ RecoveryAlone(Recovery!StopReturns) \/ Exit

LoopsNext ==
    \/ PollerLoop \/ RecoveryLoop \/ Process
    \/ \E i \in Items :
          StoreCommand(i) \/ PollerAlone(Request(i)) \/ Complete(i) \/ Defer(i)
    \/ Shutdown

LoopsSpec == LoopsInit /\ [][LoopsNext]_all

\* Timers and microtasks run, queries, writes and tasks end, and main() and
\* shutdown() go on; the last task of a queue that is closed ends or its grace
\* is over.  A query or write that is made again and again succeeds some time.
\* A shutdown, a store and a wake are nobody's duty.
FairLoops ==
    /\ LoopsSpec
    /\ WF_all(PollerLoop) /\ SF_all(Dispatch)
    /\ WF_all(RecoveryLoop) /\ SF_all(RecoveryAlone(Recovery!ReadPage))
    /\ WF_all(Process) /\ SF_all(StartPoller)
    /\ \A i \in Items :
          /\ WF_all(Complete(i) \/ Defer(i))
          /\ SF_all(RecoveryAlone(Recovery!WriteAudit(i)))

-----------------------------------------------------------------------------
(***************************************************************************)
(* Properties, besides NoLostWake and StopIsQuiet of the poller.           *)
(***************************************************************************)

\* A command is waiting in the database, in the queue, or completed.
Apart ==
    /\ executing \cap stored = {}
    /\ (executing \cup stored) \cap (owed \cup written) = {}
    /\ auditing \subseteq owed \cup written

LoopsTypeOK ==
    /\ TypeOK
    /\ Recovery!TypeOK
    /\ phase \in {"booting", "recovering", "polling", "ready", "stopping poller",
                  "closing queue", "stopping recovery", "exited"}
    /\ executing \subseteq Items
    /\ Apart

\* The scheduler is never asleep for good, and a stopped one arms no timer.
NeverAsleep == Recovery!NeverAsleep

\* A request is served by a pass that starts after it, without a delay.
RequestIsPrompt == Recovery!RequestIsPrompt

\* A command that was read has its place in the queue: the room a poll has
\* counted is still there when its query is over.
RoomIsKept == Cardinality(executing) <= Capacity

\* What holds of the two loops at every moment, with the types.
LoopsSafety ==
    LoopsTypeOK /\ NoLostWake /\ StopIsQuiet /\ NeverAsleep /\ RequestIsPrompt /\ RoomIsKept

\* The idle delay is kept for a worker that has nothing to recover: what is
\* owed then is being written at once, and if that fails a pass is asked for.
IdleOwesNothing == timer = "idle" => owed \subseteq auditing

\* shutdown() reaches its end from any moment of either loop, and then
\* neither runs.
ShutdownEnds == phase = "stopping poller" ~> phase = "exited" /\ run = "none" /\ recoveryRun = "none"

\* From store to audit: a command that is stored has its audit written in
\* time, with its wake lost, the queue full, polls and passes failing and its
\* immediate audit failed, unless the worker is shut down.
CommandsAreAudited == \A i \in Items : i \in stored ~> i \in written \/ stopped
=============================================================================

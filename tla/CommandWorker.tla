---------------------------- MODULE CommandWorker ----------------------------
(***************************************************************************)
(* server/connector-worker.js and connectors/command-completion.js: a      *)
(* worker polls for authorized commands, queues them per connector, claims *)
(* each with an atomic update, has the connector send the RPC, and stores  *)
(* and publishes the outcome.  Everything but the documents is in the      *)
(* memory of a Node.js process and is gone when that process ends.         *)
(***************************************************************************)
EXTENDS CommandStore, FiniteSetsExt

CONSTANTS
    Workers,        \* worker processes; the runbook asks for exactly one
    Capacity,       \* CONNECTOR_COMMAND_MAX_PENDING
    PollLimit,      \* candidates one poll takes, 20 in the code
    FlushLimit,     \* audits one recovery pass takes, 100 in the code
    MaxStops,       \* bound on crashes and shutdowns
    NoTask

Q == INSTANCE KeyedTaskQueueOps WITH Ids <- Commands, Keys <- Connectors

ASSUME WorkerAssumption ==
    /\ NoTask \notin Commands
    /\ {Capacity, PollLimit} \subseteq Nat \ {0}
    /\ FlushLimit \in Nat
    /\ MaxStops \in Nat

VARIABLES
    phase,          \* worker -> down, up, or how far its shutdown has come
    stops,          \* crashes and shutdowns so far
    queue,          \* worker -> its keyed task queue
    poll,           \* worker -> the poll under way
    task,           \* worker -> command -> how far claimAndExecuteCommand is
    immediate,      \* worker -> audit writes scheduled by completions
    recovery,       \* worker -> the pass of the terminal audit recovery
    sent,           \* history: command -> RPCs handed to the gateway
    outcome,        \* history: command -> what the gateway or device answered
    stream          \* history: command -> the last status published live

memVars    == <<queue, poll, task, immediate, recovery>>
upVars     == <<phase, stops>>
histVars   == <<sent, outcome, stream>>
workerVars == <<upVars, memVars, histVars>>

Completable == {"dispatched", "accepted_by_gateway"}

Pairs == Commands \X TerminalStatuses

IdlePoll == [pc |-> "idle", skip |-> {}, limit |-> 0, found |-> {}]

\* goal: the status being stored; inTry: an error is caught and stored as
\* "failed" (the body of the try statement) instead of ending the task.
NoWork == [pc |-> "none", goal |-> "none", inTry |-> FALSE]

At(pc) == [NoWork EXCEPT !.pc = pc]

Storing(goal, inTry) == [pc |-> "storing", goal |-> goal, inTry |-> inTry]

NoRecovery == [todo |-> {}, written |-> {}]

TaskStates == {"none", "claimed", "sending", "accepting", "auditing", "waiting", "storing"}

Outcomes == {"none", "refused", "error"} \cup (TerminalStatuses \ {"failed"})

WorkerTypeOK ==
    /\ phase \in [Workers -> {"down", "up", "stopping", "closing"}]
    /\ stops \in 0..MaxStops
    /\ queue \in [Workers -> Q!Queue]
    /\ poll \in [Workers -> [ pc : {"idle", "finding", "resolving", "enqueuing"},
                              skip : SUBSET Commands, limit : Int,
                              found : SUBSET Commands ]]
    /\ task \in [Workers -> [Commands -> [ pc : TaskStates,
                                           goal : TerminalStatuses \cup {"none"},
                                           inTry : BOOLEAN ]]]
    /\ immediate \in [Workers -> [ todo : SUBSET Pairs, written : SUBSET Pairs ]]
    /\ recovery \in [Workers -> [ todo : SUBSET Pairs, written : SUBSET Pairs ]]
    /\ sent \in [Commands -> Nat]
    /\ outcome \in [Commands -> Outcomes]
    /\ stream \in [Commands -> StoredStatuses \cup {"none"}]

WorkerInit ==
    /\ phase = [w \in Workers |-> "down"]
    /\ stops = 0
    /\ queue = [w \in Workers |-> Q!EmptyQueue]
    /\ poll = [w \in Workers |-> IdlePoll]
    /\ task = [w \in Workers |-> [c \in Commands |-> NoWork]]
    /\ immediate = [w \in Workers |-> NoRecovery]
    /\ recovery = [w \in Workers |-> NoRecovery]
    /\ sent = [c \in Commands |-> 0]
    /\ outcome = [c \in Commands |-> "none"]
    /\ stream = [c \in Commands |-> "none"]

\* The loop that enqueues candidates contains no await: while it runs,
\* nothing else does in that process.
EventLoopFree(w) == phase[w] # "down" /\ poll[w].pc # "enqueuing"

-----------------------------------------------------------------------------
(***************************************************************************)
(* The process.                                                            *)
(***************************************************************************)

Start(w) ==
    /\ phase[w] = "down"
    /\ phase' = [phase EXCEPT ![w] = "up"]
    /\ UNCHANGED <<stops, memVars, histVars>>

\* The process ends and its memory is lost.
Lose(w) ==
    /\ phase' = [phase EXCEPT ![w] = "down"]
    /\ queue' = [queue EXCEPT ![w] = Q!EmptyQueue]
    /\ poll' = [poll EXCEPT ![w] = IdlePoll]
    /\ task' = [task EXCEPT ![w] = [c \in Commands |-> NoWork]]
    /\ immediate' = [immediate EXCEPT ![w] = NoRecovery]
    /\ recovery' = [recovery EXCEPT ![w] = NoRecovery]
    /\ UNCHANGED histVars

Crash(w) ==
    /\ phase[w] # "down"
    /\ stops < MaxStops
    /\ stops' = stops + 1
    /\ Lose(w)

\* SIGTERM: the poller is stopped first, and awaited.
BeginShutdown(w) ==
    /\ EventLoopFree(w)
    /\ phase[w] = "up"
    /\ stops < MaxStops
    /\ stops' = stops + 1
    /\ phase' = [phase EXCEPT ![w] = "stopping"]
    /\ UNCHANGED <<memVars, histVars>>

CloseQueue(w) ==
    /\ phase[w] = "stopping"
    /\ poll[w].pc = "idle"
    /\ phase' = [phase EXCEPT ![w] = "closing"]
    /\ queue' = [queue EXCEPT ![w] = Q!CancelWaiting(Q!StopAccepting(@))]
    /\ UNCHANGED <<stops, poll, task, immediate, recovery, histVars>>

\* process.exit: after the active tasks, or when their grace period is over.
Exit(w) ==
    /\ phase[w] = "closing"
    /\ Lose(w)
    /\ UNCHANGED stops

-----------------------------------------------------------------------------
(***************************************************************************)
(* dispatchCommands.                                                       *)
(***************************************************************************)

PollStart(w) ==
    LET room == Capacity - Q!Pending(queue[w]) IN
    /\ phase[w] = "up"
    /\ poll[w].pc = "idle"
    /\ room > 0
    /\ poll' = [poll EXCEPT ![w] =
           [ pc |-> "finding", skip |-> queue[w].pendingIds,
             limit |-> Min({PollLimit, room}), found |-> {} ]]
    /\ UNCHANGED <<upVars, queue, task, immediate, recovery, histVars>>

\* The order of createdAt.
Before(c, d) ==
    \E i, j \in DOMAIN created : i < j /\ created[i] = c /\ created[j] = d

\* find(authorized, not pending here).sort(createdAt).limit(limit): the
\* oldest candidates, as many as the poll has room for.
PollFind(w) ==
    LET open == {c \in Commands : status[c] = "authorized" /\ c \notin poll[w].skip} IN
    /\ poll[w].pc = "finding"
    /\ \E found \in SUBSET open :
         /\ Cardinality(found) = Min({poll[w].limit, Cardinality(open)})
         /\ \A c \in found, d \in open \ found : Before(c, d)
         /\ poll' = [poll EXCEPT ![w] =
                IF found = {} THEN IdlePoll
                ELSE [poll[w] EXCEPT !.pc = "resolving", !.found = found]]
    /\ UNCHANGED <<upVars, queue, task, immediate, recovery, histVars>>

\* The versions the candidates were created for have been read.
PollResolve(w) ==
    /\ poll[w].pc = "resolving"
    /\ poll' = [poll EXCEPT ![w].pc = "enqueuing"]
    /\ UNCHANGED <<upVars, queue, task, immediate, recovery, histVars>>

\* Offering candidate c to the queue.
Offer(w, c) ==
    LET rest == poll[w].found \ {c} IN
    /\ queue' = IF Q!CanEnqueue(queue[w], c)
                THEN [queue EXCEPT ![w] = Q!Enqueue(@, ConnectorOf[c], c)]
                ELSE queue
    /\ poll' = [poll EXCEPT ![w] =
           IF rest = {} THEN IdlePoll ELSE [poll[w] EXCEPT !.found = rest]]
    /\ UNCHANGED <<upVars, task, immediate, recovery, histVars>>

\* Mutant: the newest candidates first.
PollEnqueueNewest(w) ==
    /\ poll[w].pc = "enqueuing"
    /\ \E c \in poll[w].found :
         /\ \A d \in poll[w].found : ~Before(c, d)
         /\ Offer(w, c)

\* One turn of the loop over the candidates.
PollEnqueue(w) ==
    /\ poll[w].pc = "enqueuing"
    /\ \E c \in poll[w].found :
         /\ \A d \in poll[w].found : ~Before(d, c)
         /\ Offer(w, c)

\* A query of the poll throws; the poller contains the error.
PollFails(w) ==
    /\ poll[w].pc \in {"finding", "resolving"}
    /\ Fault
    /\ poll' = [poll EXCEPT ![w] = IdlePoll]
    /\ UNCHANGED <<upVars, queue, task, immediate, recovery, histVars>>

-----------------------------------------------------------------------------
(***************************************************************************)
(* claimAndExecuteCommand, from claim to completion.                       *)
(***************************************************************************)

Current(w, c) == queue[w].lanes[ConnectorOf[c]].running = c

Advance(w, c, work) == task' = [task EXCEPT ![w][c] = work]

\* The task settles and the queue runs the next one of the lane.
EndTask(w, c) ==
    /\ Advance(w, c, NoWork)
    /\ queue' = [queue EXCEPT ![w] = Q!Finish(@, ConnectorOf[c])]

Publish(c, s) == stream' = [stream EXCEPT ![c] = s]

InTask(w, c, pc) ==
    /\ EventLoopFree(w)
    /\ task[w][c].pc = pc

Claimable(w, c) == InTask(w, c, "none") /\ Current(w, c)

Claim(w, c) ==
    /\ Claimable(w, c)
    /\ UpdateStatusFrom(c, {"authorized"}, "dispatched")
    /\ Publish(c, "dispatched")
    /\ Advance(w, c, At("claimed"))
    /\ UNCHANGED <<audits, faults, upVars, queue, poll, immediate, recovery, sent, outcome>>

\* Another worker has it, or it is being processed already.
ClaimMissed(w, c) ==
    /\ Claimable(w, c)
    /\ status[c] # "authorized"
    /\ EndTask(w, c)
    /\ UNCHANGED <<storeVars, upVars, poll, immediate, recovery, histVars>>

\* The claim throws, applied or not, and so does the task.
ClaimFails(w, c) ==
    /\ Claimable(w, c)
    /\ Fault
    /\ \/ UNCHANGED docVars
       \/ UpdateStatusFrom(c, {"authorized"}, "dispatched")
    /\ EndTask(w, c)
    /\ UNCHANGED <<audits, upVars, poll, immediate, recovery, histVars>>

\* Mutant: an early return that forgets to store the failure.
NotExecutableReturns(w, c) ==
    /\ InTask(w, c, "claimed")
    /\ EndTask(w, c)
    /\ UNCHANGED <<storeVars, upVars, poll, immediate, recovery, histVars>>

\* No published runtime for the connector, no acknowledgment configured, or
\* the driver is offline: the command fails without an RPC.
NotExecutable(w, c) ==
    /\ InTask(w, c, "claimed")
    /\ Advance(w, c, Storing("failed", FALSE))
    /\ UNCHANGED <<storeVars, upVars, queue, poll, immediate, recovery, histVars>>

SendRpc(w, c) ==
    /\ InTask(w, c, "claimed")
    /\ sent' = [sent EXCEPT ![c] = @ + 1]
    /\ Advance(w, c, At("sending"))
    /\ UNCHANGED <<storeVars, upVars, queue, poll, immediate, recovery, outcome, stream>>

Learn(c, what) == outcome' = [outcome EXCEPT ![c] = what]

\* The answer of a one-way RPC that waits for feedback.
GatewayAccepts(w, c) ==
    /\ InTask(w, c, "sending")
    /\ Advance(w, c, At("accepting"))
    /\ UNCHANGED <<storeVars, upVars, queue, poll, immediate, recovery, histVars>>

\* Mutant: the receipt is stored under its own name.
ReceiptArrivesRaw(w, c) ==
    /\ InTask(w, c, "sending")
    /\ \E what \in {"refused", "rejected", "acknowledged"} :
         /\ Learn(c, what)
         /\ Advance(w, c, Storing(what, TRUE))
    /\ UNCHANGED <<storeVars, upVars, queue, poll, immediate, recovery, sent, stream>>

\* The final receipt of the driver: the gateway refuses the request, or the
\* device answers a two-way RPC.
ReceiptArrives(w, c) ==
    /\ InTask(w, c, "sending")
    /\ \E what \in {"refused", "rejected", "acknowledged"} :
         /\ Learn(c, what)
         /\ Advance(w, c, Storing(IF what = "refused" THEN "failed" ELSE what, TRUE))
    /\ UNCHANGED <<storeVars, upVars, queue, poll, immediate, recovery, sent, stream>>

\* The driver throws: its abort timer, or any other error.
RpcThrows(w, c) ==
    /\ InTask(w, c, "sending")
    /\ \E what \in {"timeout", "error"} :
         /\ Learn(c, what)
         /\ Advance(w, c, Storing(IF what = "error" THEN "failed" ELSE what, FALSE))
    /\ UNCHANGED <<storeVars, upVars, queue, poll, immediate, recovery, sent, stream>>

\* The onAccepted callback: a conditional update, then an audit event.
StoreAccepted(w, c) ==
    /\ InTask(w, c, "accepting")
    /\ IF status[c] = "dispatched"
       THEN SaveStatus(c, "accepted_by_gateway") /\ Publish(c, "accepted_by_gateway")
       ELSE UNCHANGED <<docVars, stream>>
    /\ Advance(w, c, At("auditing"))
    /\ UNCHANGED <<audits, faults, upVars, queue, poll, immediate, recovery, sent, outcome>>

AuditAccepted(w, c) ==
    /\ InTask(w, c, "auditing")
    /\ WriteAudit(c, "accepted_by_gateway")
    /\ Advance(w, c, At("waiting"))
    /\ UNCHANGED <<docVars, faults, upVars, queue, poll, immediate, recovery, histVars>>

\* Either call of the callback throws, and write() with it.
OnAcceptedThrows(w, c) ==
    /\ \/ InTask(w, c, "accepting") /\ (UNCHANGED docVars \/
            UpdateStatusFrom(c, {"dispatched"}, "accepted_by_gateway"))
       \/ InTask(w, c, "auditing") /\ UNCHANGED docVars
    /\ Fault
    /\ Learn(c, "error")
    /\ Advance(w, c, Storing("failed", FALSE))
    /\ UNCHANGED <<audits, upVars, queue, poll, immediate, recovery, sent, stream>>

\* Mutant: a waiter that is released counts as matched.
FeedbackAlwaysMatches(w, c) ==
    /\ InTask(w, c, "waiting")
    /\ \E what \in {"acknowledged", "timeout"} :
         Learn(c, what) /\ Advance(w, c, Storing("acknowledged", TRUE))
    /\ UNCHANGED <<storeVars, upVars, queue, poll, immediate, recovery, sent, stream>>

\* The feedback waiter: the tag takes the expected value, or the timer fires.
FeedbackEnds(w, c) ==
    /\ InTask(w, c, "waiting")
    /\ \E what \in {"acknowledged", "timeout"} :
         Learn(c, what) /\ Advance(w, c, Storing(what, TRUE))
    /\ UNCHANGED <<storeVars, upVars, queue, poll, immediate, recovery, sent, stream>>

\* persistAndPublishTerminalCommand: store, publish, schedule the audit.
Complete(w, c) ==
    LET goal == task[w][c].goal IN
    /\ InTask(w, c, "storing")
    /\ CompleteFrom(c, Completable, goal)
    /\ Publish(c, goal)
    /\ immediate' = [immediate EXCEPT ![w].todo = @ \cup {<<c, goal>>}]
    /\ EndTask(w, c)
    /\ UNCHANGED <<audits, faults, upVars, poll, recovery, sent, outcome>>

CompleteMissed(w, c) ==
    /\ InTask(w, c, "storing")
    /\ status[c] \notin Completable
    /\ EndTask(w, c)
    /\ UNCHANGED <<storeVars, upVars, poll, immediate, recovery, histVars>>

\* Mutant: the outcome is published before it is stored.
CompleteFailsPublished(w, c) ==
    /\ InTask(w, c, "storing")
    /\ Fault
    /\ UNCHANGED docVars
    /\ Publish(c, task[w][c].goal)
    /\ EndTask(w, c)
    /\ UNCHANGED <<audits, upVars, poll, immediate, recovery, sent, outcome>>

\* The completing update throws, applied or not.  Inside the try statement
\* the catch clause then stores "failed"; outside, the task throws.
CompleteFails(w, c) ==
    /\ InTask(w, c, "storing")
    /\ Fault
    /\ \/ UNCHANGED docVars
       \/ CompleteFrom(c, Completable, task[w][c].goal)
    /\ IF task[w][c].inTry
       THEN Advance(w, c, Storing("failed", FALSE)) /\ UNCHANGED queue
       ELSE EndTask(w, c)
    /\ UNCHANGED <<audits, upVars, poll, immediate, recovery, histVars>>

-----------------------------------------------------------------------------
(***************************************************************************)
(* persistTerminalCommandAudit, as scheduled by a completion and as run by *)
(* a recovery pass: write the audit event, then clear the pending flag.    *)
(***************************************************************************)

Wrote(run, p) == [todo |-> run.todo \ {p}, written |-> run.written \cup {p}]

Cleared(run, p) == [run EXCEPT !.written = @ \ {p}]

\* The audits of completions run concurrently; one that throws is left to
\* the recovery.
ImmediateAudit(w, p) ==
    /\ EventLoopFree(w)
    /\ p \in immediate[w].todo
    /\ \/ /\ WriteAudit(p[1], p[2])
          /\ immediate' = [immediate EXCEPT ![w] = Wrote(@, p)]
          /\ UNCHANGED faults
       \/ /\ Fault
          /\ immediate' = [immediate EXCEPT ![w].todo = @ \ {p}]
          /\ UNCHANGED audits
    /\ UNCHANGED <<docVars, upVars, queue, poll, task, recovery, histVars>>

ImmediateClear(w, p) ==
    /\ EventLoopFree(w)
    /\ p \in immediate[w].written
    /\ \/ ClearAuditPending(p[1], p[2]) /\ UNCHANGED faults
       \/ UNCHANGED docVars /\ Fault
    /\ immediate' = [immediate EXCEPT ![w] = Cleared(@, p)]
    /\ UNCHANGED <<audits, upVars, queue, poll, task, recovery, histVars>>

\* Mutant: only acknowledged commands are recovered.
OwingAcknowledged == {c \in Commands : status[c] = "acknowledged" /\ auditPending[c]}

\* The documents that owe an audit, FlushLimit of them at most.  Which ones
\* (the oldest completions) is left open.
Owing == {c \in Commands : status[c] \in TerminalStatuses /\ auditPending[c]}

RecoveryStart(w) ==
    /\ EventLoopFree(w)
    /\ recovery[w] = NoRecovery
    /\ Owing # {}
    /\ \E some \in SUBSET Owing :
         /\ Cardinality(some) = Min({FlushLimit, Cardinality(Owing)})
         /\ recovery' = [recovery EXCEPT ![w].todo = {<<c, status[c]>> : c \in some}]
    /\ UNCHANGED <<storeVars, upVars, queue, poll, task, immediate, histVars>>

\* A pass goes through its documents one after the other and gives up at the
\* first error.
RecoveryAudit(w, p) ==
    /\ EventLoopFree(w)
    /\ p \in recovery[w].todo
    /\ recovery[w].written = {}
    /\ \/ /\ WriteAudit(p[1], p[2])
          /\ recovery' = [recovery EXCEPT ![w] = Wrote(@, p)]
          /\ UNCHANGED faults
       \/ /\ Fault
          /\ recovery' = [recovery EXCEPT ![w] = NoRecovery]
          /\ UNCHANGED audits
    /\ UNCHANGED <<docVars, upVars, queue, poll, task, immediate, histVars>>

RecoveryClear(w, p) ==
    /\ EventLoopFree(w)
    /\ p \in recovery[w].written
    /\ \/ /\ ClearAuditPending(p[1], p[2])
          /\ recovery' = [recovery EXCEPT ![w] = Cleared(@, p)]
          /\ UNCHANGED faults
       \/ /\ Fault
          /\ recovery' = [recovery EXCEPT ![w] = NoRecovery]
          /\ UNCHANGED docVars
    /\ UNCHANGED <<audits, upVars, queue, poll, task, immediate, histVars>>

-----------------------------------------------------------------------------
ProcessNext(w) ==
    Start(w) \/ Crash(w) \/ BeginShutdown(w) \/ CloseQueue(w) \/ Exit(w)

PollStep(w) ==
    PollStart(w) \/ PollFind(w) \/ PollResolve(w) \/ PollEnqueue(w)

TaskStep(w, c) ==
    \/ Claim(w, c) \/ ClaimMissed(w, c) \/ NotExecutable(w, c) \/ SendRpc(w, c)
    \/ GatewayAccepts(w, c) \/ ReceiptArrives(w, c) \/ RpcThrows(w, c)
    \/ StoreAccepted(w, c) \/ AuditAccepted(w, c) \/ FeedbackEnds(w, c)
    \/ Complete(w, c) \/ CompleteMissed(w, c)

TaskFault(w, c) ==
    ClaimFails(w, c) \/ OnAcceptedThrows(w, c) \/ CompleteFails(w, c)

AuditStep(w, p) ==
    \/ ImmediateAudit(w, p) \/ ImmediateClear(w, p)
    \/ RecoveryAudit(w, p) \/ RecoveryClear(w, p)

WorkerNext ==
    \/ \E w \in Workers :
         /\ \/ ProcessNext(w) /\ UNCHANGED storeVars
            \/ PollStep(w) /\ UNCHANGED storeVars
            \/ PollFails(w) /\ UNCHANGED <<docVars, audits>>
            \/ \E c \in Commands : TaskStep(w, c) \/ TaskFault(w, c)
            \/ \E p \in Pairs : AuditStep(w, p)
            \/ RecoveryStart(w)
=============================================================================

--------------------------- MODULE CommandPipeline ---------------------------
(***************************************************************************)
(* The live command path end to end: the POST handler of                   *)
(* api/_handlers/commands.js for a command a connector worker executes,    *)
(* and the connector workers (CommandWorker), which meet only in the       *)
(* database (CommandStore).  A request is one HTTP call; several may carry *)
(* the same request id (a double click, a retry after a lost response), so *)
(* each step between two awaits is an action and handlers interleave.      *)
(***************************************************************************)
EXTENDS CommandWorker

CONSTANTS
    Requests,       \* HTTP requests
    CommandOf,      \* request -> the command (request id) it asks for
    ComponentOf     \* command -> the component and actor it is for

ASSUME GatewayAssumption == CommandOf \in [Requests -> Commands]

VARIABLE handler    \* request -> where its handler stands

HandlerStates ==
    {"idle", "admitted", "checked", "created", "authorized", "refused",
     "rejecting", "rejected", "done"}

CooldownStatuses == {"requested", "authorized", "dispatched", "accepted_by_gateway"}

GatewayTypeOK == handler \in [Requests -> HandlerStates]

GatewayInit == handler = [r \in Requests |-> "idle"]

GoTo(r, next) == handler' = [handler EXCEPT ![r] = next]

\* Admission: whoever may not execute commands here gets an error, a request
\* whose runtime session is stale is rejected, and only then is a request id
\* that already has a document answered from it.
Admit(r) ==
    /\ handler[r] = "idle"
    /\ \/ GoTo(r, "done")
       \/ GoTo(r, "rejecting")
       \/ status[CommandOf[r]] = "none" /\ GoTo(r, "admitted")
    /\ UNCHANGED storeVars

\* An unfinished command of the same component and actor.
Unfinished(c) ==
    \E d \in Commands : ComponentOf[d] = ComponentOf[c] /\ status[d] \in CooldownStatuses

\* The reads before the command is created.  The cooldown query refuses when
\* an unfinished command is younger than 1.5 s; its age is left open, so with
\* one the handler may end or go on.
CheckLiveReads(r) ==
    /\ handler[r] = "admitted"
    /\ \/ GoTo(r, "checked")
       \/ Unfinished(CommandOf[r]) /\ GoTo(r, "done")
    /\ UNCHANGED storeVars

\* A check of the published version, the profile, the role, the tag, the
\* confirmation or, after the reads, the payload says no.
PolicyRejects(r) ==
    /\ handler[r] \in {"admitted", "checked"}
    /\ GoTo(r, "rejecting")
    /\ UNCHANGED storeVars

\* Mutant: the refusal is audited as the end of the command.
AuditRejectedAsOutcome(r) ==
    /\ handler[r] = "rejecting"
    /\ WriteAudit(CommandOf[r], "rejected")
    /\ GoTo(r, "rejected")
    /\ UNCHANGED <<docVars, faults>>

\* reject: the refusal is audited under the request id, whatever became or
\* becomes of the command other requests with that id ask for.
AuditRejected(r) ==
    /\ handler[r] = "rejecting"
    /\ WriteAudit(CommandOf[r], "turned_away")
    /\ GoTo(r, "rejected")
    /\ UNCHANGED <<docVars, faults>>

\* The unique index on (projectId, requestId) refuses a second document.
Create(r) ==
    LET c == CommandOf[r] IN
    /\ handler[r] = "checked"
    /\ IF status[c] = "none"
       THEN InsertRequested(c) /\ GoTo(r, "created")
       ELSE UNCHANGED docVars /\ GoTo(r, "done")
    /\ UNCHANGED <<audits, faults>>

\* Mutant: the refusal overwrites whatever the document says by then.
RefuseAnyway(r) ==
    /\ handler[r] \in {"created", "authorized"}
    /\ SaveStatus(CommandOf[r], "rejected")
    /\ GoTo(r, "refused")
    /\ UNCHANGED <<audits, faults>>

\* finishUnavailable: the connector that was read is absent, not online or
\* without a way to acknowledge.
RefuseUnavailable(r) ==
    /\ handler[r] = "created"
    /\ SaveStatus(CommandOf[r], "rejected")
    /\ GoTo(r, "refused")
    /\ UNCHANGED <<audits, faults>>

AuditRefused(r) ==
    /\ handler[r] = "refused"
    /\ WriteAudit(CommandOf[r], "rejected")
    /\ GoTo(r, "done")
    /\ UNCHANGED <<docVars, faults>>

\* persistWorkerCommandAuthorization: save, audit, best-effort wake.  From
\* the save on, a worker may take the command.
Authorize(r) ==
    /\ handler[r] = "created"
    /\ SaveStatus(CommandOf[r], "authorized")
    /\ GoTo(r, "authorized")
    /\ UNCHANGED <<audits, faults>>

AuditAuthorized(r) ==
    /\ handler[r] = "authorized"
    /\ WriteAudit(CommandOf[r], "authorized")
    /\ GoTo(r, "done")
    /\ UNCHANGED <<docVars, faults>>

\* The handler ends early: a database call throws, or the API process dies.
Abandon(r) ==
    /\ handler[r] \notin {"idle", "rejected", "done"}
    /\ GoTo(r, "done")
    /\ UNCHANGED storeVars

GatewayNext ==
    \E r \in Requests :
        \/ Admit(r) \/ CheckLiveReads(r) \/ Create(r)
        \/ PolicyRejects(r) \/ AuditRejected(r)
        \/ RefuseUnavailable(r) \/ AuditRefused(r)
        \/ Authorize(r) \/ AuditAuthorized(r) \/ Abandon(r)

-----------------------------------------------------------------------------
(* The handlers and the workers.                                            *)

vars == <<storeVars, handler, workerVars>>

TypeOK == StoreTypeOK /\ GatewayTypeOK /\ WorkerTypeOK

Init == StoreInit /\ GatewayInit /\ WorkerInit

Next ==
    \/ GatewayNext /\ UNCHANGED workerVars
    \/ WorkerNext /\ UNCHANGED handler

Spec == Init /\ [][Next]_vars

\* A stopped worker is restarted by its supervisor; a running one keeps
\* polling (the poller has an interval), its awaited calls settle (each has
\* a timeout), and its recovery scheduler always rearms its timer.  Nothing
\* is assumed of the API, of faults or of crashes.
Fairness ==
    \A w \in Workers :
        /\ WF_vars(Start(w) /\ UNCHANGED <<storeVars, handler>>)
        /\ WF_vars((CloseQueue(w) \/ Exit(w)) /\ UNCHANGED <<storeVars, handler>>)
        /\ WF_vars(PollStep(w) /\ UNCHANGED <<storeVars, handler>>)
        /\ \A c \in Commands : WF_vars(TaskStep(w, c) /\ UNCHANGED handler)
        /\ \A p \in Pairs : WF_vars(AuditStep(w, p) /\ UNCHANGED handler)
        /\ WF_vars(RecoveryStart(w) /\ UNCHANGED handler)

FairSpec == Spec /\ Fairness

-----------------------------------------------------------------------------
(***************************************************************************)
(* Safety.                                                                 *)
(***************************************************************************)

\* No command is sent to the device twice, whatever is duplicated (requests,
\* workers), whatever fails in between and however often workers restart:
\* "MongoDB's atomic claim prevents duplicate execution", and an active
\* command that outlives its worker is never executed again.
AtMostOneRpc == \A c \in Commands : sent[c] <= 1

\* A command has one owner: two tasks, in one worker or in two, are never
\* past the claim of the same command.
OneOwner ==
    \A c \in Commands : \A v, w \in Workers :
        task[v][c].pc # "none" /\ task[w][c].pc # "none" => v = w

\* A device outcome is stored only if that is what the device answered; the
\* error path may store "failed" in its place but nothing else.
OutcomeIsGenuine ==
    \A c \in Commands :
        status[c] \in TerminalStatuses \ {"failed"} /\ sent[c] > 0
            => outcome[c] = status[c]

\* Nothing is shown to operators that is not durable, and the shown status
\* never has to be taken back: the stored status may always replace it under
\* the rule the browser applies (commandStatusCanReplace).
StreamIsDurable ==
    \A c \in Commands :
        stream[c] # "none" => CanReplace(stream[c], status[c])

\* The terminal audit of an executed command is either written or still
\* owed, so a crash between completion and audit loses nothing.
TerminalAuditNotLost ==
    \A c \in Commands :
        status[c] \in TerminalStatuses /\ stream[c] # "none" /\ ~auditPending[c]
            => <<c, status[c]>> \in audits

\* One story per command in the audit trail: of a command, at most one end
\* is audited, the one its document has.  What else says command.rejected
\* under its request id comes from a request that was itself turned away, as
\* a retry of an acknowledged command is after a publish.
AuditsAgree ==
    \A c \in Commands :
        /\ \A s \in TerminalStatuses : <<c, s>> \in audits => status[c] = s
        /\ <<c, "turned_away">> \in audits =>
              \E r \in Requests : CommandOf[r] = c /\ handler[r] = "rejected"

\* Per connector, commands are claimed in order: one that was authorized
\* before another was even created is not overtaken by it, as long as no
\* database call of a worker has failed.
ClaimedInOrder ==
    faults = 0 => \A c \in Commands : \A d \in ahead[c] :
        status[c] \in {"dispatched", "accepted_by_gateway"} => status[d] # "authorized"

\* A worker has at most one RPC outstanding per connector.
OneRpcPerConnector ==
    \A w \in Workers : \A c, d \in Commands :
        /\ c # d /\ ConnectorOf[c] = ConnectorOf[d]
        /\ task[w][c].pc # "none"
        => task[w][d].pc = "none"

\* What the queues of the workers guarantee of a connector's commands.
OrderInv == TypeOK /\ ClaimedInOrder /\ OneRpcPerConnector

-----------------------------------------------------------------------------
(***************************************************************************)
(* The inductive invariant behind the safety properties.                   *)
(***************************************************************************)

NotClaimed == {"none", "requested", "authorized"}

\* A handler that is about to decide a command is alone with it, and one
\* that refused it finds it so.
HandlerInv ==
    /\ \A r \in Requests :
         /\ handler[r] = "created" => status[CommandOf[r]] = "requested"
         /\ handler[r] = "refused" => status[CommandOf[r]] = "rejected"
    /\ \A r, s \in Requests :
         /\ handler[r] = "created" /\ handler[s] = "created"
         /\ CommandOf[r] = CommandOf[s]
         => r = s

\* Before its claim, a command has left no trace outside its document.
UnclaimedInv ==
    \A c \in Commands : status[c] \in NotClaimed =>
        sent[c] = 0 /\ stream[c] = "none" /\ outcome[c] = "none"

\* What a task knows of the command it owns.
Fits(work, c) ==
    /\ work.pc # "none" => status[c] \notin NotClaimed
    /\ work.pc = "claimed" => status[c] = "dispatched" /\ sent[c] = 0
    /\ work.pc \in {"sending", "accepting"} => status[c] = "dispatched" /\ sent[c] = 1
    /\ work.pc \in {"auditing", "waiting"} =>
           status[c] = "accepted_by_gateway" /\ sent[c] = 1
    /\ work.pc = "storing" =>
           /\ work.goal \in TerminalStatuses
           /\ work.goal # "failed" => sent[c] = 1 /\ outcome[c] = work.goal

TaskInv == \A w \in Workers, c \in Commands : Fits(task[w][c], c)

\* Audit writes under way are about the status the document has, and are
\* cleared only once they are in the database.
AuditRunInv ==
    \A w \in Workers : \A run \in {immediate[w], recovery[w]} :
        /\ \A p \in run.todo \cup run.written : status[p[1]] = p[2]
        /\ run.written \subseteq audits

PipelineInv ==
    /\ AtMostOneRpc
    /\ OneOwner
    /\ OutcomeIsGenuine
    /\ StreamIsDurable
    /\ TerminalAuditNotLost
    /\ AuditsAgree
    /\ HandlerInv
    /\ UnclaimedInv
    /\ TaskInv
    /\ AuditRunInv

-----------------------------------------------------------------------------
(***************************************************************************)
(* Refinement.                                                             *)
(***************************************************************************)

\* API, workers, crashes and faults together implement the lifecycle
\* contract of a command.
Contract == INSTANCE CommandContract

ImplementsContract == Contract!Spec

-----------------------------------------------------------------------------
(***************************************************************************)
(* Liveness, under Fairness.                                               *)
(***************************************************************************)

\* Every authorized command is eventually claimed, if not by the worker that
\* queued it then by its successor.
AuthorizedIsClaimed ==
    \A c \in Commands : status[c] = "authorized" ~> status[c] # "authorized"

\* Every terminal audit that is owed is eventually written.
OwedAuditIsWritten == \A c \in Commands : auditPending[c] ~> ~auditPending[c]

\* A claimed command reaches a terminal status unless its worker stopped or
\* a database call failed: only those leave it dispatched for good.
ClaimedConcludes ==
    \A c \in Commands :
        status[c] = "dispatched"
            ~> status[c] \in TerminalStatuses \/ stops > 0 \/ faults > 0

-----------------------------------------------------------------------------
(* The instances of the pipeline's runs: the commands go to one connector, *)
(* each from a panel of its own; c1 may be requested twice with the same   *)
(* request id.                                                             *)

OneConnector == [c \in Commands |-> "k"]
MCCommandOf  == [r \in Requests |-> IF r = "r2" THEN "c2" ELSE "c1"]
TwoPanels    == [c \in Commands |-> IF c = "c1" THEN "panel 1" ELSE "panel 2"]
=============================================================================

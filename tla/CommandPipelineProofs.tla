------------------------ MODULE CommandPipelineProofs ------------------------
(***************************************************************************)
(* PipelineInv of CommandPipeline is inductive, so what it names holds for *)
(* any number of commands, requests, connectors, workers, faults and       *)
(* restarts; the pipeline implements CommandContract; and a connector's    *)
(* commands keep their order.                                              *)
(*                                                                         *)
(* The argument: a command changes hands by conditional updates of its     *)
(* document, so at any time at most one handler or one task may decide     *)
(* about it (HandlerInv, OneOwner), and each knows the status it finds     *)
(* there (HandlerInv, TaskInv); a terminal status never changes, so an     *)
(* audit write under way stays about the status of its document            *)
(* (AuditRunInv).  The poll and the queue only choose which command is     *)
(* tried next: they matter for the order alone, in the second half.        *)
(***************************************************************************)
EXTENDS CommandPipeline, FiniteSetTheorems, SequenceTheorems, TLAPS

\* The types of the variables the argument is about.
Work == [ pc : TaskStates, goal : TerminalStatuses \cup {"none"}, inTry : BOOLEAN ]

AuditRun == [ todo : SUBSET Pairs, written : SUBSET Pairs ]

CoreTypeOK ==
    /\ status \in [Commands -> StoredStatuses \cup {"none"}]
    /\ auditPending \in [Commands -> BOOLEAN]
    /\ handler \in [Requests -> HandlerStates]
    /\ task \in [Workers -> [Commands -> Work]]
    /\ immediate \in [Workers -> AuditRun]
    /\ recovery \in [Workers -> AuditRun]
    /\ sent \in [Commands -> Nat]
    /\ outcome \in [Commands -> Outcomes]
    /\ stream \in [Commands -> StoredStatuses \cup {"none"}]

CoreInv == CoreTypeOK /\ PipelineInv

coreVars == <<status, auditPending, audits, handler, task, immediate, recovery,
              sent, outcome, stream>>

\* Any status may be shown again.
LEMMA CanReplaceSelf == \A s : CanReplace(s, s)
BY DEF CanReplace, Rank, TerminalStatuses

\* The shown status need not be taken back when the document moves on: what
\* the stored status could replace, its successor can.
LEMMA CanReplaceOn ==
    ASSUME NEW x, NEW s, NEW t, CanReplace(x, s),
           \/ s = "dispatched" /\ t = "accepted_by_gateway"
           \/ s \in Completable /\ t \in TerminalStatuses
    PROVE  CanReplace(x, t)
BY DEF CanReplace, Rank, TerminalStatuses, Completable

\* The invariant depends on coreVars only.
LEMMA StutterKeeps == CoreInv /\ UNCHANGED coreVars => CoreInv'
BY DEF CoreInv, coreVars, CoreTypeOK, PipelineInv, AtMostOneRpc, OneOwner,
       OutcomeIsGenuine, StreamIsDurable, TerminalAuditNotLost, AuditsAgree,
       HandlerInv, UnclaimedInv, TaskInv, Fits, AuditRunInv

\* It holds at the start.
LEMMA InitCore == Init => CoreInv
<1> SUFFICES ASSUME Init PROVE CoreInv
  OBVIOUS
<1> USE DEF Init, StoreInit, GatewayInit, WorkerInit, NoWork, NoRecovery
<1>1. CoreTypeOK
  BY DEF CoreTypeOK, Work, AuditRun, HandlerStates, TaskStates, Outcomes
<1>2. AtMostOneRpc /\ OneOwner /\ OutcomeIsGenuine /\ StreamIsDurable
  BY DEF AtMostOneRpc, OneOwner, OutcomeIsGenuine, StreamIsDurable
<1>3. TerminalAuditNotLost /\ AuditsAgree
  BY DEF TerminalAuditNotLost, AuditsAgree
<1>4. HandlerInv /\ UnclaimedInv
  BY DEF HandlerInv, UnclaimedInv
<1>5. TaskInv /\ AuditRunInv
  BY DEF TaskInv, Fits, AuditRunInv
<1> QED
  BY <1>1, <1>2, <1>3, <1>4, <1>5 DEF CoreInv, PipelineInv
-----------------------------------------------------------------------------
(***************************************************************************)
(* The API handlers.                                                       *)
(***************************************************************************)

\* A handler that moves on without touching the documents.
LEMMA HandlerMoves ==
    ASSUME CoreInv, NEW r \in Requests,
           NEW next \in HandlerStates \ {"created", "refused"},
           GoTo(r, next), UNCHANGED <<status, auditPending, workerVars>>,
           \/ UNCHANGED audits
           \/ WriteAudit(CommandOf[r], "authorized")
           \/ WriteAudit(CommandOf[r], "rejected") /\ handler[r] = "refused"
           \/ WriteAudit(CommandOf[r], "turned_away") /\ next = "rejected",
           handler[r] # "rejected"
    PROVE  CoreInv'
<1> USE DEF CoreInv, PipelineInv, workerVars, upVars, memVars, histVars, WriteAudit
<1>1. CoreTypeOK'
  BY DEF CoreTypeOK, GoTo
<1>2. HandlerInv'
  BY DEF CoreTypeOK, GoTo, HandlerInv
<1>3. AuditsAgree'
  <2>1. \A d \in Commands, s \in TerminalStatuses : <<d, s>> \in audits' => status[d] = s
    <3> SUFFICES ASSUME NEW d \in Commands, NEW s \in TerminalStatuses, <<d, s>> \in audits'
                 PROVE  status[d] = s
      OBVIOUS
    <3>1. CASE <<d, s>> \in audits
      BY <3>1 DEF AuditsAgree
    <3>2. CASE <<d, s>> \notin audits
      <4>1. d = CommandOf[r] /\ s = "rejected" /\ handler[r] = "refused"
        BY <3>2 DEF TerminalStatuses
      <4> QED
        BY <4>1 DEF HandlerInv
    <3> QED
      BY <3>1, <3>2
  <2>2. ASSUME NEW d \in Commands, <<d, "turned_away">> \in audits'
        PROVE  \E q \in Requests : CommandOf[q] = d /\ handler'[q] = "rejected"
    <3>1. CASE <<d, "turned_away">> \in audits
      BY <3>1 DEF AuditsAgree, CoreTypeOK, GoTo
    <3>2. CASE d = CommandOf[r] /\ next = "rejected"
      BY <3>2 DEF CoreTypeOK, GoTo
    <3> QED
      BY <2>2, <3>1, <3>2
  <2> QED
    BY <2>1, <2>2 DEF AuditsAgree
<1>4. TerminalAuditNotLost' /\ AuditRunInv'
  BY DEF TerminalAuditNotLost, AuditRunInv
<1>5. AtMostOneRpc' /\ OneOwner' /\ OutcomeIsGenuine' /\ StreamIsDurable'
  BY DEF AtMostOneRpc, OneOwner, OutcomeIsGenuine, StreamIsDurable
<1>6. UnclaimedInv' /\ TaskInv'
  BY DEF UnclaimedInv, TaskInv, Fits
<1> QED
  BY <1>1, <1>2, <1>3, <1>4, <1>5, <1>6

\* A handler that moves the document of its command.
LEMMA HandlerDecides ==
    ASSUME CoreInv, NEW r \in Requests, NEW next \in {"created", "refused", "authorized"},
           NEW s, GoTo(r, next), status' = [status EXCEPT ![CommandOf[r]] = s],
           UNCHANGED <<auditPending, audits, workerVars>>, handler[r] # "rejected",
           \/ status[CommandOf[r]] = "none" /\ next = "created" /\ s = "requested"
           \/ handler[r] = "created" /\ next = "refused" /\ s = "rejected"
           \/ handler[r] = "created" /\ next = "authorized" /\ s = "authorized"
    PROVE  CoreInv'
<1> USE DEF CoreInv, PipelineInv, workerVars, upVars, memVars, histVars
<1> DEFINE c == CommandOf[r]
<1>1. c \in Commands /\ status[c] \in {"none", "requested"}
  BY GatewayAssumption DEF HandlerInv
<1>2. sent[c] = 0 /\ stream[c] = "none" /\ outcome[c] = "none"
  BY <1>1 DEF UnclaimedInv, NotClaimed
<1>3. CoreTypeOK'
  BY <1>1 DEF CoreTypeOK, GoTo, HandlerStates, StoredStatuses, PendingStatuses, TerminalStatuses
<1>4. HandlerInv'
  BY <1>1, GatewayAssumption DEF CoreTypeOK, GoTo, HandlerInv
<1>5. AtMostOneRpc' /\ OneOwner'
  BY DEF AtMostOneRpc, OneOwner
<1>6. OutcomeIsGenuine' /\ UnclaimedInv'
  BY <1>1, <1>2 DEF CoreTypeOK, OutcomeIsGenuine, UnclaimedInv, NotClaimed
<1>7. StreamIsDurable' /\ TerminalAuditNotLost'
  BY <1>1, <1>2 DEF CoreTypeOK, StreamIsDurable, TerminalAuditNotLost
<1>8. \A p \in Pairs : status[p[1]] = p[2] => status'[p[1]] = p[2]
  BY <1>1 DEF CoreTypeOK, Pairs, TerminalStatuses
<1>9. AuditRunInv'
  BY <1>8 DEF AuditRunInv, CoreTypeOK, AuditRun
<1>10. AuditsAgree'
  <2>1. \A d \in Commands, t \in TerminalStatuses : <<d, t>> \in audits => status'[d] = t
    BY <1>1 DEF CoreTypeOK, AuditsAgree, TerminalStatuses
  <2>2. \A q \in Requests : handler[q] = "rejected" => handler'[q] = "rejected"
    BY DEF CoreTypeOK, GoTo
  <2>3. ASSUME NEW d \in Commands, <<d, "turned_away">> \in audits'
        PROVE  \E q \in Requests : CommandOf[q] = d /\ handler'[q] = "rejected"
    <3>1. PICK q \in Requests : CommandOf[q] = d /\ handler[q] = "rejected"
      BY <2>3 DEF AuditsAgree
    <3> QED
      BY <2>2, <3>1
  <2>4. audits' = audits
    OBVIOUS
  <2> QED
    BY ONLY <2>1, <2>3, <2>4 DEF AuditsAgree
<1>11. TaskInv'
  BY <1>1 DEF CoreTypeOK, TaskInv, Fits, NotClaimed
<1> QED
  BY <1>3, <1>4, <1>5, <1>6, <1>7, <1>9, <1>10, <1>11

\* Every step of a handler keeps it.
LEMMA GatewayKeeps ==
    ASSUME CoreInv, GatewayNext, UNCHANGED workerVars
    PROVE  CoreInv'
<1> USE DEF storeVars, docVars, SaveStatus
<1>1. PICK r \in Requests :
        \/ Admit(r) \/ CheckLiveReads(r) \/ Create(r)
        \/ PolicyRejects(r) \/ AuditRejected(r)
        \/ RefuseUnavailable(r) \/ AuditRefused(r)
        \/ Authorize(r) \/ AuditAuthorized(r) \/ Abandon(r)
  BY DEF GatewayNext
<1>2. CASE Admit(r) \/ CheckLiveReads(r) \/ PolicyRejects(r) \/ Abandon(r)
  <2>1. PICK next \in HandlerStates \ {"created", "refused"} : GoTo(r, next)
    BY <1>2 DEF Admit, CheckLiveReads, PolicyRejects, Abandon, HandlerStates
  <2> QED
    BY <1>2, <2>1, HandlerMoves DEF Admit, CheckLiveReads, PolicyRejects, Abandon
<1>3. CASE Create(r)
  <2>1. CASE status[CommandOf[r]] = "none"
    BY <1>3, <2>1, HandlerDecides DEF Create, InsertRequested
  <2>2. CASE status[CommandOf[r]] # "none"
    BY <1>3, <2>2, HandlerMoves DEF Create, HandlerStates
  <2> QED
    BY <2>1, <2>2
<1>4. CASE RefuseUnavailable(r)
  BY <1>4, HandlerDecides DEF RefuseUnavailable
<1>5. CASE Authorize(r)
  BY <1>5, HandlerDecides DEF Authorize
<1>6. CASE AuditRefused(r)
  BY <1>6, HandlerMoves DEF AuditRefused, HandlerStates
<1>7. CASE AuditAuthorized(r)
  BY <1>7, HandlerMoves DEF AuditAuthorized, HandlerStates
<1>8. CASE AuditRejected(r)
  BY <1>8, HandlerMoves DEF AuditRejected, HandlerStates
<1> QED
  BY <1>1, <1>2, <1>3, <1>4, <1>5, <1>6, <1>7, <1>8

-----------------------------------------------------------------------------
(***************************************************************************)
(* The tasks of a worker.                                                  *)
(***************************************************************************)

\* A command that is past its claim in one worker is so in no other, and one
\* that is not yet claimed is so in none.
LEMMA Alone ==
    ASSUME CoreInv, NEW w \in Workers, NEW c \in Commands,
           task[w][c].pc # "none" \/ status[c] \in NotClaimed
    PROVE  \A v \in Workers \ {w} : task[v][c].pc = "none"
BY DEF CoreInv, PipelineInv, OneOwner, TaskInv, Fits

\* A task that moves on without touching the documents; it may send the RPC,
\* learn its outcome and write the audit of the gateway's answer.
LEMMA TaskMoves ==
    ASSUME CoreInv, NEW w \in Workers, NEW c \in Commands, NEW work \in Work,
           Advance(w, c, work), Fits(work, c)',
           work.pc # "none" => task[w][c].pc # "none",
           UNCHANGED <<status, auditPending, handler, immediate, recovery, stream>>,
           audits' = audits \/ WriteAudit(c, "accepted_by_gateway"),
           \/ UNCHANGED <<sent, outcome>>
           \/ /\ task[w][c].pc # "none" /\ status[c] \in Completable
              /\ \/ sent' = [sent EXCEPT ![c] = 1] /\ UNCHANGED outcome
                 \/ \E what \in Outcomes : Learn(c, what) /\ UNCHANGED sent
    PROVE  CoreInv'
<1> USE DEF CoreInv, PipelineInv
<1>1. CoreTypeOK'
  <2>1. task' \in [Workers -> [Commands -> Work]]
    BY DEF CoreTypeOK, Advance
  <2>2. sent' \in [Commands -> Nat]
    BY DEF CoreTypeOK
  <2>3. outcome' \in [Commands -> Outcomes]
    BY DEF CoreTypeOK, Learn
  <2> QED
    BY <2>1, <2>2, <2>3 DEF CoreTypeOK
<1>2. \A v \in Workers, d \in Commands :
        task'[v][d] = IF v = w /\ d = c THEN work ELSE task[v][d]
  BY DEF CoreTypeOK, Advance
<1>3. \A d \in Commands \ {c} : sent'[d] = sent[d] /\ outcome'[d] = outcome[d]
  BY DEF CoreTypeOK, Learn
<1>4. AtMostOneRpc'
  BY DEF CoreTypeOK, AtMostOneRpc
<1>5. OneOwner'
  BY <1>2, Alone DEF OneOwner
<1>6. OutcomeIsGenuine' /\ UnclaimedInv'
  BY <1>3 DEF CoreTypeOK, OutcomeIsGenuine, UnclaimedInv, Completable, NotClaimed, TerminalStatuses
<1>7. StreamIsDurable' /\ HandlerInv'
  BY DEF StreamIsDurable, HandlerInv
<1>8. TerminalAuditNotLost' /\ AuditsAgree' /\ AuditRunInv'
  BY DEF TerminalAuditNotLost, AuditsAgree, AuditRunInv, WriteAudit, TerminalStatuses
<1>9. TaskInv'
  <2> SUFFICES ASSUME NEW v \in Workers, NEW d \in Commands
               PROVE  Fits(task[v][d], d)'
    BY DEF TaskInv
  <2>1. CASE v = w /\ d = c
    BY <1>2, <2>1
  <2>2. CASE d # c
    BY <1>2, <1>3, <2>2 DEF TaskInv, Fits
  <2>3. CASE v # w /\ d = c
    <3>1. CASE UNCHANGED <<sent, outcome>>
      BY <1>2, <2>3, <3>1 DEF TaskInv, Fits
    <3>2. CASE task[w][c].pc # "none"
      BY <1>2, <2>3, <3>2, Alone DEF Fits
    <3> QED
      BY <3>1, <3>2
  <2> QED
    BY <2>1, <2>2, <2>3
<1> QED
  BY <1>1, <1>4, <1>5, <1>6, <1>7, <1>8, <1>9

\* A task that moves the document of its command, and may publish it and
\* schedule its audit.
LEMMA TaskStores ==
    ASSUME CoreInv, NEW w \in Workers, NEW c \in Commands, NEW work \in Work, NEW s,
           Advance(w, c, work), Fits(work, c)',
           status' = [status EXCEPT ![c] = s],
           \/ status[c] = "authorized" /\ s = "dispatched"
           \/ /\ task[w][c].pc # "none" /\ sent[c] = 1 /\ work.pc # "none"
              /\ status[c] = "dispatched" /\ s = "accepted_by_gateway"
           \/ /\ task[w][c].pc # "none" /\ status[c] \in Completable
              /\ s \in TerminalStatuses /\ outcome' = outcome
              /\ s = "failed" \/ outcome[c] = s,
           auditPending' = IF s \in TerminalStatuses
                           THEN [auditPending EXCEPT ![c] = TRUE] ELSE auditPending,
           stream' = stream \/ Publish(c, s),
           \/ UNCHANGED immediate
           \/ /\ s \in TerminalStatuses
              /\ immediate' = [immediate EXCEPT ![w].todo = @ \cup {<<c, s>>}],
           UNCHANGED <<audits, handler, recovery, sent>>,
           UNCHANGED outcome \/ (s = "accepted_by_gateway" /\ Learn(c, "error"))
    PROVE  CoreInv'
<1> USE DEF CoreInv, PipelineInv
<1>1. status[c] \notin TerminalStatuses /\ status[c] \notin {"none", "requested"}
  BY DEF Completable, TerminalStatuses
<1>2. s \in StoredStatuses \ {"requested", "authorized"}
  BY DEF StoredStatuses, PendingStatuses, TerminalStatuses
<1>3. \A v \in Workers \ {w} : task[v][c].pc = "none"
  BY Alone DEF NotClaimed
<1>4. CoreTypeOK'
  <2>1. task' \in [Workers -> [Commands -> Work]]
    BY DEF CoreTypeOK, Advance
  <2>2. immediate' \in [Workers -> AuditRun]
    <3>1. CASE s \in TerminalStatuses
      <4>1. <<c, s>> \in Pairs
        BY <3>1 DEF Pairs
      <4>2. immediate[w] \in AuditRun
        BY DEF CoreTypeOK
      <4>3. [immediate[w] EXCEPT !.todo = @ \cup {<<c, s>>}] \in AuditRun
        BY <4>1, <4>2 DEF AuditRun
      <4> QED
        BY <4>3 DEF CoreTypeOK
    <3>2. CASE UNCHANGED immediate
      BY <3>2 DEF CoreTypeOK
    <3> QED
      BY <3>1, <3>2
  <2>3. outcome' \in [Commands -> Outcomes]
    BY DEF CoreTypeOK, Learn, Outcomes
  <2>4. /\ status' \in [Commands -> StoredStatuses \cup {"none"}]
        /\ stream' \in [Commands -> StoredStatuses \cup {"none"}]
        /\ auditPending' \in [Commands -> BOOLEAN]
    <3>1. \A b \in BOOLEAN : [auditPending EXCEPT ![c] = b] \in [Commands -> BOOLEAN]
      BY DEF CoreTypeOK
    <3>2. auditPending' \in [Commands -> BOOLEAN]
      BY <3>1 DEF CoreTypeOK
    <3>3. /\ status' \in [Commands -> StoredStatuses \cup {"none"}]
          /\ stream' \in [Commands -> StoredStatuses \cup {"none"}]
      BY <1>2 DEF CoreTypeOK, Publish
    <3> QED
      BY <3>2, <3>3
  <2> QED
    BY <2>1, <2>2, <2>3, <2>4 DEF CoreTypeOK
<1>5. /\ \A v \in Workers, d \in Commands :
           task'[v][d] = IF v = w /\ d = c THEN work ELSE task[v][d]
      /\ \A d \in Commands \ {c} :
           /\ status'[d] = status[d] /\ auditPending'[d] = auditPending[d]
           /\ stream'[d] = stream[d] /\ outcome'[d] = outcome[d]
      /\ status'[c] = s
  BY DEF CoreTypeOK, Advance, Learn, Publish
<1>6. AtMostOneRpc' /\ OneOwner'
  BY <1>3, <1>5 DEF AtMostOneRpc, OneOwner
<1>7. OutcomeIsGenuine'
  BY <1>5 DEF OutcomeIsGenuine, TerminalStatuses
<1>8. StreamIsDurable'
  <2>1. CASE Publish(c, s)
    BY <1>5, <2>1, CanReplaceSelf DEF CoreTypeOK, StreamIsDurable, Publish
  <2>2. CASE stream' = stream /\ status[c] = "authorized"
    BY <1>5, <2>2 DEF StreamIsDurable, UnclaimedInv, NotClaimed
  <2>3. CASE stream' = stream /\ status[c] # "authorized"
    BY <1>5, <2>3, CanReplaceOn DEF StreamIsDurable
  <2> QED
    BY <2>1, <2>2, <2>3
<1>9. TerminalAuditNotLost'
  BY <1>5 DEF CoreTypeOK, TerminalAuditNotLost
<1>10. AuditsAgree'
  BY <1>1, <1>5 DEF AuditsAgree
<1>11. HandlerInv'
  BY <1>1, <1>5, GatewayAssumption DEF HandlerInv, TerminalStatuses
<1>12. UnclaimedInv'
  BY <1>2, <1>5 DEF UnclaimedInv, NotClaimed, StoredStatuses, TerminalStatuses, PendingStatuses
<1>13. TaskInv'
  <2> SUFFICES ASSUME NEW v \in Workers, NEW d \in Commands
               PROVE  Fits(task[v][d], d)'
    BY DEF TaskInv
  <2>1. CASE v = w /\ d = c
    BY <1>5, <2>1
  <2>2. CASE d # c
    BY <1>5, <2>2 DEF TaskInv, Fits
  <2>3. CASE v # w /\ d = c
    BY <1>3, <1>5, <2>3 DEF Fits
  <2> QED
    BY <2>1, <2>2, <2>3
<1>14. AuditRunInv'
  <2>1. \A p \in Pairs : status[p[1]] = p[2] => status'[p[1]] = p[2]
    BY <1>1, <1>5 DEF Pairs
  <2> SUFFICES ASSUME NEW v \in Workers, NEW run \in {immediate'[v], recovery'[v]}
               PROVE  /\ \A p \in run.todo \cup run.written : status'[p[1]] = p[2]
                      /\ run.written \subseteq audits
    BY DEF AuditRunInv
  <2>2. CASE run \in {immediate[v], recovery[v]}
    BY <2>1, <2>2 DEF AuditRunInv, CoreTypeOK, AuditRun
  <2>3. CASE /\ v = w /\ run.written = immediate[w].written
             /\ run.todo = immediate[w].todo \cup {<<c, s>>}
    BY <1>5, <2>1, <2>3 DEF AuditRunInv, CoreTypeOK, AuditRun
  <2> QED
    BY <2>2, <2>3 DEF CoreTypeOK, AuditRun
<1> QED
  BY <1>4, <1>6, <1>7, <1>8, <1>9, <1>10, <1>11, <1>12, <1>13, <1>14

\* What the small records of a task are.
LEMMA WorkValues ==
    /\ NoWork \in Work
    /\ \A pc \in TaskStates : At(pc) \in Work /\ At(pc).pc = pc
    /\ \A goal \in TerminalStatuses, inTry \in BOOLEAN :
         /\ Storing(goal, inTry) \in Work
         /\ Storing(goal, inTry).pc = "storing"
         /\ Storing(goal, inTry).goal = goal
BY DEF NoWork, At, Storing, Work, TaskStates

\* Every step of a task, with or without a database fault, keeps it.
LEMMA TaskKeeps ==
    ASSUME CoreInv, NEW w \in Workers, NEW c \in Commands, UNCHANGED handler,
           TaskStep(w, c) \/ TaskFault(w, c)
    PROVE  CoreInv'
<1> USE WorkValues DEF storeVars, docVars, upVars, histVars, InTask, EndTask, CoreInv
<1>1. Fits(task[w][c], c) /\ task[w][c] \in Work
  BY DEF PipelineInv, TaskInv, CoreTypeOK
<1>2. status \in [Commands -> StoredStatuses \cup {"none"}]
  BY DEF CoreTypeOK
<1>3. NoWork.pc = "none" /\ Fits(NoWork, c)'
  BY DEF NoWork, Fits
<1>4. CASE Claim(w, c)
  <2>1. sent[c] = 0
    BY <1>4 DEF Claim, UpdateStatusFrom, PipelineInv, UnclaimedInv, NotClaimed
  <2>2. Fits(At("claimed"), c)'
    BY <1>2, <1>4, <2>1 DEF Claim, UpdateStatusFrom, SaveStatus, Fits, NotClaimed, TaskStates
  <2> QED
    BY <1>4, <2>2, TaskStores DEF Claim, UpdateStatusFrom, SaveStatus, TaskStates, TerminalStatuses
<1>5. CASE ClaimMissed(w, c)
  BY <1>3, <1>5, TaskMoves DEF ClaimMissed
<1>6. CASE NotExecutable(w, c)
  <2>1. Fits(Storing("failed", FALSE), c)'
    BY <1>1, <1>6 DEF NotExecutable, Fits, TerminalStatuses
  <2> QED
    BY <1>6, <2>1, TaskMoves DEF NotExecutable, TerminalStatuses
<1>7. CASE SendRpc(w, c)
  <2>1. status[c] = "dispatched" /\ sent[c] = 0
    BY <1>1, <1>7 DEF SendRpc, Fits
  <2>2. sent' = [sent EXCEPT ![c] = 1]
    BY <1>7, <2>1 DEF SendRpc
  <2>3. Fits(At("sending"), c)'
    BY <1>7, <2>1, <2>2 DEF SendRpc, Fits, CoreTypeOK, NotClaimed, TaskStates
  <2> QED
    BY <1>7, <2>1, <2>2, <2>3, TaskMoves DEF SendRpc, Completable, TaskStates
<1>8. CASE GatewayAccepts(w, c)
  <2>1. Fits(At("accepting"), c)'
    BY <1>1, <1>8 DEF GatewayAccepts, Fits, TaskStates
  <2> QED
    BY <1>8, <2>1, TaskMoves DEF GatewayAccepts, TaskStates
<1>9. ASSUME NEW what \in Outcomes, NEW goal \in TerminalStatuses, NEW inTry \in BOOLEAN,
             goal \in {what, "failed"}, task[w][c].pc \in {"sending", "waiting"},
             Learn(c, what), Advance(w, c, Storing(goal, inTry)),
             UNCHANGED <<storeVars, immediate, recovery, sent, stream>>
      PROVE  CoreInv'
  <2>1. Fits(Storing(goal, inTry), c)'
    BY <1>1, <1>9 DEF Fits, Learn, CoreTypeOK, NotClaimed
  <2>2. status[c] \in Completable
    BY <1>1, <1>9 DEF Fits, Completable
  <2> QED
    BY <1>9, <2>1, <2>2, TaskMoves
<1>10. CASE ReceiptArrives(w, c)
  BY <1>9, <1>10 DEF ReceiptArrives, Outcomes, TerminalStatuses
<1>11. CASE RpcThrows(w, c)
  BY <1>9, <1>11 DEF RpcThrows, Outcomes, TerminalStatuses
<1>12. CASE FeedbackEnds(w, c)
  BY <1>9, <1>12 DEF FeedbackEnds, Outcomes, TerminalStatuses
<1>13. CASE StoreAccepted(w, c)
  <2>1. status[c] = "dispatched" /\ sent[c] = 1
    BY <1>1, <1>13 DEF StoreAccepted, Fits
  <2>2. Fits(At("auditing"), c)'
    BY <1>2, <1>13, <2>1 DEF StoreAccepted, SaveStatus, Fits, NotClaimed, TaskStates
  <2> QED
    BY <1>13, <2>1, <2>2, TaskStores DEF StoreAccepted, SaveStatus, TaskStates, TerminalStatuses
<1>14. CASE AuditAccepted(w, c)
  <2>1. Fits(At("waiting"), c)'
    BY <1>1, <1>14 DEF AuditAccepted, Fits, TaskStates
  <2> QED
    BY <1>14, <2>1, TaskMoves DEF AuditAccepted, TaskStates
<1>15. CASE Complete(w, c)
  BY <1>1, <1>3, <1>15, TaskStores DEF Complete, CompleteFrom, Fits
<1>16. CASE CompleteMissed(w, c)
  BY <1>3, <1>16, TaskMoves DEF CompleteMissed
<1>17. CASE ClaimFails(w, c)
  <2>1. CASE UNCHANGED docVars
    BY <1>3, <1>17, <2>1, TaskMoves DEF ClaimFails
  <2>2. CASE UpdateStatusFrom(c, {"authorized"}, "dispatched")
    BY <1>3, <1>17, <2>2, TaskStores DEF ClaimFails, UpdateStatusFrom, SaveStatus, TerminalStatuses
  <2> QED
    BY <1>17, <2>1, <2>2 DEF ClaimFails
<1>18. CASE OnAcceptedThrows(w, c)
  <2>1. Fits(Storing("failed", FALSE), c)'
    BY <1>1, <1>2, <1>18 DEF OnAcceptedThrows, UpdateStatusFrom, SaveStatus, Fits, NotClaimed, TerminalStatuses
  <2>2. status[c] \in Completable /\ sent[c] = 1
    BY <1>1, <1>18 DEF OnAcceptedThrows, Fits, Completable
  <2>3. CASE UNCHANGED docVars
    BY <1>18, <2>1, <2>2, <2>3, TaskMoves DEF OnAcceptedThrows, Outcomes, TerminalStatuses
  <2>4. CASE UpdateStatusFrom(c, {"dispatched"}, "accepted_by_gateway")
    BY <1>18, <2>1, <2>2, <2>4, TaskStores
       DEF OnAcceptedThrows, UpdateStatusFrom, SaveStatus, TerminalStatuses
  <2> QED
    BY <1>18, <2>3, <2>4 DEF OnAcceptedThrows
<1>19. CASE CompleteFails(w, c)
  <2> DEFINE goal == task[w][c].goal
  <2>1. goal \in TerminalStatuses /\ (goal = "failed" \/ outcome[c] = goal)
    BY <1>1, <1>19 DEF CompleteFails, Fits
  <2>2. PICK work \in {NoWork, Storing("failed", FALSE)} : Advance(w, c, work)
    BY <1>19 DEF CompleteFails
  <2>3. Fits(work, c)'
    BY <1>1, <1>2, <1>3, <1>19, <2>1 DEF CompleteFails, CompleteFrom, Fits, NotClaimed, TerminalStatuses
  <2>4. CASE UNCHANGED docVars
    BY <1>19, <2>2, <2>3, <2>4, TaskMoves DEF CompleteFails, TerminalStatuses
  <2>5. CASE CompleteFrom(c, Completable, goal)
    BY <1>19, <2>1, <2>2, <2>3, <2>5, TaskStores DEF CompleteFails, CompleteFrom, TerminalStatuses
  <2> QED
    BY <1>19, <2>4, <2>5 DEF CompleteFails
<1> QED
  BY <1>4, <1>5, <1>6, <1>7, <1>8, <1>10, <1>11, <1>12, <1>13, <1>14, <1>15, <1>16,
     <1>17, <1>18, <1>19 DEF TaskStep, TaskFault

-----------------------------------------------------------------------------
(***************************************************************************)
(* The rest of a worker.                                                   *)
(***************************************************************************)

\* A process that ends forgets its tasks and audit runs, nothing more.
LEMMA LoseKeeps ==
    ASSUME CoreInv, NEW w \in Workers, Lose(w), UNCHANGED <<storeVars, handler>>
    PROVE  CoreInv'
<1> USE DEF CoreInv, PipelineInv, Lose, storeVars, docVars, histVars
<1>1. NoWork \in Work /\ NoWork.pc = "none" /\ NoRecovery \in AuditRun
  BY WorkValues DEF NoWork, NoRecovery, AuditRun
<1>2. CoreTypeOK'
  BY <1>1 DEF CoreTypeOK
<1>3. \A v \in Workers, c \in Commands : task'[v][c] \in {task[v][c], NoWork}
  BY DEF CoreTypeOK
<1>4. \A v \in Workers : /\ immediate'[v] \in {immediate[v], NoRecovery}
                         /\ recovery'[v] \in {recovery[v], NoRecovery}
  BY DEF CoreTypeOK
<1>5. OneOwner' /\ TaskInv'
  BY <1>1, <1>3 DEF OneOwner, TaskInv, Fits
<1>6. AuditRunInv'
  BY <1>4 DEF AuditRunInv, NoRecovery
<1>7. AtMostOneRpc' /\ OutcomeIsGenuine' /\ StreamIsDurable' /\ TerminalAuditNotLost'
  BY DEF AtMostOneRpc, OutcomeIsGenuine, StreamIsDurable, TerminalAuditNotLost
<1>8. AuditsAgree' /\ HandlerInv' /\ UnclaimedInv'
  BY DEF AuditsAgree, HandlerInv, UnclaimedInv
<1> QED
  BY <1>2, <1>5, <1>6, <1>7, <1>8

\* Starts, crashes and shutdowns keep it.
LEMMA ProcessKeeps ==
    ASSUME CoreInv, NEW w \in Workers, ProcessNext(w), UNCHANGED <<storeVars, handler>>
    PROVE  CoreInv'
<1>1. CASE Start(w) \/ BeginShutdown(w) \/ CloseQueue(w)
  BY <1>1, StutterKeeps DEF Start, BeginShutdown, CloseQueue, coreVars, storeVars, docVars,
     memVars, histVars
<1>2. CASE Crash(w) \/ Exit(w)
  BY <1>2, LoseKeeps DEF Crash, Exit
<1> QED
  BY <1>1, <1>2 DEF ProcessNext

\* A poll keeps it: it touches nothing the invariant is about.
LEMMA PollKeeps ==
    ASSUME CoreInv, NEW w \in Workers, PollStep(w) \/ PollFails(w),
           UNCHANGED <<docVars, audits, handler>>
    PROVE  CoreInv'
BY StutterKeeps DEF PollStep, PollStart, PollFind, PollResolve, PollEnqueue, Offer, PollFails, coreVars,
   docVars, histVars

\* Any change of the audit runs that writes audits of the status their
\* document has and clears the flag of documents whose audit is written.
LEMMA AuditRunsMove ==
    ASSUME CoreInv, UNCHANGED <<status, handler, task, sent, outcome, stream>>,
           CoreTypeOK', AuditRunInv',
           audits \subseteq audits',
           \A c \in Commands, k \in AuditKinds :
               <<c, k>> \in audits' => <<c, k>> \in audits \/ (k \in TerminalStatuses /\ status[c] = k),
           \A c \in Commands :
               auditPending'[c] = auditPending[c] \/ <<c, status[c]>> \in audits
    PROVE  CoreInv'
<1> USE DEF CoreInv, PipelineInv
<1>1. TerminalAuditNotLost'
  BY DEF TerminalAuditNotLost
<1>2. AuditsAgree'
  <2>1. "turned_away" \in AuditKinds \ TerminalStatuses /\ TerminalStatuses \subseteq AuditKinds
    BY DEF AuditKinds, TerminalStatuses
  <2>2. \A c \in Commands, s \in TerminalStatuses : <<c, s>> \in audits' => status[c] = s
    BY <2>1 DEF AuditsAgree
  <2>3. \A c \in Commands : <<c, "turned_away">> \in audits' => <<c, "turned_away">> \in audits
    BY <2>1
  <2>4. ASSUME NEW c \in Commands, <<c, "turned_away">> \in audits'
        PROVE  \E r \in Requests : CommandOf[r] = c /\ handler'[r] = "rejected"
    BY <2>3, <2>4 DEF AuditsAgree
  <2>5. status' = status
    OBVIOUS
  <2> QED
    BY ONLY <2>2, <2>4, <2>5 DEF AuditsAgree
<1>3. AtMostOneRpc' /\ OneOwner' /\ OutcomeIsGenuine' /\ StreamIsDurable'
  BY DEF AtMostOneRpc, OneOwner, OutcomeIsGenuine, StreamIsDurable
<1>4. HandlerInv' /\ UnclaimedInv' /\ TaskInv'
  BY DEF HandlerInv, UnclaimedInv, TaskInv, Fits
<1> QED
  BY <1>1, <1>2, <1>3, <1>4

RunsAfter(old, p) ==
    {Wrote(old, p), Cleared(old, p), NoRecovery, [old EXCEPT !.todo = @ \ {p}]}

\* What one step does to one audit run: nothing new is to be written, and
\* what becomes written is in the database.
LEMMA RunMoves ==
    ASSUME NEW old \in AuditRun, NEW p \in Pairs, NEW run \in RunsAfter(old, p)
    PROVE  /\ run \in AuditRun
           /\ run.todo \subseteq old.todo
           /\ run.written \subseteq old.written \cup {p}
           /\ run # Wrote(old, p) => run.written \subseteq old.written
BY DEF RunsAfter, AuditRun, Wrote, Cleared, NoRecovery

\* Every step of an audit run, failing or not, keeps it.
LEMMA AuditKeeps ==
    ASSUME CoreInv, NEW w \in Workers, NEW p \in Pairs, UNCHANGED handler, AuditStep(w, p)
    PROVE  CoreInv'
<1> USE DEF docVars, histVars
<1>1. /\ \A v \in Workers : immediate[v] \in AuditRun /\ recovery[v] \in AuditRun
      /\ \A v \in Workers : \A run \in {immediate[v], recovery[v]} :
           /\ \A r \in run.todo \cup run.written : status[r[1]] = r[2]
           /\ run.written \subseteq audits
  BY DEF CoreInv, CoreTypeOK, PipelineInv, AuditRunInv
<1>2. p[1] \in Commands /\ p[2] \in TerminalStatuses /\ p = <<p[1], p[2]>>
  BY DEF Pairs
<1>3. status[p[1]] = p[2]
  BY <1>1 DEF AuditStep, ImmediateAudit, ImmediateClear, RecoveryAudit, RecoveryClear
<1>4. \/ WriteAudit(p[1], p[2]) /\ UNCHANGED auditPending
      \/ UNCHANGED <<audits, auditPending>>
      \/ p \in audits /\ UNCHANGED audits /\ ClearAuditPending(p[1], p[2])
  BY <1>1, <1>2 DEF AuditStep, ImmediateAudit, ImmediateClear, RecoveryAudit, RecoveryClear
<1>5. UNCHANGED <<status, task, sent, outcome, stream>>
  BY DEF AuditStep, ImmediateAudit, ImmediateClear, RecoveryAudit, RecoveryClear, ClearAuditPending
<1> DEFINE Moved(old, run) ==
      /\ run = Wrote(old, p) => p \in audits'
      /\ \/ /\ old = immediate[w] /\ immediate' = [immediate EXCEPT ![w] = run]
            /\ UNCHANGED recovery
         \/ /\ old = recovery[w] /\ recovery' = [recovery EXCEPT ![w] = run]
            /\ UNCHANGED immediate
<1>6. PICK old \in AuditRun : \E run \in RunsAfter(old, p) : Moved(old, run)
  <2>1. CASE ImmediateAudit(w, p)
    <3>1. CASE WriteAudit(p[1], p[2]) /\ immediate' = [immediate EXCEPT ![w] = Wrote(@, p)]
      BY <1>1, <1>2, <2>1, <3>1 DEF ImmediateAudit, WriteAudit, RunsAfter
    <3>2. CASE /\ immediate' = [immediate EXCEPT ![w].todo = @ \ {p}]
               /\ p \in immediate[w].todo /\ UNCHANGED <<audits, recovery>>
      <4> DEFINE dropped == [immediate[w] EXCEPT !.todo = @ \ {p}]
      <4>1. immediate' = [immediate EXCEPT ![w] = dropped]
        BY <3>2 DEF CoreInv, CoreTypeOK
      <4>2. dropped = Wrote(immediate[w], p) => p \in audits'
        BY <1>1, <3>2 DEF Wrote, AuditRun
      <4> QED
        BY <1>1, <3>2, <4>1, <4>2 DEF RunsAfter
    <3> QED
      BY <2>1, <3>1, <3>2 DEF ImmediateAudit
  <2>2. CASE ImmediateClear(w, p)
    BY <1>1, <1>2, <2>2 DEF ImmediateClear, RunsAfter
  <2>3. CASE RecoveryAudit(w, p)
    <3>1. CASE WriteAudit(p[1], p[2]) /\ recovery' = [recovery EXCEPT ![w] = Wrote(@, p)]
      BY <1>1, <1>2, <2>3, <3>1 DEF RecoveryAudit, WriteAudit, RunsAfter
    <3>2. CASE recovery' = [recovery EXCEPT ![w] = NoRecovery]
      <4>1. NoRecovery # Wrote(recovery[w], p)
        BY DEF NoRecovery, Wrote
      <4> QED
        BY <1>1, <2>3, <3>2, <4>1 DEF RecoveryAudit, RunsAfter
    <3> QED
      BY <2>3, <3>1, <3>2 DEF RecoveryAudit
  <2>4. CASE RecoveryClear(w, p)
    BY <1>1, <1>2, <2>4 DEF RecoveryClear, RunsAfter
  <2> QED
    BY <2>1, <2>2, <2>3, <2>4 DEF AuditStep
<1>7. PICK run \in RunsAfter(old, p) : Moved(old, run)
  BY <1>6
<1>8. auditPending' \in [Commands -> BOOLEAN]
  BY <1>4 DEF CoreInv, CoreTypeOK, ClearAuditPending
<1>9. CoreTypeOK'
  <2>1. run \in AuditRun
    BY RunMoves
  <2>2. immediate' \in [Workers -> AuditRun] /\ recovery' \in [Workers -> AuditRun]
    BY <1>7, <2>1 DEF CoreInv, CoreTypeOK
  <2> QED
    BY <1>5, <1>8, <2>2 DEF CoreInv, CoreTypeOK
<1>10. audits \subseteq audits' /\ audits' \subseteq audits \cup {p}
  BY <1>2, <1>4 DEF WriteAudit
<1>11. AuditRunInv'
  <2>1. /\ \A r \in old.todo \cup old.written : status[r[1]] = r[2]
        /\ old.written \subseteq audits
    BY <1>1, <1>7
  <2>2. /\ run.todo \subseteq old.todo
        /\ run.written \subseteq old.written \cup {p}
        /\ run # Wrote(old, p) => run.written \subseteq old.written
    BY <1>7, RunMoves
  <2>3. /\ \A r \in run.todo \cup run.written : status[r[1]] = r[2]
        /\ run.written \subseteq audits'
    BY <1>3, <1>7, <1>10, <2>1, <2>2
  <2>4. \A v \in Workers : {immediate'[v], recovery'[v]} \subseteq {immediate[v], recovery[v], run}
    BY <1>7 DEF CoreInv, CoreTypeOK
  <2> QED
    BY <1>1, <1>5, <1>10, <2>3, <2>4 DEF AuditRunInv
<1>12. \A c \in Commands :
         auditPending'[c] = auditPending[c] \/ <<c, status[c]>> \in audits
  BY <1>2, <1>3, <1>4 DEF ClearAuditPending, CoreInv, CoreTypeOK
<1>13. \A c \in Commands, k \in AuditKinds :
         <<c, k>> \in audits' => <<c, k>> \in audits \/ (k \in TerminalStatuses /\ status[c] = k)
  BY <1>2, <1>3, <1>10
<1> QED
  BY <1>5, <1>9, <1>10, <1>11, <1>12, <1>13, AuditRunsMove

\* A recovery pass starts with the statuses the documents have.
LEMMA RecoveryStartKeeps ==
    ASSUME CoreInv, NEW w \in Workers, UNCHANGED handler, RecoveryStart(w)
    PROVE  CoreInv'
<1> USE DEF storeVars, docVars, histVars
<1>1. PICK some \in SUBSET Owing :
        recovery' = [recovery EXCEPT ![w].todo = {<<c, status[c]>> : c \in some}]
  BY DEF RecoveryStart
<1>2. UNCHANGED <<storeVars, task, immediate, histVars>>
  BY DEF RecoveryStart
<1> DEFINE todo == {<<c, status[c]>> : c \in some}
<1>3. todo \in SUBSET Pairs /\ \A p \in todo : status[p[1]] = p[2]
  BY <1>1 DEF Owing, Pairs
<1>4. recovery[w] \in AuditRun
  BY DEF CoreInv, CoreTypeOK
<1> HIDE DEF todo
<1>5. [recovery[w] EXCEPT !.todo = todo] \in AuditRun
  BY <1>3, <1>4 DEF AuditRun
<1>6. recovery' = [recovery EXCEPT ![w] = [recovery[w] EXCEPT !.todo = todo]]
  BY <1>1 DEF todo, CoreInv, CoreTypeOK
<1>7. CoreTypeOK'
  BY <1>2, <1>5, <1>6 DEF CoreInv, CoreTypeOK
<1>8. AuditRunInv'
  BY <1>2, <1>3, <1>4, <1>6 DEF CoreInv, CoreTypeOK, PipelineInv, AuditRunInv, AuditRun
<1> QED
  BY <1>2, <1>7, <1>8, AuditRunsMove

-----------------------------------------------------------------------------
(***************************************************************************)
(* The theorems.                                                           *)
(***************************************************************************)

\* Every step of the pipeline keeps it.
LEMMA NextKeeps == CoreInv /\ [Next]_vars => CoreInv'
<1> SUFFICES ASSUME CoreInv, [Next]_vars PROVE CoreInv'
  OBVIOUS
<1>1. CASE UNCHANGED vars
  BY <1>1, StutterKeeps DEF vars, coreVars, storeVars, docVars, workerVars, memVars, histVars
<1>2. CASE GatewayNext /\ UNCHANGED workerVars
  BY <1>2, GatewayKeeps
<1>3. CASE WorkerNext /\ UNCHANGED handler
  <2>1. PICK w \in Workers :
          \/ ProcessNext(w) /\ UNCHANGED storeVars
          \/ PollStep(w) /\ UNCHANGED storeVars
          \/ PollFails(w) /\ UNCHANGED <<docVars, audits>>
          \/ \E c \in Commands : TaskStep(w, c) \/ TaskFault(w, c)
          \/ \E p \in Pairs : AuditStep(w, p)
          \/ RecoveryStart(w)
    BY <1>3 DEF WorkerNext
  <2> QED
    BY <1>3, <2>1, ProcessKeeps, PollKeeps, TaskKeeps, AuditKeeps, RecoveryStartKeeps
       DEF storeVars
<1> QED
  BY <1>1, <1>2, <1>3 DEF Next

\* For any number of commands, requests, connectors, workers, faults and
\* restarts, the inductive invariant holds in every reachable state.
THEOREM PipelineInvariant == Spec => []CoreInv
<1>1. Init => CoreInv
  BY InitCore
<1>2. CoreInv /\ [Next]_vars => CoreInv'
  BY NextKeeps
<1> QED
  BY <1>1, <1>2, PTL DEF Spec

\* The named parts of the invariant, as the runs check them.
THEOREM PipelineSafety == Spec => []PipelineInv
<1>1. CoreInv => PipelineInv
  BY DEF CoreInv
<1> QED
  BY <1>1, PipelineInvariant, PTL

\* No command is handed to the gateway twice, with any number of workers.
THEOREM NoDuplicateExecution == Spec => []AtMostOneRpc
<1>1. CoreInv => AtMostOneRpc
  BY DEF CoreInv, PipelineInv
<1> QED
  BY <1>1, PipelineInvariant, PTL

-----------------------------------------------------------------------------
(***************************************************************************)
(* The refinement.                                                         *)
(***************************************************************************)

\* A handler's step is a step of the contract, or changes nothing it sees.
LEMMA GatewayImplements ==
    ASSUME CoreInv, GatewayNext, UNCHANGED workerVars
    PROVE  [Contract!Next]_Contract!vars
<1> USE DEF storeVars, docVars, SaveStatus, workerVars, histVars
<1>1. PICK r \in Requests :
        \/ Admit(r) \/ CheckLiveReads(r) \/ Create(r)
        \/ PolicyRejects(r) \/ AuditRejected(r)
        \/ RefuseUnavailable(r) \/ AuditRefused(r)
        \/ Authorize(r) \/ AuditAuthorized(r) \/ Abandon(r)
  BY DEF GatewayNext
<1> DEFINE c == CommandOf[r]
<1>2. c \in Commands /\ (handler[r] = "created" => status[c] = "requested")
  BY GatewayAssumption DEF CoreInv, PipelineInv, HandlerInv
<1>3. CASE Create(r) /\ status[c] = "none"
  <2>1. Contract!Request(c)
    BY <1>3 DEF Create, InsertRequested, Contract!Request, Contract!Move
  <2> QED
    BY <1>2, <2>1 DEF Contract!Next
<1>4. CASE RefuseUnavailable(r)
  <2>1. Contract!Refuse(c)
    BY <1>2, <1>4 DEF RefuseUnavailable, Contract!Refuse, Contract!Move
  <2> QED
    BY <1>2, <2>1 DEF Contract!Next
<1>5. CASE Authorize(r)
  <2>1. Contract!Authorize(c)
    BY <1>2, <1>5 DEF Authorize, Contract!Authorize, Contract!Move
  <2> QED
    BY <1>2, <2>1 DEF Contract!Next
<1>6. CASE UNCHANGED status
  BY <1>6 DEF Contract!vars
<1> QED
  BY <1>1, <1>3, <1>4, <1>5, <1>6
     DEF Admit, CheckLiveReads, PolicyRejects, AuditRejected, Create, AuditRefused,
         AuditAuthorized, Abandon

\* So is a task's step.
LEMMA TaskImplements ==
    ASSUME CoreInv, NEW w \in Workers, NEW c \in Commands,
           TaskStep(w, c) \/ TaskFault(w, c)
    PROVE  [Contract!Next]_Contract!vars
<1> USE DEF storeVars, docVars, histVars, SaveStatus, UpdateStatusFrom, CompleteFrom, InTask
<1>1. Fits(task[w][c], c) /\ AtMostOneRpc
  BY DEF CoreInv, PipelineInv, TaskInv
<1>2. CASE Contract!Claim(c) \/ Contract!Send(c) \/ Contract!Accept(c)
  BY <1>2 DEF Contract!Next
<1>3. ASSUME NEW s \in TerminalStatuses, Contract!Conclude(c, s)
      PROVE  [Contract!Next]_Contract!vars
  BY <1>3 DEF Contract!Next, TerminalStatuses
<1>4. CASE UNCHANGED <<status, sent>>
  BY <1>4 DEF Contract!vars
<1>5. CASE Claim(w, c) \/ ClaimFails(w, c)
  <2>1. Contract!Claim(c) \/ UNCHANGED <<status, sent>>
    BY <1>5 DEF Claim, ClaimFails, Contract!Claim, Contract!Move
  <2> QED
    BY <1>2, <1>4, <2>1
<1>6. CASE SendRpc(w, c)
  <2>1. status[c] = "dispatched" /\ sent[c] = 0
    BY <1>1, <1>6 DEF SendRpc, Fits
  <2>2. sent' = [sent EXCEPT ![c] = 1] /\ UNCHANGED status
    BY <1>6, <2>1 DEF SendRpc
  <2>3. Contract!Send(c)
    BY <2>1, <2>2 DEF Contract!Send
  <2> QED
    BY <1>2, <2>3
<1>7. CASE StoreAccepted(w, c) \/ OnAcceptedThrows(w, c)
  <2>1. Contract!Accept(c) \/ UNCHANGED <<status, sent>>
    BY <1>1, <1>7 DEF StoreAccepted, OnAcceptedThrows, Fits, Contract!Accept, Contract!Move
  <2> QED
    BY <1>2, <1>4, <2>1
<1>8. CASE Complete(w, c) \/ CompleteFails(w, c)
  <2> DEFINE goal == task[w][c].goal
  <2>1. goal \in TerminalStatuses /\ (goal = "failed" \/ sent[c] = 1)
    BY <1>1, <1>8 DEF Complete, CompleteFails, Fits
  <2>2. Contract!Conclude(c, goal) \/ UNCHANGED <<status, sent>>
    BY <1>8, <2>1 DEF Complete, CompleteFails, Completable, Contract!Conclude, Contract!Move
  <2> QED
    BY <1>3, <1>4, <2>1, <2>2
<1>9. CASE \/ ClaimMissed(w, c) \/ NotExecutable(w, c) \/ GatewayAccepts(w, c)
           \/ ReceiptArrives(w, c) \/ RpcThrows(w, c) \/ AuditAccepted(w, c)
           \/ FeedbackEnds(w, c) \/ CompleteMissed(w, c)
  BY <1>4, <1>9 DEF ClaimMissed, NotExecutable, GatewayAccepts, ReceiptArrives, RpcThrows,
     AuditAccepted, FeedbackEnds, CompleteMissed
<1> QED
  BY <1>5, <1>6, <1>7, <1>8, <1>9 DEF TaskStep, TaskFault

\* So is every step of the pipeline.
LEMMA NextImplements == CoreInv /\ [Next]_vars => [Contract!Next]_Contract!vars
<1> SUFFICES ASSUME CoreInv, [Next]_vars PROVE [Contract!Next]_Contract!vars
  OBVIOUS
<1>1. CASE UNCHANGED <<status, sent>>
  BY <1>1 DEF Contract!vars
<1>2. CASE GatewayNext /\ UNCHANGED workerVars
  BY <1>2, GatewayImplements
<1>3. CASE WorkerNext /\ UNCHANGED handler
  <2> USE DEF storeVars, docVars, histVars
  <2>1. PICK w \in Workers :
          \/ ProcessNext(w) /\ UNCHANGED storeVars
          \/ PollStep(w) /\ UNCHANGED storeVars
          \/ PollFails(w) /\ UNCHANGED <<docVars, audits>>
          \/ \E c \in Commands : TaskStep(w, c) \/ TaskFault(w, c)
          \/ \E p \in Pairs : AuditStep(w, p)
          \/ RecoveryStart(w)
    BY <1>3 DEF WorkerNext
  <2>2. CASE ProcessNext(w) /\ UNCHANGED storeVars
    BY <1>1, <2>2 DEF ProcessNext, Start, Crash, BeginShutdown, CloseQueue, Exit, Lose
  <2>3. CASE (PollStep(w) \/ PollFails(w)) /\ UNCHANGED docVars
    BY <1>1, <2>3 DEF PollStep, PollStart, PollFind, PollResolve, PollEnqueue, Offer, PollFails
  <2>4. CASE RecoveryStart(w) \/ \E p \in Pairs : AuditStep(w, p)
    BY <1>1, <2>4 DEF RecoveryStart, AuditStep, ImmediateAudit, ImmediateClear,
       RecoveryAudit, RecoveryClear, ClearAuditPending
  <2>5. CASE \E c \in Commands : TaskStep(w, c) \/ TaskFault(w, c)
    BY <2>5, TaskImplements
  <2> QED
    BY <2>1, <2>2, <2>3, <2>4, <2>5
<1> QED
  BY <1>1, <1>2, <1>3 DEF Next, vars, storeVars, docVars, workerVars, histVars

\* API handlers and workers implement the lifecycle contract of commands.
THEOREM PipelineImplementsContract == Spec => ImplementsContract
<1>1. Init => Contract!Init
  BY DEF Init, StoreInit, WorkerInit, Contract!Init
<1>2. CoreInv /\ [Next]_vars => [Contract!Next]_Contract!vars
  BY NextImplements
<1> QED
  BY <1>1, <1>2, PipelineInvariant, PTL DEF Spec, ImplementsContract, Contract!Spec
-----------------------------------------------------------------------------
(***************************************************************************)
(* The order of the commands of a connector, and the types.                *)
(*                                                                         *)
(* The argument: while no call fails, a command leaves the lane of a       *)
(* worker only when it is authorized no more, or with the whole lane.  So  *)
(* an authorized command that is ahead of another one is found with it,    *)
(* or already stands in the lane; it is offered to the lane first, because *)
(* its document is older, and it is accepted, because a poll takes no more *)
(* than the room it saw and nobody else fills that room.  From then on it  *)
(* stands before the other, which cannot be at the head of the lane.       *)
(***************************************************************************)

\* A command that has no document or is not decided yet.
Undecided == {"none", "requested"}

InLine(lane, d) ==
    lane.running = d \/ \E i \in DOMAIN lane.waiting : lane.waiting[i] = d

\* c is not at the head of the lane, and wherever it waits, d is before it.
Precedes(lane, d, c) ==
    /\ lane.running # c
    /\ \A j \in DOMAIN lane.waiting : lane.waiting[j] = c =>
         \/ lane.running = d
         \/ \E i \in DOMAIN lane.waiting : i < j /\ lane.waiting[i] = d

\* A lane whose task has ended, or that was empty, takes its next task: the
\* line stays as it is.
LEMMA LaneMovesUp ==
    ASSUME NEW lane \in Q!Lane, lane.running = NoTask, lane.waiting # <<>>,
           NEW next \in Q!Lane, next.running = Head(lane.waiting),
           next.waiting = Tail(lane.waiting)
    PROVE  /\ \A d \in Commands : InLine(next, d) <=> InLine(lane, d)
           /\ \A c, d \in Commands : Precedes(lane, d, c) => Precedes(next, d, c)
<1> DEFINE s == lane.waiting
           t == next.waiting
<1>1. NoTask \notin Commands
  BY WorkerAssumption
<1>2. s \in Seq(Commands) /\ t \in Seq(Commands)
  BY DEF Q!Lane
<1>3. Len(s) \in Nat /\ Len(s) > 0 /\ Len(t) = Len(s) - 1 /\ DOMAIN s = 1..Len(s) /\ DOMAIN t = 1..Len(t)
  BY <1>2, EmptySeq
<1>4. next.running = s[1] /\ \A i \in DOMAIN t : i + 1 \in DOMAIN s /\ t[i] = s[i + 1]
  BY <1>2, <1>3
<1>5. \A i \in DOMAIN s : i = 1 \/ (i - 1 \in DOMAIN t /\ t[i - 1] = s[i])
  BY <1>3, <1>4
<1>6. 1 \in DOMAIN s /\ \A i \in DOMAIN s : i \in Nat
  BY <1>3
<1>7. \A i \in DOMAIN t : i \in Nat
  BY <1>3
<1> HIDE DEF s, t
<1>8. ASSUME NEW d \in Commands PROVE InLine(next, d) <=> InLine(lane, d)
  <2>1. ASSUME InLine(next, d) PROVE InLine(lane, d)
    BY <2>1, <1>4, <1>6 DEF InLine, s, t
  <2>2. ASSUME InLine(lane, d) PROVE InLine(next, d)
    <3>1. PICK i \in DOMAIN s : s[i] = d
      BY <2>2, <1>1 DEF InLine, s
    <3> QED
      BY <3>1, <1>4, <1>5 DEF InLine, s, t
  <2> QED
    BY <2>1, <2>2
<1>9. ASSUME NEW c \in Commands, NEW d \in Commands, Precedes(lane, d, c)
      PROVE  Precedes(next, d, c)
  <2>1. \A j \in DOMAIN s : s[j] = c => \E i \in DOMAIN s : i < j /\ s[i] = d
    BY <1>9, <1>1 DEF Precedes, s
  <2>2. next.running # c
    BY <2>1, <1>3, <1>4, <1>6
  <2>3. ASSUME NEW j \in DOMAIN t, t[j] = c
        PROVE  next.running = d \/ \E i \in DOMAIN t : i < j /\ t[i] = d
    <3>1. PICK i \in DOMAIN s : i < j + 1 /\ s[i] = d
      BY <2>1, <2>3, <1>4
    <3>2. CASE i = 1
      BY <3>1, <3>2, <1>4
    <3>3. CASE i # 1
      BY <3>1, <3>3, <1>5, <1>6, <1>7
    <3> QED
      BY <3>2, <3>3
  <2> QED
    BY <2>2, <2>3 DEF Precedes, t
<1> QED
  BY <1>8, <1>9

\* startNext on the record of a queue.
LEMMA StartNextKeeps ==
    ASSUME NEW x \in Q!Queue, NEW k \in Connectors, NEW y, y = Q!StartNext(x, k)
    PROVE  /\ y \in Q!Queue
           /\ y.accepting = x.accepting
           /\ y.pendingIds = x.pendingIds
           /\ Q!Pending(y) = Q!Pending(x)
           /\ \A l \in Connectors \ {k} : y.lanes[l] = x.lanes[l]
           /\ x.lanes[k].running # NoTask => y.lanes[k].running = x.lanes[k].running
           /\ \A d \in Commands : InLine(y.lanes[k], d) <=> InLine(x.lanes[k], d)
           /\ \A c, d \in Commands :
                Precedes(x.lanes[k], d, c) => Precedes(y.lanes[k], d, c)
<1>1. x.lanes[k] \in Q!Lane /\ x.lanes[k].waiting \in Seq(Commands)
  BY DEF Q!Queue, Q!Lane
<1>2. CASE x.lanes[k].running # NoTask \/ x.lanes[k].waiting = <<>>
  BY <1>2 DEF Q!StartNext
<1>3. CASE x.lanes[k].running = NoTask /\ x.lanes[k].waiting # <<>>
  <2> DEFINE first == Head(x.lanes[k].waiting)
             rest == Tail(x.lanes[k].waiting)
             next == [running |-> first, waiting |-> rest]
             a == x.queued - 1
             b == x.active + 1
             l == [x.lanes EXCEPT ![k] = next]
  <2>1. first \in Commands /\ rest \in Seq(Commands)
    BY <1>1, <1>3, HeadTailProperties
  <2>2. y = [x EXCEPT !.queued = a, !.active = b, !.lanes = l]
    BY <1>3 DEF Q!StartNext
  <2>3. next \in Q!Lane /\ next.running = first /\ next.waiting = rest
    BY <2>1 DEF Q!Lane
  <2>4. a \in Int /\ b \in Int /\ a + b = x.queued + x.active
    BY DEF Q!Queue
  <2> HIDE DEF next
  <2>5. l \in [Connectors -> Q!Lane] /\ l[k] = next
        /\ \A j \in Connectors \ {k} : l[j] = x.lanes[j]
    BY <2>3 DEF Q!Queue
  <2>6. /\ \A d \in Commands : InLine(next, d) <=> InLine(x.lanes[k], d)
        /\ \A c, d \in Commands : Precedes(x.lanes[k], d, c) => Precedes(next, d, c)
    BY <1>1, <1>3, <2>3, LaneMovesUp
  <2> HIDE DEF a, b, l, first, rest
  <2>7. y \in Q!Queue
    BY <2>2, <2>4, <2>5 DEF Q!Queue
  <2>8. y.accepting = x.accepting /\ y.pendingIds = x.pendingIds /\ y.lanes = l
        /\ y.queued = a /\ y.active = b
    BY <2>2 DEF Q!Queue
  <2>9. Q!Pending(y) = Q!Pending(x)
    <3>1. x.queued \in Int /\ x.active \in Int
      BY DEF Q!Queue
    <3> QED
      BY <3>1, <2>4, <2>8 DEF Q!Pending
  <2> QED
    BY <1>3, <2>5, <2>6, <2>7, <2>8, <2>9
<1> QED
  BY <1>2, <1>3
\* Accepting a candidate: it becomes the last of its lane.
LEMMA AcceptKeeps ==
    ASSUME NEW x \in Q!Queue, NEW k \in Connectors, NEW id \in Commands,
           NEW y, y = Q!Enqueue(x, k, id)
    PROVE  /\ y \in Q!Queue
           /\ y.accepting = x.accepting
           /\ y.pendingIds = x.pendingIds \cup {id}
           /\ Q!Pending(y) = Q!Pending(x) + 1
           /\ \A l \in Connectors \ {k} : y.lanes[l] = x.lanes[l]
           /\ x.lanes[k].running # NoTask => y.lanes[k].running = x.lanes[k].running
           /\ \A d \in Commands :
                InLine(y.lanes[k], d) <=> InLine(x.lanes[k], d) \/ d = id
           /\ \A c, d \in Commands :
                /\ Precedes(x.lanes[k], d, c) \/ (c = id /\ ~InLine(x.lanes[k], id))
                /\ c = id => InLine(x.lanes[k], d)
                => Precedes(y.lanes[k], d, c)
<1> DEFINE w == x.lanes[k].waiting
           longer == Append(w, id)
           lane == [x.lanes[k] EXCEPT !.waiting = longer]
           n == x.queued + 1
           p == x.pendingIds \cup {id}
           l == [x.lanes EXCEPT ![k] = lane]
           z == [x EXCEPT !.lanes = l, !.queued = n, !.pendingIds = p]
<1>1. x.lanes[k] \in Q!Lane /\ w \in Seq(Commands)
  BY DEF Q!Queue, Q!Lane
<1>2. y = Q!StartNext(z, k)
  BY DEF Q!Enqueue
<1>3. /\ longer \in Seq(Commands)
      /\ DOMAIN w = 1..Len(w) /\ DOMAIN longer = 1..(Len(w) + 1) /\ Len(w) \in Nat
      /\ longer[Len(w) + 1] = id /\ \A i \in 1..Len(w) : longer[i] = w[i]
  <2> HIDE DEF w
  <2> QED
    BY <1>1, AppendProperties
<1>4. DOMAIN w \subseteq DOMAIN longer /\ \A i \in DOMAIN longer : i \in DOMAIN w \/ longer[i] = id
  BY <1>3
<1>5. \A i \in DOMAIN w : longer[i] = w[i] /\ i < Len(w) + 1
  BY <1>3
<1>6. Len(w) + 1 \in DOMAIN longer /\ \A i \in DOMAIN longer \ DOMAIN w : i = Len(w) + 1
  BY <1>3
<1> HIDE DEF longer
<1>7. lane \in Q!Lane /\ lane.running = x.lanes[k].running /\ lane.waiting = longer
  BY <1>1, <1>3 DEF Q!Lane
<1> HIDE DEF lane
<1>8. n \in Int /\ p \in SUBSET Commands /\ l \in [Connectors -> Q!Lane]
  BY <1>7 DEF Q!Queue
<1>9. l[k] = lane /\ \A j \in Connectors \ {k} : l[j] = x.lanes[j]
  BY DEF l, Q!Queue
<1> HIDE DEF n, p, l
<1>10. /\ z \in Q!Queue /\ z.lanes = l /\ z.queued = n /\ z.pendingIds = p
       /\ z.accepting = x.accepting /\ z.active = x.active
  BY <1>8 DEF Q!Queue
<1> HIDE DEF z
<1>11. Q!Pending(z) = Q!Pending(x) + 1
  <2>1. x.active \in Int /\ x.queued \in Int
    BY DEF Q!Queue
  <2> QED
    BY <2>1, <1>10 DEF n, Q!Pending
<1>12. ASSUME NEW d \in Commands
       PROVE  InLine(lane, d) <=> InLine(x.lanes[k], d) \/ d = id
  BY <1>4, <1>5, <1>6, <1>7, <1>3 DEF InLine
<1>13. ASSUME NEW c \in Commands, NEW d \in Commands,
              Precedes(x.lanes[k], d, c) \/ (c = id /\ ~InLine(x.lanes[k], id)),
              c = id => InLine(x.lanes[k], d)
       PROVE  Precedes(lane, d, c)
  <2>1. x.lanes[k].running # c
    BY <1>13 DEF Precedes, InLine
  <2>2. ASSUME NEW j \in DOMAIN longer, longer[j] = c
        PROVE  x.lanes[k].running = d \/ \E i \in DOMAIN longer : i < j /\ longer[i] = d
    <3>1. CASE j \in DOMAIN w
      <4>1. w[j] = c
        BY <1>5, <2>2, <3>1
      <4>2. Precedes(x.lanes[k], d, c)
        BY <1>13, <3>1, <4>1 DEF InLine
      <4> QED
        BY <1>4, <1>5, <3>1, <4>1, <4>2 DEF Precedes
    <3>2. CASE j \notin DOMAIN w
      <4>1. j = Len(w) + 1 /\ c = id
        BY <1>4, <1>6, <2>2, <3>2
      <4>2. InLine(x.lanes[k], d)
        BY <1>13, <4>1
      <4> QED
        BY <1>4, <1>5, <4>1, <4>2 DEF InLine
    <3> QED
      BY <3>1, <3>2
  <2> QED
    BY <1>7, <2>1, <2>2 DEF Precedes
<1>14. z.lanes[k] = lane /\ \A j \in Connectors \ {k} : z.lanes[j] = x.lanes[j]
  BY <1>9, <1>10
<1>15. /\ y \in Q!Queue
       /\ y.accepting = z.accepting
       /\ y.pendingIds = z.pendingIds
       /\ Q!Pending(y) = Q!Pending(z)
       /\ \A j \in Connectors \ {k} : y.lanes[j] = z.lanes[j]
       /\ z.lanes[k].running # NoTask => y.lanes[k].running = z.lanes[k].running
       /\ \A d \in Commands : InLine(y.lanes[k], d) <=> InLine(z.lanes[k], d)
       /\ \A c, d \in Commands : Precedes(z.lanes[k], d, c) => Precedes(y.lanes[k], d, c)
  BY <1>2, <1>10, StartNextKeeps
<1>16. y.accepting = x.accepting /\ y.pendingIds = x.pendingIds \cup {id}
  BY <1>10, <1>15 DEF p
<1>17. x.lanes[k].running # NoTask => y.lanes[k].running = x.lanes[k].running
  BY <1>7, <1>14, <1>15
<1>18. \A d \in Commands : InLine(y.lanes[k], d) <=> InLine(x.lanes[k], d) \/ d = id
  BY <1>12, <1>14, <1>15
<1>19. \A c, d \in Commands :
         /\ Precedes(x.lanes[k], d, c) \/ (c = id /\ ~InLine(x.lanes[k], id))
         /\ c = id => InLine(x.lanes[k], d)
         => Precedes(y.lanes[k], d, c)
  BY <1>13, <1>14, <1>15
<1> QED
  BY <1>11, <1>14, <1>15, <1>16, <1>17, <1>18, <1>19

\* The end of a lane's task: only that task leaves the lane, and who stood
\* behind another still does.
LEMMA FinishKeeps ==
    ASSUME NEW x \in Q!Queue, NEW k \in Connectors, NEW y, y = Q!Finish(x, k)
    PROVE  /\ y \in Q!Queue
           /\ y.accepting = x.accepting
           /\ y.pendingIds = x.pendingIds \ {x.lanes[k].running}
           /\ Q!Pending(y) = Q!Pending(x) - 1
           /\ \A l \in Connectors \ {k} : y.lanes[l] = x.lanes[l]
           /\ \A d \in Commands : InLine(y.lanes[k], d) => InLine(x.lanes[k], d)
           /\ \A d \in Commands : d # x.lanes[k].running /\ InLine(x.lanes[k], d)
                => InLine(y.lanes[k], d)
           /\ \A c, d \in Commands : d # x.lanes[k].running /\ Precedes(x.lanes[k], d, c)
                => Precedes(y.lanes[k], d, c)
<1> DEFINE lane == [x.lanes[k] EXCEPT !.running = NoTask]
           n == x.active - 1
           p == x.pendingIds \ {x.lanes[k].running}
           l == [x.lanes EXCEPT ![k] = lane]
           z == [x EXCEPT !.active = n, !.pendingIds = p, !.lanes = l]
<1>1. x.lanes[k] \in Q!Lane
  BY DEF Q!Queue
<1>2. y = Q!StartNext(z, k)
  BY DEF Q!Finish
<1>3. /\ lane \in Q!Lane /\ lane.running = NoTask
      /\ lane.waiting = x.lanes[k].waiting
  BY <1>1 DEF Q!Lane
<1> HIDE DEF lane
<1>4. n \in Int /\ p \in SUBSET Commands /\ l \in [Connectors -> Q!Lane]
  BY <1>3 DEF Q!Queue
<1>5. l[k] = lane /\ \A j \in Connectors \ {k} : l[j] = x.lanes[j]
  BY DEF l, Q!Queue
<1> HIDE DEF n, p, l
<1>6. /\ z \in Q!Queue /\ z.lanes = l /\ z.active = n /\ z.pendingIds = p
      /\ z.accepting = x.accepting /\ z.queued = x.queued
  BY <1>4 DEF Q!Queue
<1> HIDE DEF z
<1>7. Q!Pending(z) = Q!Pending(x) - 1
  <2>1. x.active \in Int /\ x.queued \in Int
    BY DEF Q!Queue
  <2> QED
    BY <2>1, <1>6 DEF n, Q!Pending
<1>8. NoTask \notin Commands
  BY WorkerAssumption
<1>9. \A d \in Commands : InLine(lane, d) => InLine(x.lanes[k], d)
  BY <1>3, <1>8 DEF InLine
<1>10. \A d \in Commands : d # x.lanes[k].running /\ InLine(x.lanes[k], d) => InLine(lane, d)
  BY <1>3 DEF InLine
<1>11. \A c, d \in Commands :
          d # x.lanes[k].running /\ Precedes(x.lanes[k], d, c) => Precedes(lane, d, c)
  BY <1>3, <1>8 DEF Precedes
<1>12. z.lanes[k] = lane /\ \A j \in Connectors \ {k} : z.lanes[j] = x.lanes[j]
  BY <1>5, <1>6
<1>13. /\ y \in Q!Queue
       /\ y.accepting = z.accepting
       /\ y.pendingIds = z.pendingIds
       /\ Q!Pending(y) = Q!Pending(z)
       /\ \A j \in Connectors \ {k} : y.lanes[j] = z.lanes[j]
       /\ \A d \in Commands : InLine(y.lanes[k], d) <=> InLine(z.lanes[k], d)
       /\ \A c, d \in Commands : Precedes(z.lanes[k], d, c) => Precedes(y.lanes[k], d, c)
  BY <1>2, <1>6, StartNextKeeps
<1>14. y.accepting = x.accepting /\ y.pendingIds = x.pendingIds \ {x.lanes[k].running}
  BY <1>6, <1>13 DEF p
<1> QED
  BY <1>7, <1>9, <1>10, <1>11, <1>12, <1>13, <1>14

\* The entries of a queue are finitely many.
LEMMA EntriesFinite ==
    ASSUME NEW x \in Q!Queue
    PROVE  IsFiniteSet(Q!Entries(x))
<1> DEFINE K == {{k} \X DOMAIN x.lanes[k].waiting : k \in Connectors}
<1>1. IsFiniteSet(K)
  <2> DEFINE E(k) == {k} \X DOMAIN x.lanes[k].waiting
             f == [k \in Connectors |-> E(k)]
  <2>1. f \in Surjection(Connectors, K)
    BY DEF Surjection
  <2> QED
    BY <2>1, StoreAssumption, FS_Surjection
<1>2. ASSUME NEW k \in Connectors PROVE IsFiniteSet({k} \X DOMAIN x.lanes[k].waiting)
  <2>1. x.lanes[k].waiting \in Seq(Commands)
    BY DEF Q!Queue, Q!Lane
  <2>2. IsFiniteSet(DOMAIN x.lanes[k].waiting)
    BY <2>1, FS_Interval, LenProperties
  <2> QED
    BY <2>2, FS_Singleton, FS_Product
<1>3. IsFiniteSet(UNION K)
  BY <1>1, <1>2, FS_UNION
<1> QED
  BY <1>3 DEF Q!Entries

\* The instance of the queue counts as its user does.
LEMMA SameCardinality == \A S : Q!Cardinality(S) = Cardinality(S)
BY DEF Q!Cardinality, Cardinality

\* Closing: what runs goes on, what waits is forgotten.
LEMMA CloseKeeps ==
    ASSUME NEW x \in Q!Queue, NEW y, y = Q!CancelWaiting(Q!StopAccepting(x))
    PROVE  /\ y \in Q!Queue
           /\ y.pendingIds = x.pendingIds \ UNION {Q!Waiting(x.lanes[k]) : k \in Connectors}
           /\ \A k \in Connectors : /\ y.lanes[k].running = x.lanes[k].running
                                    /\ y.lanes[k].waiting = <<>>
<1> DEFINE u == Q!StopAccepting(x)
           cut == [k \in Connectors |-> [u.lanes[k] EXCEPT !.waiting = <<>>]]
           p == u.pendingIds \ UNION {Q!Waiting(u.lanes[k]) : k \in Connectors}
           n == u.queued - Cardinality(Q!Entries(u))
<1>1. u \in Q!Queue /\ u.lanes = x.lanes /\ u.pendingIds = x.pendingIds
  BY DEF Q!StopAccepting, Q!Queue
<1>2. y = Q!CancelWaiting(u)
  OBVIOUS
<1> HIDE DEF u
<1>3. y = [u EXCEPT !.queued = n, !.pendingIds = p, !.lanes = cut]
  BY <1>2, SameCardinality DEF Q!CancelWaiting
<1>4. n \in Int
  BY <1>1, EntriesFinite, FS_CardinalityType DEF Q!Queue
<1>5. p \in SUBSET Commands
  BY <1>1 DEF Q!Queue
<1>6. ASSUME NEW k \in Connectors
      PROVE  /\ cut[k] \in Q!Lane /\ cut[k].running = x.lanes[k].running
             /\ cut[k].waiting = <<>>
  <2>1. u.lanes[k] \in Q!Lane /\ <<>> \in Seq(Commands)
    BY <1>1 DEF Q!Queue
  <2>2. cut[k] = [u.lanes[k] EXCEPT !.waiting = <<>>]
    OBVIOUS
  <2> HIDE DEF cut
  <2> QED
    BY <1>1, <2>1, <2>2 DEF Q!Lane
<1>7. cut \in [Connectors -> Q!Lane]
  BY <1>6
<1>8. p = x.pendingIds \ UNION {Q!Waiting(x.lanes[k]) : k \in Connectors}
  BY <1>1
<1> HIDE DEF n, p, cut
<1>9. y \in Q!Queue /\ y.lanes = cut /\ y.pendingIds = p
  BY <1>1, <1>3, <1>4, <1>5, <1>7 DEF Q!Queue
<1> QED
  BY <1>6, <1>8, <1>9
-----------------------------------------------------------------------------
(* The inductive invariant.                                                *)

\* Documents are created once, and the creation order has them all.
CreatedInv ==
    /\ \A i, j \in DOMAIN created : created[i] = created[j] => i = j
    /\ \A c \in Commands :
         status[c] # "none" <=> \E i \in DOMAIN created : created[i] = c

\* Who is ahead of a command was decided, and created, before it.
AheadInv ==
    \A c \in Commands : \A d \in ahead[c] :
        ConnectorOf[d] = ConnectorOf[c] /\ status[d] \notin Undecided /\ Before(d, c)

LaneOf(w, c) == queue[w].lanes[ConnectorOf[c]]

Held(w, d) == InLine(LaneOf(w, d), d)

\* Lanes hold commands of their connector, among them those registered as
\* pending, each behind the authorized ones that are ahead of it.
LineInv(w) ==
    /\ \A k \in Connectors, c \in Commands :
         InLine(queue[w].lanes[k], c) => k = ConnectorOf[c] /\ status[c] \notin Undecided
    /\ \A d \in queue[w].pendingIds : Held(w, d)
    /\ faults = 0 => \A c \in Commands : \A d \in ahead[c] :
         status[d] = "authorized" => Precedes(LaneOf(w, c), d, c)

Room(w) == Capacity - Q!Pending(queue[w])

\* What a poll goes on knowing while it waits for the database.
FindingInv(w) ==
    /\ 0 < poll[w].limit /\ poll[w].limit <= Room(w)
    /\ queue[w].pendingIds \subseteq poll[w].skip
    /\ \A d \in poll[w].skip : status[d] \notin Undecided
    /\ faults = 0 =>
         \A d \in poll[w].skip : status[d] = "authorized" => Held(w, d)

FoundInv(w) ==
    /\ IsFiniteSet(poll[w].found) /\ Cardinality(poll[w].found) <= Room(w)
    /\ poll[w].found \cap queue[w].pendingIds = {}
    /\ \A c \in poll[w].found : status[c] \notin Undecided
    /\ faults = 0 => \A c \in poll[w].found : \A d \in ahead[c] :
         status[d] = "authorized" => Held(w, d) \/ d \in poll[w].found

PollInv(w) ==
    /\ phase[w] # "closing" => queue[w].accepting
    /\ poll[w].pc # "idle" => phase[w] \in {"up", "stopping"}
    /\ poll[w].pc = "finding" => FindingInv(w)
    /\ poll[w].pc \in {"resolving", "enqueuing"} => FoundInv(w)

\* A task past its claim is the one its lane runs.
OwnsInv(w) ==
    \A c \in Commands : task[w][c].pc # "none" => LaneOf(w, c).running = c

WorkerOrder(w) == LineInv(w) /\ PollInv(w) /\ OwnsInv(w)

DocumentsInv == CreatedInv /\ AheadInv /\ ClaimedInOrder

OrderIInv == TypeOK /\ DocumentsInv /\ \A w \in Workers : WorkerOrder(w)
-----------------------------------------------------------------------------
(* The documents.                                                          *)

\* What a step does to the documents: decided commands stay decided, none is
\* authorized a second time, and who was ahead of them is remembered.
Onward ==
    /\ \A c \in Commands : status[c] \notin Undecided =>
         /\ status'[c] \notin Undecided
         /\ status'[c] = "authorized" => status[c] = "authorized"
         /\ ahead'[c] = ahead[c]
    /\ faults' = 0 => faults = 0

\* A step that leaves status, order and history alone.
LEMMA DocumentsKept ==
    ASSUME DocumentsInv, UNCHANGED <<status, created, ahead>>, faults' = 0 => faults = 0
    PROVE  Onward /\ DocumentsInv'
BY DEF DocumentsInv, CreatedInv, AheadInv, Before, ClaimedInOrder, Onward

\* A step that moves the document of one command on.
LEMMA DocumentMoves ==
    ASSUME DocumentsInv, StoreTypeOK, NEW c \in Commands, NEW s,
           status' = [status EXCEPT ![c] = s], UNCHANGED <<created, ahead>>,
           faults' = 0 => faults = 0,
           status[c] # "none", s \notin Undecided,
           s = "authorized" => status[c] \in Undecided,
           s \in {"dispatched", "accepted_by_gateway"} =>
              \/ status[c] = "dispatched"
              \/ faults' = 0 => \A d \in ahead[c] : status[d] # "authorized"
    PROVE  Onward /\ DocumentsInv'
<1>1. status \in [Commands -> StoredStatuses \cup {"none"}] /\ ahead \in [Commands -> SUBSET Commands]
  BY DEF StoreTypeOK
<1>2. status'[c] = s /\ \A d \in Commands \ {c} : status'[d] = status[d]
  BY <1>1
<1>3. Onward
  BY <1>2 DEF Onward
<1>4. CreatedInv'
  BY <1>2 DEF DocumentsInv, CreatedInv, Undecided
<1>5. AheadInv'
  <2> SUFFICES ASSUME NEW e \in Commands, NEW d \in ahead[e]
               PROVE  /\ ConnectorOf[d] = ConnectorOf[e] /\ status'[d] \notin Undecided
                      /\ Before(d, e)'
    BY DEF AheadInv
  <2>1. d \in Commands
    BY <1>1
  <2>2. ConnectorOf[d] = ConnectorOf[e] /\ status[d] \notin Undecided /\ Before(d, e)
    BY DEF DocumentsInv, AheadInv
  <2>3. Before(d, e)'
    BY <2>2 DEF Before
  <2> QED
    BY <2>1, <2>2, <2>3, <1>3 DEF Onward
<1>6. ClaimedInOrder'
  <2> SUFFICES ASSUME faults' = 0, NEW e \in Commands, NEW d \in ahead[e],
                      status'[e] \in {"dispatched", "accepted_by_gateway"},
                      status'[d] = "authorized"
               PROVE  FALSE
    BY DEF ClaimedInOrder
  <2>1. d \in Commands /\ status[d] \notin Undecided
    BY <1>1 DEF DocumentsInv, AheadInv
  <2>2. status[d] = "authorized" /\ faults = 0
    BY <2>1, <1>3 DEF Onward
  <2>3. CASE e # c
    BY <2>2, <2>3, <1>2 DEF DocumentsInv, ClaimedInOrder
  <2>4. CASE e = c
    BY <2>2, <2>4, <1>2 DEF DocumentsInv, ClaimedInOrder
  <2> QED
    BY <2>3, <2>4
<1> QED
  BY <1>3, <1>4, <1>5, <1>6 DEF DocumentsInv

\* A document is created: the last of the creation order.
LEMMA DocumentAppears ==
    ASSUME DocumentsInv, StoreTypeOK, NEW c \in Commands, status[c] = "none",
           InsertRequested(c), UNCHANGED faults
    PROVE  Onward /\ DocumentsInv'
<1> DEFINE n == Len(created)
<1>1. /\ status \in [Commands -> StoredStatuses \cup {"none"}]
      /\ ahead \in [Commands -> SUBSET Commands] /\ created \in Seq(Commands)
  BY DEF StoreTypeOK
<1>2. /\ status'[c] = "requested" /\ \A d \in Commands \ {c} : status'[d] = status[d]
      /\ \A d \in Commands \ {c} : ahead'[d] = ahead[d]
      /\ ahead'[c] = {d \in Commands : ConnectorOf[d] = ConnectorOf[c] /\ status[d] = "authorized"}
  BY <1>1 DEF InsertRequested
<1>3. created' = Append(created, c)
  BY DEF InsertRequested
<1>4. /\ n \in Nat /\ DOMAIN created = 1..n /\ DOMAIN created' = 1..(n + 1)
      /\ created'[n + 1] = c /\ \A i \in 1..n : created'[i] = created[i]
  BY <1>1, <1>3, AppendProperties
<1>5. /\ DOMAIN created \subseteq DOMAIN created' /\ n + 1 \in DOMAIN created'
      /\ \A i \in DOMAIN created : created'[i] = created[i] /\ i < n + 1
      /\ \A i \in DOMAIN created' : i \in DOMAIN created \/ i = n + 1
      /\ created'[n + 1] = c
  BY <1>4
<1>6. \A i \in DOMAIN created : created[i] # c
  BY DEF DocumentsInv, CreatedInv
<1> HIDE DEF n
<1>7. Onward
  BY <1>2 DEF Onward, Undecided
<1>8. CreatedInv'
  <2>1. \A i, j \in DOMAIN created' : created'[i] = created'[j] => i = j
    BY <1>5, <1>6 DEF DocumentsInv, CreatedInv
  <2>2. ASSUME NEW d \in Commands
        PROVE  status'[d] # "none" <=> \E i \in DOMAIN created' : created'[i] = d
    <3>1. CASE d = c
      BY <3>1, <1>2, <1>5
    <3>2. CASE d # c
      BY <3>2, <1>2, <1>5 DEF DocumentsInv, CreatedInv
    <3> QED
      BY <3>1, <3>2
  <2> QED
    BY <2>1, <2>2 DEF CreatedInv
<1>9. AheadInv'
  <2> SUFFICES ASSUME NEW e \in Commands, NEW d \in ahead'[e]
               PROVE  /\ ConnectorOf[d] = ConnectorOf[e] /\ status'[d] \notin Undecided
                      /\ Before(d, e)'
    BY DEF AheadInv
  <2>1. CASE e # c
    <3>1. /\ d \in ahead[e] /\ d \in Commands
      BY <2>1, <1>1, <1>2
    <3>2. ConnectorOf[d] = ConnectorOf[e] /\ status[d] \notin Undecided /\ Before(d, e)
      BY <3>1 DEF DocumentsInv, AheadInv
    <3>3. Before(d, e)'
      BY <3>2, <1>5 DEF Before
    <3> QED
      BY <3>1, <3>2, <3>3, <1>7 DEF Onward
  <2>2. CASE e = c
    <3>1. d \in Commands /\ ConnectorOf[d] = ConnectorOf[c] /\ status[d] = "authorized"
      BY <2>2, <1>2
    <3>2. PICK i \in DOMAIN created : created[i] = d
      BY <3>1 DEF DocumentsInv, CreatedInv
    <3>3. Before(d, e)'
      BY <2>2, <3>2, <1>5 DEF Before
    <3>4. status'[d] \notin Undecided
      BY <3>1, <1>7 DEF Onward, Undecided
    <3> QED
      BY <2>2, <3>1, <3>3, <3>4
  <2> QED
    BY <2>1, <2>2
<1>10. ClaimedInOrder'
  <2> SUFFICES ASSUME faults' = 0, NEW e \in Commands, NEW d \in ahead'[e],
                      status'[e] \in {"dispatched", "accepted_by_gateway"},
                      status'[d] = "authorized"
               PROVE  FALSE
    BY DEF ClaimedInOrder
  <2>1. e # c /\ d \in ahead[e] /\ d \in Commands
    BY <1>1, <1>2
  <2>2. d # c /\ status[d] = "authorized" /\ status[e] = status'[e]
    BY <2>1, <1>2
  <2> QED
    BY <2>1, <2>2 DEF DocumentsInv, ClaimedInOrder
<1> QED
  BY <1>7, <1>8, <1>9, <1>10 DEF DocumentsInv
-----------------------------------------------------------------------------
(* One worker's lanes and poll, whoever makes the step.                    *)

\* Who is not in a lane is behind anybody.
LEMMA NotThere ==
    ASSUME NEW lane, NEW c \in Commands, NEW d, ~InLine(lane, c)
    PROVE  Precedes(lane, d, c)
BY DEF InLine, Precedes

LEMMA RoomType == \A x \in Q!Queue : Capacity - Q!Pending(x) \in Int
<1> SUFFICES ASSUME NEW x \in Q!Queue PROVE Capacity - Q!Pending(x) \in Int
  OBVIOUS
<1>1. x.active \in Int /\ x.queued \in Int
  BY DEF Q!Queue
<1> QED
  BY <1>1, WorkerAssumption DEF Q!Pending

\* Lanes stay in order when they gain decided commands only, and keep who
\* stood before whom.
LEMMA LinesMove ==
    ASSUME StoreTypeOK, AheadInv, Onward, NEW w \in Workers, LineInv(w),
           \A k \in Connectors, c \in Commands : InLine(queue'[w].lanes[k], c) =>
              InLine(queue[w].lanes[k], c) \/ (k = ConnectorOf[c] /\ status[c] \notin Undecided),
           \A d \in queue'[w].pendingIds : Held(w, d)',
           faults' = 0 => \A c \in Commands : \A d \in ahead[c] :
              status[c] \notin Undecided /\ status[d] = "authorized" /\ status'[d] = "authorized"
              /\ Precedes(LaneOf(w, c), d, c) => Precedes(LaneOf(w, c)', d, c)
    PROVE  LineInv(w)'
<1>1. ahead \in [Commands -> SUBSET Commands]
  BY DEF StoreTypeOK
<1>2. ASSUME NEW k \in Connectors, NEW c \in Commands, InLine(queue'[w].lanes[k], c)
      PROVE  k = ConnectorOf[c] /\ status[c] \notin Undecided /\ status'[c] \notin Undecided
  BY <1>2 DEF LineInv, Onward
<1>3. ASSUME faults' = 0, NEW c \in Commands, NEW d \in ahead'[c], status'[d] = "authorized"
      PROVE  Precedes(LaneOf(w, c)', d, c)
  <2>1. CASE status[c] \in Undecided
    <3>1. ConnectorOf[c] \in Connectors
      BY StoreAssumption
    <3>2. ~InLine(LaneOf(w, c)', c)
      BY <2>1, <3>1, <1>2 DEF LaneOf
    <3> QED
      BY <3>2, NotThere
  <2>2. CASE status[c] \notin Undecided
    <3>1. d \in ahead[c] /\ d \in Commands
      BY <2>2, <1>1, <1>3 DEF Onward
    <3>2. status[d] = "authorized" /\ faults = 0
      BY <3>1, <1>3 DEF Onward, AheadInv
    <3> QED
      BY <1>3, <2>2, <3>1, <3>2 DEF LineInv
  <2> QED
    BY <2>1, <2>2
<1> QED
  BY <1>2, <1>3 DEF LineInv

\* A poll that waits keeps what it knows while the lanes only get shorter.
LEMMA PollWaits ==
    ASSUME StoreTypeOK, WorkerTypeOK, WorkerTypeOK', AheadInv, Onward,
           NEW w \in Workers, PollInv(w),
           UNCHANGED poll[w],
           Room(w)' >= Room(w),
           queue'[w].pendingIds \subseteq queue[w].pendingIds,
           faults' = 0 => \A d \in Commands :
              status'[d] = "authorized" /\ status[d] = "authorized" /\ Held(w, d) => Held(w, d)',
           phase'[w] # "closing" => queue'[w].accepting,
           poll[w].pc # "idle" => phase'[w] \in {"up", "stopping"}
    PROVE  PollInv(w)'
<1>1. Room(w) \in Int /\ Room(w)' \in Int
  BY RoomType DEF WorkerTypeOK, Room
<1>2. ahead \in [Commands -> SUBSET Commands]
  BY DEF StoreTypeOK
<1>3. /\ poll[w].limit \in Int /\ poll[w].skip \subseteq Commands
      /\ poll[w].found \subseteq Commands
  BY DEF WorkerTypeOK
<1>4. poll'[w] = poll[w]
  OBVIOUS
<1>5. ASSUME FindingInv(w) PROVE FindingInv(w)'
  <2>1. 0 < poll[w].limit /\ poll[w].limit <= Room(w)'
    BY <1>1, <1>3, <1>5 DEF FindingInv
  <2>2. \A d \in poll[w].skip : status'[d] \notin Undecided
    BY <1>3, <1>5 DEF FindingInv, Onward
  <2>3. ASSUME faults' = 0, NEW d \in poll[w].skip, status'[d] = "authorized" PROVE Held(w, d)'
    BY <1>3, <1>5, <2>3 DEF FindingInv, Onward
  <2> QED
    BY <1>4, <1>5, <2>1, <2>2, <2>3 DEF FindingInv
<1>6. ASSUME FoundInv(w) PROVE FoundInv(w)'
  <2>1. /\ IsFiniteSet(poll[w].found)
        /\ Cardinality(poll[w].found) <= Room(w)'
    <3>1. IsFiniteSet(poll[w].found) /\ Cardinality(poll[w].found) <= Room(w)
      BY <1>6 DEF FoundInv
    <3>2. Cardinality(poll[w].found) \in Int
      BY <3>1, FS_CardinalityType
    <3> QED
      BY <1>1, <3>1, <3>2
  <2>2. poll[w].found \cap queue'[w].pendingIds = {}
    BY <1>6 DEF FoundInv
  <2>3. \A c \in poll[w].found : status'[c] \notin Undecided
    BY <1>3, <1>6 DEF FoundInv, Onward
  <2>4. ASSUME faults' = 0, NEW c \in poll[w].found, NEW d \in ahead'[c], status'[d] = "authorized"
        PROVE  Held(w, d)' \/ d \in poll[w].found
    <3>1. c \in Commands /\ status[c] \notin Undecided
      BY <1>3, <1>6 DEF FoundInv
    <3>2. d \in ahead[c] /\ d \in Commands
      BY <1>2, <2>4, <3>1 DEF Onward
    <3>3. status[d] = "authorized" /\ faults = 0
      BY <2>4, <3>1, <3>2 DEF Onward, AheadInv
    <3>4. Held(w, d) \/ d \in poll[w].found
      BY <1>6, <3>2, <3>3 DEF FoundInv
    <3> QED
      BY <2>4, <3>2, <3>3, <3>4
  <2> QED
    BY <1>4, <2>1, <2>2, <2>3, <2>4 DEF FoundInv
<1> QED
  BY <1>4, <1>5, <1>6 DEF PollInv

\* A worker whose queue and poll the step does not touch.
LEMMA WorkerKept ==
    ASSUME StoreTypeOK, WorkerTypeOK, WorkerTypeOK', AheadInv, Onward,
           NEW w \in Workers, LineInv(w), PollInv(w),
           UNCHANGED <<queue[w], poll[w]>>,
           phase'[w] = phase[w] \/ (phase'[w] \in {"up", "stopping"} /\ phase[w] # "closing")
    PROVE  LineInv(w)' /\ PollInv(w)'
<1>1. queue'[w] = queue[w] /\ poll'[w] = poll[w]
  OBVIOUS
<1>2. \A c : LaneOf(w, c)' = LaneOf(w, c)
  BY <1>1 DEF LaneOf
<1>3. \A d : Held(w, d)' <=> Held(w, d)
  BY <1>2 DEF Held
<1>4. Room(w)' = Room(w) /\ Room(w) \in Int
  BY <1>1, RoomType DEF WorkerTypeOK, Room
<1>5. Room(w)' >= Room(w)
  BY <1>4
<1>6. LineInv(w)'
  <2>1. \A k \in Connectors, c \in Commands : InLine(queue'[w].lanes[k], c) =>
           InLine(queue[w].lanes[k], c)
    BY <1>1
  <2>2. \A d \in queue'[w].pendingIds : Held(w, d)'
    BY <1>1, <1>3 DEF LineInv
  <2> QED
    BY <1>2, <2>1, <2>2, LinesMove
<1>7. PollInv(w)'
  <2>1. phase'[w] # "closing" => queue'[w].accepting
    BY <1>1 DEF PollInv
  <2>2. poll[w].pc # "idle" => phase'[w] \in {"up", "stopping"}
    BY DEF PollInv
  <2>3. queue'[w].pendingIds \subseteq queue[w].pendingIds
    BY <1>1
  <2> QED
    BY <1>3, <1>5, <2>1, <2>2, <2>3, PollWaits
<1> QED
  BY <1>6, <1>7
-----------------------------------------------------------------------------
(* What a worker does to its own lanes and poll.                           *)

\* A task ends: its command is authorized no more.
LEMMA TaskEnds ==
    ASSUME StoreTypeOK, WorkerTypeOK, WorkerTypeOK', AheadInv, Onward,
           NEW w \in Workers, LineInv(w), PollInv(w), NEW c \in Commands,
           queue'[w] = Q!Finish(queue[w], ConnectorOf[c]), LaneOf(w, c).running = c,
           faults' = 0 => status'[c] # "authorized",
           poll'[w] = poll[w], phase'[w] = phase[w]
    PROVE  LineInv(w)' /\ PollInv(w)'
<1> DEFINE k == ConnectorOf[c]
           x == queue[w]
           y == queue'[w]
<1>1. k \in Connectors /\ x \in Q!Queue /\ x.lanes[k].running = c
  BY StoreAssumption DEF WorkerTypeOK, LaneOf
<1>2. /\ y \in Q!Queue
      /\ y.accepting = x.accepting
      /\ y.pendingIds = x.pendingIds \ {c}
      /\ Q!Pending(y) = Q!Pending(x) - 1
      /\ \A l \in Connectors \ {k} : y.lanes[l] = x.lanes[l]
      /\ \A d \in Commands : InLine(y.lanes[k], d) => InLine(x.lanes[k], d)
      /\ \A d \in Commands : d # c /\ InLine(x.lanes[k], d) => InLine(y.lanes[k], d)
      /\ \A e, d \in Commands : d # c /\ Precedes(x.lanes[k], d, e) => Precedes(y.lanes[k], d, e)
  BY <1>1, FinishKeeps
<1>3. Room(w)' >= Room(w)
  <2>1. Room(w) \in Int /\ Q!Pending(x) \in Int /\ Capacity \in Int
    BY <1>1, RoomType, WorkerAssumption DEF Room, Q!Queue, Q!Pending
  <2> QED
    BY <1>2, <2>1 DEF Room
<1>4. ahead \in [Commands -> SUBSET Commands] /\ x.pendingIds \subseteq Commands
  BY <1>1 DEF StoreTypeOK, Q!Queue
<1>5. \A d \in Commands : ConnectorOf[d] \in Connectors
  BY StoreAssumption
<1> HIDE DEF k
<1>6. ASSUME NEW d \in Commands, d # c, Held(w, d) PROVE Held(w, d)'
  <2>1. CASE ConnectorOf[d] = k
    BY <1>2, <1>6, <2>1 DEF Held, LaneOf
  <2>2. CASE ConnectorOf[d] # k
    BY <1>2, <1>5, <1>6, <2>2 DEF Held, LaneOf
  <2> QED
    BY <2>1, <2>2
<1>7. LineInv(w)'
  <2>1. ASSUME NEW l \in Connectors, NEW d \in Commands, InLine(y.lanes[l], d)
        PROVE  InLine(x.lanes[l], d)
    BY <1>2, <2>1
  <2>2. \A d \in y.pendingIds : Held(w, d)'
    BY <1>2, <1>4, <1>6 DEF LineInv
  <2>3. ASSUME faults' = 0, NEW e \in Commands, NEW d \in ahead[e],
               status'[d] = "authorized", Precedes(LaneOf(w, e), d, e)
        PROVE  Precedes(LaneOf(w, e)', d, e)
    <3>1. d \in Commands /\ d # c
      BY <1>4, <2>3
    <3>2. CASE ConnectorOf[e] = k
      BY <1>2, <2>3, <3>1, <3>2 DEF LaneOf
    <3>3. CASE ConnectorOf[e] # k
      BY <1>2, <1>5, <2>3, <3>3 DEF LaneOf
    <3> QED
      BY <3>2, <3>3
  <2> QED
    BY <2>1, <2>2, <2>3, LinesMove
<1>8. PollInv(w)'
  <2>1. phase'[w] # "closing" => y.accepting
    BY <1>2 DEF PollInv
  <2>2. poll[w].pc # "idle" => phase'[w] \in {"up", "stopping"}
    BY DEF PollInv
  <2>3. y.pendingIds \subseteq x.pendingIds
    BY <1>2
  <2>4. faults' = 0 => \A d \in Commands :
           status'[d] = "authorized" /\ status[d] = "authorized" /\ Held(w, d) => Held(w, d)'
    BY <1>6
  <2> QED
    BY <1>3, <2>1, <2>2, <2>3, <2>4, PollWaits
<1> QED
  BY <1>7, <1>8

\* The memory of a worker is lost.
LEMMA MemoryLost ==
    ASSUME NEW w \in Workers, queue'[w] = Q!EmptyQueue, poll'[w] = IdlePoll, phase'[w] = "down"
    PROVE  LineInv(w)' /\ PollInv(w)'
<1>1. \A k \in Connectors : queue'[w].lanes[k].running = NoTask /\ queue'[w].lanes[k].waiting = <<>>
  BY DEF Q!EmptyQueue, Q!EmptyLane
<1>2. NoTask \notin Commands
  BY WorkerAssumption
<1>3. \A k \in Connectors, c \in Commands : ~InLine(queue'[w].lanes[k], c)
  BY <1>1, <1>2 DEF InLine
<1>4. queue'[w].pendingIds = {} /\ queue'[w].accepting
  BY DEF Q!EmptyQueue
<1>5. \A c \in Commands : ~InLine(LaneOf(w, c)', c)
  BY <1>3, StoreAssumption DEF LaneOf
<1>6. LineInv(w)'
  BY <1>3, <1>4, <1>5, NotThere DEF LineInv
<1>7. PollInv(w)'
  BY <1>4 DEF PollInv, IdlePoll
<1> QED
  BY <1>6, <1>7

\* The queue is closed: no poll is under way, and none will be.
LEMMA QueueCloses ==
    ASSUME StoreTypeOK, WorkerTypeOK, WorkerTypeOK', AheadInv, Onward,
           NEW w \in Workers, LineInv(w), poll'[w].pc = "idle", phase'[w] = "closing",
           queue'[w] = Q!CancelWaiting(Q!StopAccepting(queue[w]))
    PROVE  LineInv(w)' /\ PollInv(w)'
<1> DEFINE x == queue[w]
           y == queue'[w]
<1>1. x \in Q!Queue
  BY DEF WorkerTypeOK
<1>2. /\ y.pendingIds = x.pendingIds \ UNION {Q!Waiting(x.lanes[k]) : k \in Connectors}
      /\ \A k \in Connectors : /\ y.lanes[k].running = x.lanes[k].running
                               /\ y.lanes[k].waiting = <<>>
  BY <1>1, CloseKeeps
<1>3. \A c \in Commands : ConnectorOf[c] \in Connectors
  BY StoreAssumption
<1>4. x.pendingIds \subseteq Commands
  BY <1>1 DEF Q!Queue
<1>5. \A k \in Connectors, c \in Commands : InLine(y.lanes[k], c) => InLine(x.lanes[k], c)
  BY <1>2 DEF InLine
<1>6. ASSUME NEW d \in y.pendingIds PROVE Held(w, d)'
  <2>1. d \in Commands /\ Held(w, d)
    BY <1>2, <1>4 DEF LineInv
  <2>2. d \notin Q!Waiting(LaneOf(w, d))
    BY <1>2, <1>3, <2>1 DEF LaneOf
  <2>3. LaneOf(w, d).running = d
    BY <2>1, <2>2 DEF Held, InLine, Q!Waiting
  <2> QED
    BY <1>2, <1>3, <2>1, <2>3 DEF Held, InLine, LaneOf
<1>7. ASSUME NEW c \in Commands, NEW d, Precedes(LaneOf(w, c), d, c)
      PROVE  Precedes(LaneOf(w, c)', d, c)
  BY <1>2, <1>3, <1>7 DEF Precedes, LaneOf
<1>8. LineInv(w)'
  BY <1>5, <1>6, <1>7, LinesMove
<1>9. PollInv(w)'
  BY DEF PollInv
<1> QED
  BY <1>8, <1>9
-----------------------------------------------------------------------------
(* The steps of a poll.                                                    *)

LEMMA MinOfTwo ==
    ASSUME NEW a \in Int, NEW b \in Int
    PROVE  Min({a, b}) \in {a, b} /\ Min({a, b}) <= a /\ Min({a, b}) <= b
<1>1. \E x \in {a, b} : \A y \in {a, b} : x <= y
  <2>1. CASE a <= b
    BY <2>1
  <2>2. CASE b <= a
    BY <2>2
  <2> QED
    BY <2>1, <2>2
<1>2. Min({a, b}) = CHOOSE x \in {a, b} : \A y \in {a, b} : x <= y
  BY DEF Min
<1>3. Min({a, b}) \in {a, b} /\ \A y \in {a, b} : Min({a, b}) <= y
  BY <1>1, <1>2
<1> QED
  BY <1>3

\* No two commands are before each other.
LEMMA OneOrder ==
    ASSUME StoreTypeOK, CreatedInv, NEW c, NEW d, Before(c, d), Before(d, c)
    PROVE  FALSE
<1>1. DOMAIN created = 1..Len(created)
  BY DEF StoreTypeOK
<1>2. PICK i \in DOMAIN created, j \in DOMAIN created : i < j /\ created[i] = c /\ created[j] = d
  BY DEF Before
<1>3. PICK k \in DOMAIN created, l \in DOMAIN created : k < l /\ created[k] = d /\ created[l] = c
  BY DEF Before
<1>4. i = l /\ j = k
  BY <1>2, <1>3 DEF CreatedInv
<1> QED
  BY <1>1, <1>2, <1>3, <1>4

\* The lanes when the queue does not change.
LEMMA LinesKept ==
    ASSUME StoreTypeOK, AheadInv, Onward, NEW w \in Workers, LineInv(w), queue'[w] = queue[w]
    PROVE  LineInv(w)'
<1>1. \A c : LaneOf(w, c)' = LaneOf(w, c)
  BY DEF LaneOf
<1>2. \A d \in queue'[w].pendingIds : Held(w, d)'
  BY <1>1 DEF Held, LineInv
<1> QED
  BY <1>1, <1>2, LinesMove

LEMMA PollStartKeeps ==
    ASSUME StoreTypeOK, WorkerTypeOK, NEW w \in Workers, LineInv(w), PollInv(w),
           PollStart(w), UNCHANGED storeVars
    PROVE  PollInv(w)'
<1> DEFINE room == Room(w)
           limit == Min({PollLimit, room})
<1>1. queue'[w] = queue[w] /\ phase'[w] = phase[w] /\ phase[w] = "up" /\ room > 0
  BY DEF PollStart, upVars, Room
<1>2. poll'[w] = [pc |-> "finding", skip |-> queue[w].pendingIds, limit |-> limit, found |-> {}]
  BY DEF PollStart, WorkerTypeOK, Room
<1>3. UNCHANGED <<status, faults>>
  BY DEF storeVars, docVars
<1>4. room \in Int /\ PollLimit \in Int /\ PollLimit > 0
  BY RoomType, WorkerAssumption DEF WorkerTypeOK, Room
<1>5. limit \in {PollLimit, room} /\ limit <= room
  <2> HIDE DEF room
  <2> QED
    BY <1>4, MinOfTwo
<1>6. \A d : Held(w, d)' <=> Held(w, d)
  BY <1>1 DEF Held, LaneOf
<1>7. queue[w].pendingIds \subseteq Commands /\ \A c \in Commands : ConnectorOf[c] \in Connectors
  BY StoreAssumption DEF WorkerTypeOK, Q!Queue
<1>8. \A d \in queue[w].pendingIds : Held(w, d) /\ status[d] \notin Undecided
  BY <1>7 DEF LineInv, Held, LaneOf
<1>9. Room(w)' = room
  BY <1>1 DEF Room
<1> HIDE DEF limit, room
<1>10. 0 < limit
  BY <1>1, <1>4, <1>5
<1>11. FindingInv(w)'
  BY <1>1, <1>2, <1>3, <1>5, <1>6, <1>8, <1>9, <1>10 DEF FindingInv
<1>12. queue'[w].accepting
  BY <1>1 DEF PollInv
<1> QED
  BY <1>1, <1>2, <1>11, <1>12 DEF PollInv

\* The commands that have a document are finitely many.
LEMMA CreatedFinite ==
    ASSUME StoreTypeOK, CreatedInv, NEW S, S \subseteq Commands,
           \A c \in S : status[c] # "none"
    PROVE  IsFiniteSet(S)
<1> DEFINE R == {created[i] : i \in DOMAIN created}
<1>1. created \in Seq(Commands) /\ DOMAIN created = 1..Len(created) /\ Len(created) \in Nat
  BY DEF StoreTypeOK
<1>2. created \in Surjection(DOMAIN created, R)
  BY <1>1 DEF Surjection
<1>3. IsFiniteSet(DOMAIN created)
  BY <1>1, FS_Interval
<1>4. IsFiniteSet(R)
  BY <1>2, <1>3, FS_Surjection
<1>5. S \subseteq R
  BY DEF CreatedInv
<1> QED
  BY <1>4, <1>5, FS_Subset

LEMMA PollFindKeeps ==
    ASSUME StoreTypeOK, WorkerTypeOK, CreatedInv, AheadInv, NEW w \in Workers, PollInv(w),
           PollFind(w), UNCHANGED storeVars
    PROVE  PollInv(w)'
<1> DEFINE open == {c \in Commands : status[c] = "authorized" /\ c \notin poll[w].skip}
<1>1. PICK found \in SUBSET open :
        /\ Cardinality(found) = Min({poll[w].limit, Cardinality(open)})
        /\ \A c \in found, d \in open \ found : Before(c, d)
        /\ poll' = [poll EXCEPT ![w] =
               IF found = {} THEN IdlePoll
               ELSE [poll[w] EXCEPT !.pc = "resolving", !.found = found]]
  BY DEF PollFind
<1>2. queue'[w] = queue[w] /\ phase'[w] = phase[w] /\ UNCHANGED <<status, faults, ahead>>
  BY DEF PollFind, upVars, storeVars, docVars
<1>3. FindingInv(w)
  BY DEF PollFind, PollInv
<1>4. phase'[w] \in {"up", "stopping"} /\ queue'[w].accepting
  BY <1>2 DEF PollFind, PollInv
<1>5. CASE found = {}
  <2>1. poll'[w] = IdlePoll
    BY <1>1, <1>5 DEF WorkerTypeOK
  <2> QED
    BY <1>4, <2>1 DEF PollInv, IdlePoll
<1>6. CASE found # {}
  <2>1. poll'[w].pc = "resolving" /\ poll'[w].found = found
    BY <1>1, <1>6 DEF WorkerTypeOK
  <2>2. IsFiniteSet(open)
    BY CreatedFinite
  <2>3. IsFiniteSet(found)
    BY <2>2, FS_Subset
  <2>4. Cardinality(open) \in Int /\ poll[w].limit \in Int
    BY <2>2, FS_CardinalityType DEF WorkerTypeOK
  <2>5. Cardinality(found) <= poll[w].limit /\ Cardinality(found) \in Int
    <3> HIDE DEF open
    <3>1. Min({poll[w].limit, Cardinality(open)}) <= poll[w].limit
      BY <2>4, MinOfTwo
    <3> QED
      BY <1>1, <2>3, <3>1, FS_CardinalityType
  <2>6. Cardinality(found) <= Room(w)'
    <3>1. Room(w)' = Room(w) /\ Room(w) \in Int
      BY <1>2, RoomType DEF Room, WorkerTypeOK
    <3> QED
      BY <1>3, <2>4, <2>5, <3>1 DEF FindingInv
  <2>7. found \cap queue'[w].pendingIds = {}
    BY <1>2, <1>3 DEF FindingInv
  <2>8. \A c \in found : status'[c] \notin Undecided
    BY <1>2 DEF Undecided
  <2>9. ASSUME faults' = 0, NEW c \in found, NEW d \in ahead[c], status[d] = "authorized"
        PROVE  Held(w, d)' \/ d \in found
    <3>1. c \in Commands /\ d \in Commands /\ Before(d, c)
      BY DEF AheadInv, StoreTypeOK
    <3>2. CASE d \in poll[w].skip
      <4>1. Held(w, d)
        BY <1>2, <1>3, <2>9, <3>2 DEF FindingInv
      <4> QED
        BY <1>2, <4>1 DEF Held, LaneOf
    <3>3. CASE d \notin poll[w].skip /\ d \notin found
      <4>1. Before(c, d)
        BY <1>1, <2>9, <3>1, <3>3
      <4> QED
        BY <3>1, <4>1, OneOrder
    <3> QED
      BY <3>2, <3>3
  <2>10. FoundInv(w)'
    BY <1>2, <2>1, <2>3, <2>6, <2>7, <2>8, <2>9 DEF FoundInv
  <2> QED
    BY <1>4, <2>1, <2>10 DEF PollInv
<1> QED
  BY <1>5, <1>6

LEMMA PollResolveKeeps ==
    ASSUME WorkerTypeOK, NEW w \in Workers, PollInv(w), PollResolve(w), UNCHANGED storeVars
    PROVE  PollInv(w)'
<1>1. /\ queue'[w] = queue[w] /\ phase'[w] = phase[w] /\ UNCHANGED <<status, faults, ahead>>
      /\ poll[w].pc = "resolving"
  BY DEF PollResolve, upVars, storeVars, docVars
<1>2. poll'[w].pc = "enqueuing" /\ poll'[w].found = poll[w].found
  BY DEF PollResolve, WorkerTypeOK
<1>3. FoundInv(w)
  BY <1>1 DEF PollInv
<1>4. FoundInv(w)'
  BY <1>1, <1>2, <1>3 DEF FoundInv, Room, Held, LaneOf
<1> QED
  BY <1>1, <1>2, <1>4 DEF PollInv
\* A candidate is offered: it is accepted, and those ahead of it are there.
LEMMA PollEnqueueKeeps ==
    ASSUME StoreTypeOK, WorkerTypeOK, WorkerTypeOK', CreatedInv, AheadInv,
           NEW w \in Workers, LineInv(w), PollInv(w), PollEnqueue(w), UNCHANGED storeVars
    PROVE  LineInv(w)' /\ PollInv(w)'
<1>1. PICK c \in poll[w].found : (\A d \in poll[w].found : ~Before(d, c)) /\ Offer(w, c)
  BY DEF PollEnqueue
<1> DEFINE x == queue[w]
           y == queue'[w]
           k == ConnectorOf[c]
           F == poll[w].found
           rest == F \ {c}
<1>2. /\ x \in Q!Queue /\ F \subseteq Commands /\ c \in Commands /\ k \in Connectors
      /\ poll[w].pc = "enqueuing"
  BY StoreAssumption DEF WorkerTypeOK, PollEnqueue
<1>3. FoundInv(w)
  BY <1>2 DEF PollInv
<1>4. phase'[w] = phase[w] /\ UNCHANGED <<status, created, faults, ahead>>
  BY <1>1 DEF Offer, upVars, storeVars, docVars
<1>5. Onward
  BY <1>4 DEF Onward
<1>6. x.accepting /\ phase[w] \in {"up", "stopping"}
  BY <1>2 DEF PollInv
<1>7. IsFiniteSet(F) /\ Cardinality(F) \in Int /\ Cardinality(F) >= 1 /\ IsFiniteSet(rest)
      /\ Cardinality(rest) = Cardinality(F) - 1
  <2>1. IsFiniteSet(F) /\ c \in F
    BY <1>3 DEF FoundInv
  <2>2. IsFiniteSet(rest) /\ Cardinality(rest) = Cardinality(F) - 1
    BY <2>1, FS_RemoveElement
  <2>3. Cardinality(F) \in Nat /\ Cardinality(rest) \in Nat
    BY <2>1, <2>2, FS_CardinalityType
  <2> QED
    BY <2>1, <2>2, <2>3
<1>8. Q!Pending(x) \in Int /\ Capacity \in Int /\ Q!Pending(x) + Cardinality(F) <= Capacity
  <2>1. Q!Pending(x) \in Int /\ Capacity \in Int
    BY <1>2, WorkerAssumption DEF Q!Queue, Q!Pending
  <2> QED
    BY <1>3, <1>7, <2>1 DEF FoundInv, Room
<1>9. Q!CanEnqueue(x, c)
  <2>1. c \notin x.pendingIds
    BY <1>3 DEF FoundInv
  <2> QED
    BY <1>6, <1>7, <1>8, <2>1 DEF Q!CanEnqueue
<1>10. y = Q!Enqueue(x, k, c)
  <2>1. queue' = [queue EXCEPT ![w] = Q!Enqueue(@, k, c)]
    BY <1>1, <1>9 DEF Offer
  <2> QED
    BY <2>1 DEF WorkerTypeOK
<1>11. poll'[w] = IF rest = {} THEN IdlePoll ELSE [poll[w] EXCEPT !.found = rest]
  BY <1>1 DEF Offer, WorkerTypeOK
<1>12. /\ y.accepting = x.accepting
       /\ y.pendingIds = x.pendingIds \cup {c}
       /\ Q!Pending(y) = Q!Pending(x) + 1
       /\ \A l \in Connectors \ {k} : y.lanes[l] = x.lanes[l]
       /\ \A d \in Commands : InLine(y.lanes[k], d) <=> InLine(x.lanes[k], d) \/ d = c
       /\ \A e, d \in Commands :
            /\ Precedes(x.lanes[k], d, e) \/ (e = c /\ ~InLine(x.lanes[k], c))
            /\ e = c => InLine(x.lanes[k], d)
            => Precedes(y.lanes[k], d, e)
  BY <1>2, <1>10, AcceptKeeps
<1>13. ahead \in [Commands -> SUBSET Commands] /\ x.pendingIds \subseteq Commands
       /\ \A d \in Commands : ConnectorOf[d] \in Connectors
  BY <1>2, StoreAssumption DEF StoreTypeOK, Q!Queue
<1> HIDE DEF k
<1>14. ASSUME NEW d \in Commands, Held(w, d) \/ d = c PROVE Held(w, d)'
  <2>1. CASE ConnectorOf[d] = k
    BY <1>12, <1>14, <2>1 DEF Held, LaneOf
  <2>2. CASE ConnectorOf[d] # k
    <3>1. d # c
      BY <2>2 DEF k
    <3> QED
      BY <1>12, <1>13, <1>14, <2>2, <3>1 DEF Held, LaneOf
  <2> QED
    BY <2>1, <2>2
\* Those ahead of c are in its lane: they are older, and none is found.
<1>15. ASSUME faults = 0, NEW d \in ahead[c], status[d] = "authorized"
       PROVE  InLine(x.lanes[k], d)
  <2>1. d \in Commands /\ Before(d, c) /\ ConnectorOf[d] = k
    BY <1>2, <1>13 DEF AheadInv, k
  <2>2. Held(w, d) \/ d \in F
    BY <1>3, <1>15 DEF FoundInv
  <2> QED
    BY <1>1, <2>1, <2>2 DEF Held, LaneOf
<1>16. LineInv(w)'
  <2>1. ASSUME NEW l \in Connectors, NEW d \in Commands, InLine(y.lanes[l], d)
        PROVE  InLine(x.lanes[l], d) \/ (l = ConnectorOf[d] /\ status[d] \notin Undecided)
    <3>1. status[c] \notin Undecided
      BY <1>3 DEF FoundInv
    <3>2. CASE l = k
      BY <1>12, <2>1, <3>1, <3>2 DEF k
    <3>3. CASE l # k
      BY <1>12, <2>1, <3>3
    <3> QED
      BY <3>2, <3>3
  <2>2. \A d \in y.pendingIds : Held(w, d)'
    BY <1>2, <1>12, <1>13, <1>14 DEF LineInv
  <2>3. ASSUME faults' = 0, NEW e \in Commands, NEW d \in ahead[e],
               status[d] = "authorized", Precedes(LaneOf(w, e), d, e)
        PROVE  Precedes(LaneOf(w, e)', d, e)
    <3>1. d \in Commands /\ faults = 0
      BY <1>4, <1>13, <2>3
    <3>2. CASE ConnectorOf[e] = k
      <4>1. e = c => InLine(x.lanes[k], d)
        BY <1>15, <2>3, <3>1
      <4>2. Precedes(x.lanes[k], d, e)
        BY <2>3, <3>2 DEF LaneOf
      <4>3. Precedes(y.lanes[k], d, e)
        BY <1>12, <3>1, <4>1, <4>2
      <4> QED
        BY <3>2, <4>3 DEF LaneOf
    <3>3. CASE ConnectorOf[e] # k
      BY <1>12, <1>13, <2>3, <3>3 DEF LaneOf
    <3> QED
      BY <3>2, <3>3
  <2> QED
    BY <1>5, <2>1, <2>2, <2>3, LinesMove
<1>17. PollInv(w)'
  <2>1. phase'[w] \in {"up", "stopping"} /\ y.accepting
    BY <1>4, <1>6, <1>12
  <2>2. CASE rest = {}
    <3>1. poll'[w] = IdlePoll
      BY <1>11, <2>2
    <3> QED
      BY <2>1, <3>1 DEF PollInv, IdlePoll
  <2>3. CASE rest # {}
    <3>1. poll'[w] = [poll[w] EXCEPT !.found = rest]
      BY <1>11, <2>3
    <3>2. poll'[w].pc = "enqueuing" /\ poll'[w].found = rest
      BY <1>2, <3>1 DEF WorkerTypeOK
    <3>3. Cardinality(rest) <= Room(w)'
      BY <1>7, <1>8, <1>12 DEF Room
    <3>4. rest \cap y.pendingIds = {}
      BY <1>3, <1>12 DEF FoundInv
    <3>5. \A d \in rest : status'[d] \notin Undecided
      BY <1>3, <1>4 DEF FoundInv
    <3>6. ASSUME faults' = 0, NEW e \in rest, NEW d \in ahead'[e], status'[d] = "authorized"
          PROVE  Held(w, d)' \/ d \in rest
      <4>1. d \in Commands /\ d \in ahead[e] /\ status[d] = "authorized" /\ faults = 0
        BY <1>2, <1>4, <1>13, <3>6
      <4>2. Held(w, d) \/ d \in F
        BY <1>3, <4>1 DEF FoundInv
      <4> QED
        BY <1>14, <4>1, <4>2
    <3>7. FoundInv(w)'
      BY <1>7, <3>2, <3>3, <3>4, <3>5, <3>6 DEF FoundInv
    <3> QED
      BY <2>1, <3>2, <3>7 DEF PollInv
  <2> QED
    BY <2>2, <2>3
<1> QED
  BY <1>16, <1>17
-----------------------------------------------------------------------------
(* The steps of a task, reduced to what the order of commands depends on.  *)

\* The task goes on, or it ends and frees its lane.
GoesOn(w, c) ==
    /\ queue' = queue
    /\ \A d \in Commands \ {c} : task'[w][d] = task[w][d]

Ends(w, c) ==
    /\ queue' = [queue EXCEPT ![w] = Q!Finish(@, ConnectorOf[c])]
    /\ task'[w][c].pc = "none"
    /\ \A d \in Commands \ {c} : task'[w][d] = task[w][d]
    /\ faults' = 0 => status'[c] # "authorized"

\* The document of c stays, or moves on from a status its task knows.
MovesOn(c) ==
    \/ status' = status
    \/ \E s \in StoredStatuses \ Undecided :
         /\ status' = [status EXCEPT ![c] = s]
         /\ status[c] # "none" /\ s # "authorized"
         /\ s \in {"dispatched", "accepted_by_gateway"} =>
              status[c] = "dispatched" \/ (status[c] = "authorized" /\ s = "dispatched")

TaskShape(w, c) ==
    /\ UNCHANGED <<upVars, poll, created, ahead>>
    /\ \A v \in Workers \ {w} : task'[v] = task[v]
    /\ faults' = faults \/ (faults' = faults + 1 /\ faults < MaxFaults)
    /\ audits' = audits \/ audits' = audits \cup {<<c, "accepted_by_gateway">>}
    /\ task[w][c].pc # "none" \/ Current(w, c)
    /\ GoesOn(w, c) \/ Ends(w, c)
    /\ MovesOn(c)

\* What the parts of an action amount to.
LEMMA AdvanceEffect ==
    ASSUME CoreTypeOK, NEW w \in Workers, NEW c \in Commands, NEW work, Advance(w, c, work)
    PROVE  /\ \A v \in Workers \ {w} : task'[v] = task[v]
           /\ \A d \in Commands \ {c} : task'[w][d] = task[w][d]
           /\ task'[w][c] = work
BY DEF CoreTypeOK, Advance

LEMMA TaskHasShape ==
    ASSUME CoreInv, faults \in Nat, NEW w \in Workers, NEW c \in Commands,
           TaskStep(w, c) \/ TaskFault(w, c)
    PROVE  TaskShape(w, c)
<1>1. CoreTypeOK /\ TaskInv /\ Fits(task[w][c], c) /\ faults + 1 # 0
  BY DEF CoreInv, PipelineInv, TaskInv
<1>2. status \in [Commands -> StoredStatuses \cup {"none"}]
  BY <1>1 DEF CoreTypeOK
<1>3. UNCHANGED <<upVars, poll>>
  BY DEF TaskStep, TaskFault, Claim, ClaimMissed, NotExecutable, SendRpc, GatewayAccepts,
         ReceiptArrives, RpcThrows, StoreAccepted, AuditAccepted, FeedbackEnds, Complete,
         CompleteMissed, ClaimFails, OnAcceptedThrows, CompleteFails
<1> USE <1>1, <1>2, <1>3, AdvanceEffect DEF TaskShape, InTask, Claimable, EndTask, storeVars,
        docVars, Fault
<1>4. CASE Claim(w, c)
  BY <1>4 DEF Claim, GoesOn, MovesOn, UpdateStatusFrom, SaveStatus, StoredStatuses,
              PendingStatuses, TerminalStatuses, Undecided
<1>5. CASE ClaimMissed(w, c)
  BY <1>5 DEF ClaimMissed, Ends, MovesOn, NoWork
<1>6. CASE NotExecutable(w, c) \/ GatewayAccepts(w, c) \/ SendRpc(w, c)
  BY <1>6 DEF NotExecutable, GatewayAccepts, SendRpc, GoesOn, MovesOn
<1>7. CASE ReceiptArrives(w, c) \/ RpcThrows(w, c) \/ FeedbackEnds(w, c)
  BY <1>7 DEF ReceiptArrives, RpcThrows, FeedbackEnds, GoesOn, MovesOn
<1>8. CASE StoreAccepted(w, c)
  BY <1>8 DEF StoreAccepted, GoesOn, MovesOn, SaveStatus, StoredStatuses, PendingStatuses, Undecided
<1>9. CASE AuditAccepted(w, c)
  BY <1>9 DEF AuditAccepted, GoesOn, MovesOn, WriteAudit
<1>10. CASE Complete(w, c)
  <2>1. /\ UNCHANGED <<created, ahead, audits, faults>>
        /\ task[w][c].goal \in TerminalStatuses
        /\ status[c] \in {"dispatched", "accepted_by_gateway"}
        /\ status' = [status EXCEPT ![c] = task[w][c].goal]
        /\ EndTask(w, c) /\ task[w][c].pc = "storing"
    BY <1>10 DEF Complete, CompleteFrom, Fits, Completable
  <2>2. MovesOn(c) /\ status'[c] # "authorized"
    BY <2>1 DEF MovesOn, StoredStatuses, TerminalStatuses, Undecided
  <2>3. Ends(w, c)
    BY <2>1, <2>2 DEF Ends, NoWork
  <2> QED
    BY <2>1, <2>2, <2>3
<1>11. CASE CompleteMissed(w, c)
  BY <1>11 DEF CompleteMissed, Ends, MovesOn, NoWork, Fits, NotClaimed
<1>12. CASE ClaimFails(w, c)
  BY <1>12 DEF ClaimFails, Ends, MovesOn, UpdateStatusFrom, SaveStatus, StoredStatuses,
               PendingStatuses, TerminalStatuses, Undecided, NoWork
<1>13. CASE OnAcceptedThrows(w, c)
  BY <1>13 DEF OnAcceptedThrows, GoesOn, MovesOn, UpdateStatusFrom, SaveStatus, StoredStatuses,
               PendingStatuses, TerminalStatuses, Undecided
<1>14. CASE CompleteFails(w, c)
  <2>1. MovesOn(c) /\ UNCHANGED <<created, ahead, audits>> /\ faults' = faults + 1
    BY <1>14 DEF CompleteFails, MovesOn, CompleteFrom, Fits, StoredStatuses, TerminalStatuses,
                 Undecided, Completable
  <2>2. CASE task[w][c].inTry
    BY <1>14, <2>1, <2>2 DEF CompleteFails, GoesOn
  <2>3. CASE ~task[w][c].inTry
    BY <1>14, <2>1, <2>3 DEF CompleteFails, Ends, NoWork
  <2> QED
    BY <2>2, <2>3
<1> QED
  BY <1>4, <1>5, <1>6, <1>7, <1>8, <1>9, <1>10, <1>11, <1>12, <1>13, <1>14
     DEF TaskStep, TaskFault
\* The document a task moves on: a command is claimed at the head of its
\* lane, so no authorized one is ahead of it.
LEMMA TaskDocuments ==
    ASSUME CoreInv, StoreTypeOK, DocumentsInv, NEW w \in Workers, LineInv(w),
           NEW c \in Commands, TaskShape(w, c)
    PROVE  Onward /\ DocumentsInv'
<1>1. faults' = 0 => faults = 0
  BY DEF TaskShape, StoreTypeOK
<1>2. UNCHANGED <<created, ahead>>
  BY DEF TaskShape
<1>3. CASE status' = status
  BY <1>1, <1>2, <1>3, DocumentsKept
<1>4. CASE status' # status
  <2>1. PICK s \in StoredStatuses \ Undecided :
           /\ status' = [status EXCEPT ![c] = s]
           /\ status[c] # "none" /\ s # "authorized"
           /\ s \in {"dispatched", "accepted_by_gateway"} =>
                status[c] = "dispatched" \/ (status[c] = "authorized" /\ s = "dispatched")
    BY <1>4 DEF TaskShape, MovesOn
  <2>2. ASSUME status[c] = "authorized", faults = 0, NEW d \in ahead[c]
        PROVE  status[d] # "authorized"
    <3>1. task[w][c].pc = "none"
      BY <2>2 DEF CoreInv, PipelineInv, TaskInv, Fits, NotClaimed
    <3>2. LaneOf(w, c).running = c
      BY <3>1 DEF TaskShape, Current, LaneOf
    <3> QED
      BY <2>2, <3>2 DEF LineInv, Precedes
  <2> QED
    BY <1>1, <1>2, <2>1, <2>2, DocumentMoves
<1> QED
  BY <1>3, <1>4

\* What a task does to the lanes of its worker.
LEMMA TaskLines ==
    ASSUME StoreTypeOK, WorkerTypeOK, WorkerTypeOK', AheadInv, Onward,
           NEW w \in Workers, WorkerOrder(w), NEW c \in Commands, TaskShape(w, c)
    PROVE  WorkerOrder(w)'
<1>1. phase'[w] = phase[w] /\ poll'[w] = poll[w]
  BY DEF TaskShape, upVars
<1>2. LineInv(w) /\ PollInv(w) /\ OwnsInv(w)
  BY DEF WorkerOrder
<1>3. LaneOf(w, c).running = c
  BY <1>2 DEF OwnsInv, TaskShape, Current, LaneOf
<1>4. CASE GoesOn(w, c)
  <2>1. queue' = queue
    BY <1>4 DEF GoesOn
  <2>2. LineInv(w)' /\ PollInv(w)'
    BY <1>1, <1>2, <2>1, WorkerKept
  <2>3. OwnsInv(w)'
    BY <1>2, <1>3, <1>4, <2>1 DEF OwnsInv, GoesOn, LaneOf
  <2> QED
    BY <2>2, <2>3 DEF WorkerOrder
<1>5. CASE Ends(w, c)
  <2> DEFINE k == ConnectorOf[c]
  <2>1. k \in Connectors /\ queue[w] \in Q!Queue /\ \A d \in Commands : ConnectorOf[d] \in Connectors
    BY StoreAssumption DEF WorkerTypeOK
  <2>2. queue'[w] = Q!Finish(queue[w], k)
    BY <1>5 DEF Ends, WorkerTypeOK
  <2>3. LineInv(w)' /\ PollInv(w)'
    BY <1>1, <1>2, <1>3, <1>5, <2>2, TaskEnds DEF Ends
  <2>4. \A l \in Connectors \ {k} : queue'[w].lanes[l] = queue[w].lanes[l]
    BY <2>1, <2>2, FinishKeeps
  <2>5. ASSUME NEW d \in Commands, task'[w][d].pc # "none"
        PROVE  LaneOf(w, d)'.running = d
    <3>1. d # c /\ task[w][d].pc # "none"
      BY <1>5, <2>5 DEF Ends
    <3>2. LaneOf(w, d).running = d
      BY <1>2, <3>1 DEF OwnsInv
    <3>3. ConnectorOf[d] # k
      BY <1>3, <3>1, <3>2 DEF LaneOf
    <3> QED
      BY <2>1, <2>4, <3>2, <3>3 DEF LaneOf
  <2>6. OwnsInv(w)'
    BY <2>5 DEF OwnsInv
  <2> QED
    BY <2>3, <2>6 DEF WorkerOrder
<1> QED
  BY <1>4, <1>5 DEF TaskShape

\* A worker that has no part in the step.
LEMMA OtherWorker ==
    ASSUME StoreTypeOK, WorkerTypeOK, WorkerTypeOK', AheadInv, Onward,
           NEW w \in Workers, WorkerOrder(w),
           UNCHANGED <<queue[w], poll[w], phase[w], task[w]>>
    PROVE  WorkerOrder(w)'
<1>1. LineInv(w)' /\ PollInv(w)'
  BY WorkerKept DEF WorkerOrder
<1>2. OwnsInv(w)'
  BY DEF WorkerOrder, OwnsInv, LaneOf
<1> QED
  BY <1>1, <1>2 DEF WorkerOrder
-----------------------------------------------------------------------------
(* Types.                                                                  *)

\* The queue of a worker remains a queue.
LEMMA QueueTypeKept ==
    ASSUME WorkerTypeOK, NEW w \in Workers, NEW x \in Q!Queue, queue' = [queue EXCEPT ![w] = x]
    PROVE  queue' \in [Workers -> Q!Queue]
BY DEF WorkerTypeOK

LEMMA EmptyQueueType == Q!EmptyQueue \in Q!Queue
<1>1. Q!EmptyLane \in Q!Lane
  BY DEF Q!EmptyLane, Q!Lane
<1> QED
  BY <1>1 DEF Q!EmptyQueue, Q!Queue

PollState == [ pc : {"idle", "finding", "resolving", "enqueuing"}, skip : SUBSET Commands,
               limit : Int, found : SUBSET Commands ]

\* The variables CoreTypeOK says nothing about.
RestTypeOK ==
    /\ created \in Seq(Commands)
    /\ audits \in SUBSET (Commands \X AuditKinds)
    /\ faults \in 0..MaxFaults
    /\ ahead \in [Commands -> SUBSET Commands]
    /\ phase \in [Workers -> {"down", "up", "stopping", "closing"}]
    /\ stops \in 0..MaxStops
    /\ queue \in [Workers -> Q!Queue]
    /\ poll \in [Workers -> PollState]

LEMMA SameTypes == TypeOK <=> CoreTypeOK /\ RestTypeOK
BY DEF TypeOK, CoreTypeOK, RestTypeOK, StoreTypeOK, GatewayTypeOK, WorkerTypeOK, PollState, Work,
       AuditRun

LEMMA SameTypesNext == TypeOK' <=> CoreTypeOK' /\ RestTypeOK'
BY DEF TypeOK, CoreTypeOK, RestTypeOK, StoreTypeOK, GatewayTypeOK, WorkerTypeOK, PollState, Work,
       AuditRun

LEMMA TaskTypes ==
    ASSUME RestTypeOK, NEW w \in Workers, NEW c \in Commands, TaskShape(w, c)
    PROVE  RestTypeOK'
<1>1. UNCHANGED <<created, ahead, phase, stops, poll>>
  BY DEF TaskShape, upVars
<1>2. faults' \in 0..MaxFaults
  BY StoreAssumption DEF RestTypeOK, TaskShape
<1>3. audits' \in SUBSET (Commands \X AuditKinds)
  BY DEF RestTypeOK, TaskShape, AuditKinds
<1>4. queue' \in [Workers -> Q!Queue]
  <2>1. CASE queue' = queue
    BY <2>1 DEF RestTypeOK
  <2>2. CASE queue' = [queue EXCEPT ![w] = Q!Finish(@, ConnectorOf[c])]
    <3>1. ConnectorOf[c] \in Connectors /\ queue[w] \in Q!Queue
      BY StoreAssumption DEF RestTypeOK
    <3>2. Q!Finish(queue[w], ConnectorOf[c]) \in Q!Queue
      BY <3>1, FinishKeeps
    <3> QED
      BY <2>2, <3>2 DEF RestTypeOK
  <2> QED
    BY <2>1, <2>2 DEF TaskShape, GoesOn, Ends
<1> QED
  BY <1>1, <1>2, <1>3, <1>4 DEF RestTypeOK

LEMMA GatewayTypes ==
    ASSUME CoreInv, RestTypeOK, GatewayNext, UNCHANGED workerVars
    PROVE  RestTypeOK'
<1>1. PICK r \in Requests :
         \/ Admit(r) \/ CheckLiveReads(r) \/ PolicyRejects(r) \/ AuditRejected(r)
         \/ Create(r) \/ RefuseUnavailable(r) \/ AuditRefused(r)
         \/ Authorize(r) \/ AuditAuthorized(r) \/ Abandon(r)
  BY DEF GatewayNext
<1>2. UNCHANGED <<phase, stops, queue, poll>>
  BY DEF workerVars, upVars, memVars
<1>3. CommandOf[r] \in Commands
  BY GatewayAssumption
<1>4. created' = created \/ created' = Append(created, CommandOf[r])
  BY <1>1 DEF Admit, CheckLiveReads, PolicyRejects, AuditRejected, Create, RefuseUnavailable, AuditRefused, Authorize,
              AuditAuthorized, Abandon, storeVars, docVars, SaveStatus, InsertRequested
<1>5. ahead' = ahead \/ \E S \in SUBSET Commands : ahead' = [ahead EXCEPT ![CommandOf[r]] = S]
  BY <1>1 DEF Admit, CheckLiveReads, PolicyRejects, AuditRejected, Create, RefuseUnavailable, AuditRefused, Authorize,
              AuditAuthorized, Abandon, storeVars, docVars, SaveStatus, InsertRequested
<1>6. /\ faults' = faults
      /\ \/ audits' = audits
         \/ \E a \in {"rejected", "authorized", "turned_away"} : audits' = audits \cup {<<CommandOf[r], a>>}
  BY <1>1 DEF Admit, CheckLiveReads, PolicyRejects, AuditRejected, Create, RefuseUnavailable, AuditRefused, Authorize,
              AuditAuthorized, Abandon, storeVars, docVars, SaveStatus, InsertRequested, WriteAudit
<1>7. created' \in Seq(Commands)
  <2>1. created \in Seq(Commands)
    BY DEF RestTypeOK
  <2> QED
    BY <1>3, <1>4, <2>1, AppendProperties
<1>8. ahead' \in [Commands -> SUBSET Commands]
  BY <1>5 DEF RestTypeOK
<1>9. audits' \in SUBSET (Commands \X AuditKinds) /\ faults' \in 0..MaxFaults
  BY <1>3, <1>6 DEF RestTypeOK, AuditKinds, TerminalStatuses
<1> QED
  BY <1>2, <1>7, <1>8, <1>9 DEF RestTypeOK
LEMMA ProcessTypes ==
    ASSUME RestTypeOK, NEW w \in Workers, ProcessNext(w), UNCHANGED storeVars
    PROVE  RestTypeOK'
<1>1. UNCHANGED <<created, audits, faults, ahead>>
  BY DEF storeVars, docVars
<1>2. phase' \in [Workers -> {"down", "up", "stopping", "closing"}]
  BY DEF ProcessNext, Start, Crash, BeginShutdown, CloseQueue, Exit, Lose, RestTypeOK
<1>3. stops' \in 0..MaxStops
  BY WorkerAssumption DEF ProcessNext, Start, Crash, BeginShutdown, CloseQueue, Exit, RestTypeOK
<1>4. IdlePoll \in PollState
  BY DEF IdlePoll, PollState
<1>5. poll' = poll \/ poll' = [poll EXCEPT ![w] = IdlePoll]
  BY DEF ProcessNext, Start, Crash, BeginShutdown, CloseQueue, Exit, Lose, memVars
<1>6. poll' \in [Workers -> PollState]
  BY <1>4, <1>5 DEF RestTypeOK
<1>7. queue' \in [Workers -> Q!Queue]
  <2>1. queue[w] \in Q!Queue
    BY DEF RestTypeOK
  <2>2. Q!CancelWaiting(Q!StopAccepting(queue[w])) \in Q!Queue
    BY <2>1, CloseKeeps
  <2>3. \/ queue' = queue \/ queue' = [queue EXCEPT ![w] = Q!EmptyQueue]
        \/ queue' = [queue EXCEPT ![w] = Q!CancelWaiting(Q!StopAccepting(@))]
    BY DEF ProcessNext, Start, Crash, BeginShutdown, CloseQueue, Exit, Lose, memVars
  <2> QED
    BY <2>2, <2>3, EmptyQueueType DEF RestTypeOK
<1> QED
  BY <1>1, <1>2, <1>3, <1>6, <1>7 DEF RestTypeOK

LEMMA PollTypes ==
    ASSUME RestTypeOK, NEW w \in Workers,
           (PollStep(w) /\ UNCHANGED faults) \/ PollFails(w), UNCHANGED <<docVars, audits>>
    PROVE  RestTypeOK'
<1>1. UNCHANGED <<created, audits, ahead, phase, stops>>
  BY DEF PollStep, PollStart, PollFind, PollResolve, PollEnqueue, Offer, PollFails, docVars, upVars
<1>2. faults' \in 0..MaxFaults
  BY StoreAssumption DEF PollFails, Fault, RestTypeOK
<1>3. queue[w] \in Q!Queue /\ poll[w] \in PollState
  BY DEF RestTypeOK
<1>4. IdlePoll \in PollState
  BY DEF IdlePoll, PollState
<1>5. CASE PollStart(w)
  <2> DEFINE room == Room(w)
             limit == Min({PollLimit, room})
             next == [pc |-> "finding", skip |-> queue[w].pendingIds, limit |-> limit, found |-> {}]
  <2>1. room \in Int /\ PollLimit \in Int
    BY <1>3, RoomType, WorkerAssumption DEF Room
  <2>2. limit \in Int
    <3> HIDE DEF room
    <3> QED
      BY <2>1, MinOfTwo
  <2>3. queue[w].pendingIds \subseteq Commands
    BY <1>3 DEF Q!Queue
  <2>4. poll' = [poll EXCEPT ![w] = next] /\ queue' = queue
    BY <1>5 DEF PollStart, Room
  <2> HIDE DEF limit
  <2>5. next \in PollState
    BY <2>2, <2>3 DEF PollState
  <2> QED
    BY <1>1, <1>2, <2>4, <2>5 DEF RestTypeOK
<1>6. CASE PollFind(w)
  <2>1. PICK found \in SUBSET Commands :
           poll' = [poll EXCEPT ![w] =
               IF found = {} THEN IdlePoll
               ELSE [poll[w] EXCEPT !.pc = "resolving", !.found = found]]
    BY <1>6 DEF PollFind
  <2>2. [poll[w] EXCEPT !.pc = "resolving", !.found = found] \in PollState
    BY <1>3 DEF PollState
  <2>3. poll' \in [Workers -> PollState]
    BY <1>4, <2>1, <2>2 DEF RestTypeOK
  <2> QED
    BY <1>1, <1>2, <1>6, <2>3 DEF RestTypeOK, PollFind
<1>7. CASE PollResolve(w)
  <2>1. [poll[w] EXCEPT !.pc = "enqueuing"] \in PollState
    BY <1>3 DEF PollState
  <2>2. poll' = [poll EXCEPT ![w] = [poll[w] EXCEPT !.pc = "enqueuing"]]
    BY <1>7 DEF PollResolve
  <2> QED
    BY <1>1, <1>2, <1>7, <2>1, <2>2 DEF RestTypeOK, PollResolve
<1>8. CASE PollEnqueue(w)
  <2>1. PICK c \in poll[w].found : Offer(w, c)
    BY <1>8 DEF PollEnqueue
  <2>2. c \in Commands /\ ConnectorOf[c] \in Connectors
    BY <1>3, StoreAssumption DEF PollState
  <2>3. Q!Enqueue(queue[w], ConnectorOf[c], c) \in Q!Queue
    BY <1>3, <2>2, AcceptKeeps
  <2>4. queue' \in [Workers -> Q!Queue]
    BY <2>1, <2>3 DEF Offer, RestTypeOK
  <2>5. [poll[w] EXCEPT !.found = poll[w].found \ {c}] \in PollState
    BY <1>3 DEF PollState
  <2>6. poll' \in [Workers -> PollState]
    BY <1>4, <2>1, <2>5 DEF Offer, RestTypeOK
  <2> QED
    BY <1>1, <1>2, <2>4, <2>6 DEF RestTypeOK
<1>9. CASE PollFails(w)
  BY <1>1, <1>2, <1>4, <1>9 DEF RestTypeOK, PollFails
<1> QED
  BY <1>5, <1>6, <1>7, <1>8, <1>9 DEF PollStep

\* Audit writes, and the passes of the recovery, touch no document.
LEMMA AuditShape ==
    ASSUME RestTypeOK, NEW w \in Workers, RecoveryStart(w) \/ \E p \in Pairs : AuditStep(w, p)
    PROVE  /\ RestTypeOK'
           /\ UNCHANGED <<status, created, ahead, phase, queue, poll, task>>
           /\ faults' = 0 => faults = 0
<1>1. CASE RecoveryStart(w)
  BY <1>1 DEF RecoveryStart, storeVars, docVars, upVars, RestTypeOK
<1>2. CASE \E p \in Pairs : AuditStep(w, p)
  <2>1. PICK p \in Pairs : AuditStep(w, p)
    BY <1>2
  <2>2. /\ UNCHANGED <<status, created, ahead, phase, stops, queue, poll, task>>
        /\ faults' = faults \/ (faults < MaxFaults /\ faults' = faults + 1)
        /\ audits' = audits \/ audits' = audits \cup {<<p[1], p[2]>>}
    BY <2>1 DEF AuditStep, ImmediateAudit, ImmediateClear, RecoveryAudit, RecoveryClear,
                ClearAuditPending, WriteAudit, Fault, docVars, upVars
  <2>3. p[1] \in Commands /\ p[2] \in AuditKinds
    BY DEF Pairs, AuditKinds
  <2>4. faults' \in 0..MaxFaults /\ (faults' = 0 => faults = 0)
    BY <2>2, StoreAssumption DEF RestTypeOK
  <2> QED
    BY <2>2, <2>3, <2>4 DEF RestTypeOK
<1> QED
  BY <1>1, <1>2
-----------------------------------------------------------------------------
(* Every step.                                                             *)

LEMMA OrderInitially == Init => OrderIInv
<1> SUFFICES ASSUME Init PROVE OrderIInv
  OBVIOUS
<1> USE DEF Init, StoreInit, GatewayInit, WorkerInit
<1>1. TypeOK
  <2>1. CoreTypeOK
    BY InitCore DEF CoreInv
  <2>2. IdlePoll \in PollState
    BY DEF IdlePoll, PollState
  <2>3. RestTypeOK
    BY <2>2, EmptyQueueType, StoreAssumption, WorkerAssumption DEF RestTypeOK
  <2> QED
    BY <2>1, <2>3, SameTypes
<1>2. DocumentsInv
  BY DEF DocumentsInv, CreatedInv, AheadInv, ClaimedInOrder
<1>3. ASSUME NEW w \in Workers PROVE WorkerOrder(w)
  <2>1. queue[w] = Q!EmptyQueue /\ poll[w] = IdlePoll /\ phase[w] = "down"
        /\ \A c \in Commands : task[w][c] = NoWork
    OBVIOUS
  <2>2. \A k \in Connectors, c \in Commands : ~InLine(queue[w].lanes[k], c)
    BY <2>1, WorkerAssumption DEF Q!EmptyQueue, Q!EmptyLane, InLine
  <2>3. queue[w].pendingIds = {} /\ queue[w].accepting
    BY <2>1 DEF Q!EmptyQueue
  <2>4. LineInv(w)
    BY <2>2, <2>3 DEF LineInv
  <2>5. PollInv(w)
    BY <2>1, <2>3 DEF PollInv, IdlePoll
  <2>6. OwnsInv(w)
    BY <2>1 DEF OwnsInv, NoWork
  <2> QED
    BY <2>4, <2>5, <2>6 DEF WorkerOrder
<1> QED
  BY <1>1, <1>2, <1>3 DEF OrderIInv

\* The API decides about a command that is in no lane, and in no poll.
LEMMA GatewayOrder ==
    ASSUME CoreInv, CoreInv', OrderIInv, GatewayNext, UNCHANGED workerVars
    PROVE  OrderIInv'
<1>1. PICK r \in Requests :
         \/ Admit(r) \/ CheckLiveReads(r) \/ PolicyRejects(r) \/ AuditRejected(r)
         \/ Create(r) \/ RefuseUnavailable(r) \/ AuditRefused(r)
         \/ Authorize(r) \/ AuditAuthorized(r) \/ Abandon(r)
  BY DEF GatewayNext
<1> DEFINE c == CommandOf[r]
<1>2. c \in Commands /\ DocumentsInv /\ StoreTypeOK /\ WorkerTypeOK
  BY GatewayAssumption DEF OrderIInv, TypeOK
<1>3. RestTypeOK /\ CoreTypeOK'
  BY SameTypes DEF OrderIInv, CoreInv
<1>4. TypeOK'
  BY <1>3, GatewayTypes, SameTypesNext
<1>5. UNCHANGED <<phase, queue, poll, task>>
  BY DEF workerVars, upVars, memVars
<1>6. Onward /\ DocumentsInv'
  <2>1. CASE Create(r) /\ status[c] = "none"
    <3>1. InsertRequested(c) /\ UNCHANGED faults
      BY <2>1 DEF Create
    <3> QED
      BY <1>2, <2>1, <3>1, DocumentAppears
  <2>2. CASE RefuseUnavailable(r) \/ Authorize(r)
    <3>1. PICK s \in {"rejected", "authorized"} : SaveStatus(c, s)
      BY <2>2 DEF RefuseUnavailable, Authorize
    <3>2. status[c] = "requested" /\ UNCHANGED faults
      BY <2>2 DEF RefuseUnavailable, Authorize, CoreInv, PipelineInv, HandlerInv
    <3>3. status' = [status EXCEPT ![c] = s] /\ UNCHANGED <<created, ahead>>
      BY <3>1 DEF SaveStatus
    <3> QED
      BY <1>2, <3>2, <3>3, DocumentMoves DEF Undecided
  <2>3. CASE UNCHANGED <<status, created, ahead, faults>>
    BY <1>2, <2>3, DocumentsKept
  <2> QED
    BY <1>1, <2>1, <2>2, <2>3 DEF Admit, CheckLiveReads, PolicyRejects, AuditRejected, Create,
                                  AuditRefused, AuditAuthorized, Abandon, storeVars, docVars
<1>7. \A w \in Workers : WorkerOrder(w)'
  <2> SUFFICES ASSUME NEW w \in Workers PROVE WorkerOrder(w)'
    OBVIOUS
  <2>1. WorkerOrder(w) /\ WorkerTypeOK' /\ AheadInv
    BY <1>2, <1>4 DEF OrderIInv, TypeOK, DocumentsInv
  <2>2. UNCHANGED <<queue[w], poll[w], phase[w], task[w]>>
    BY <1>5
  <2> QED
    BY <1>2, <1>6, <2>1, <2>2, OtherWorker
<1> QED
  BY <1>4, <1>6, <1>7 DEF OrderIInv

\* What one worker does: the others keep what they have.
LEMMA OneWorker ==
    ASSUME OrderIInv, TypeOK', Onward, DocumentsInv', NEW w \in Workers, WorkerOrder(w)',
           \A v \in Workers \ {w} : UNCHANGED <<queue[v], poll[v], phase[v], task[v]>>
    PROVE  OrderIInv'
<1>1. ASSUME NEW v \in Workers, v # w PROVE WorkerOrder(v)'
  <2>1. StoreTypeOK /\ WorkerTypeOK /\ WorkerTypeOK' /\ AheadInv /\ WorkerOrder(v)
    BY DEF OrderIInv, TypeOK, DocumentsInv
  <2>2. UNCHANGED <<queue[v], poll[v], phase[v], task[v]>>
    BY <1>1
  <2> QED
    BY <2>1, <2>2, OtherWorker
<1> QED
  BY <1>1 DEF OrderIInv

LEMMA TaskOrder ==
    ASSUME CoreInv, CoreInv', OrderIInv, NEW w \in Workers, NEW c \in Commands,
           TaskStep(w, c) \/ TaskFault(w, c)
    PROVE  OrderIInv'
<1>1. /\ StoreTypeOK /\ WorkerTypeOK /\ DocumentsInv /\ AheadInv /\ WorkerOrder(w) /\ LineInv(w)
      /\ RestTypeOK /\ CoreTypeOK'
  BY SameTypes DEF OrderIInv, TypeOK, DocumentsInv, WorkerOrder, CoreInv
<1>2. faults \in Nat
  BY <1>1, StoreAssumption DEF StoreTypeOK
<1>3. TaskShape(w, c)
  BY <1>2, TaskHasShape
<1>4. TypeOK'
  BY <1>1, <1>3, TaskTypes, SameTypesNext
<1>5. Onward /\ DocumentsInv'
  BY <1>1, <1>3, TaskDocuments
<1>6. WorkerOrder(w)'
  <2>1. WorkerTypeOK'
    BY <1>4 DEF TypeOK
  <2> QED
    BY <1>1, <1>3, <1>5, <2>1, TaskLines
<1>7. \A v \in Workers \ {w} : UNCHANGED <<queue[v], poll[v], phase[v], task[v]>>
  BY <1>1, <1>3 DEF TaskShape, GoesOn, Ends, upVars, WorkerTypeOK
<1> QED
  BY <1>4, <1>5, <1>6, <1>7, OneWorker

LEMMA PollOrder ==
    ASSUME CoreInv', OrderIInv, NEW w \in Workers,
           (PollStep(w) /\ UNCHANGED faults) \/ PollFails(w), UNCHANGED <<docVars, audits>>
    PROVE  OrderIInv'
<1>1. /\ StoreTypeOK /\ WorkerTypeOK /\ DocumentsInv /\ AheadInv /\ CreatedInv
      /\ LineInv(w) /\ PollInv(w) /\ OwnsInv(w) /\ RestTypeOK /\ CoreTypeOK'
  BY SameTypes DEF OrderIInv, TypeOK, DocumentsInv, WorkerOrder, CoreInv
<1>2. TypeOK' /\ WorkerTypeOK'
  BY <1>1, PollTypes, SameTypesNext DEF TypeOK
<1>3. UNCHANGED <<status, created, ahead, phase, task>>
  BY DEF PollStep, PollStart, PollFind, PollResolve, PollEnqueue, Offer, PollFails, docVars, upVars
<1>4. faults' = 0 => faults = 0
  BY <1>1, StoreAssumption DEF PollFails, Fault, StoreTypeOK
<1>5. Onward /\ DocumentsInv'
  BY <1>1, <1>3, <1>4, DocumentsKept
<1>6. LineInv(w)' /\ PollInv(w)'
  <2>1. CASE PollStep(w) /\ UNCHANGED faults
    <3>1. UNCHANGED storeVars
      BY <2>1 DEF storeVars
    <3>2. CASE PollStart(w) \/ PollFind(w) \/ PollResolve(w)
      <4>1. queue'[w] = queue[w]
        BY <3>2 DEF PollStart, PollFind, PollResolve
      <4>2. LineInv(w)'
        BY <1>1, <1>5, <4>1, LinesKept
      <4>3. PollInv(w)'
        BY <1>1, <3>1, <3>2, PollStartKeeps, PollFindKeeps, PollResolveKeeps
      <4> QED
        BY <4>2, <4>3
    <3>3. CASE PollEnqueue(w)
      BY <1>1, <1>2, <3>1, <3>3, PollEnqueueKeeps
    <3> QED
      BY <2>1, <3>2, <3>3 DEF PollStep
  <2>2. CASE PollFails(w)
    <3>1. queue'[w] = queue[w] /\ poll'[w] = IdlePoll /\ phase'[w] = phase[w]
      BY <1>1, <2>2 DEF PollFails, upVars, WorkerTypeOK
    <3>2. LineInv(w)'
      BY <1>1, <1>5, <3>1, LinesKept
    <3>3. PollInv(w)'
      BY <1>1, <3>1 DEF PollInv, IdlePoll
    <3> QED
      BY <3>2, <3>3
  <2> QED
    BY <2>1, <2>2
<1>7. OwnsInv(w)'
  <2>1. CASE queue'[w] = queue[w]
    BY <1>1, <1>3, <2>1 DEF OwnsInv, LaneOf
  <2>2. CASE queue'[w] # queue[w]
    <3>1. PICK c \in poll[w].found : Offer(w, c)
      BY <2>2 DEF PollStep, PollStart, PollFind, PollResolve, PollEnqueue, PollFails
    <3> DEFINE k == ConnectorOf[c]
    <3>2. /\ queue[w] \in Q!Queue /\ c \in Commands /\ k \in Connectors
          /\ \A d \in Commands : ConnectorOf[d] \in Connectors
      BY <1>1, StoreAssumption DEF WorkerTypeOK
    <3>3. queue'[w] = Q!Enqueue(queue[w], k, c)
      BY <1>1, <2>2, <3>1 DEF Offer, WorkerTypeOK
    <3>4. /\ \A l \in Connectors \ {k} : queue'[w].lanes[l] = queue[w].lanes[l]
          /\ queue[w].lanes[k].running # NoTask =>
                queue'[w].lanes[k].running = queue[w].lanes[k].running
      BY <3>2, <3>3, AcceptKeeps
    <3> HIDE DEF k
    <3>5. ASSUME NEW d \in Commands, task[w][d].pc # "none"
          PROVE  LaneOf(w, d)'.running = d
      <4>1. LaneOf(w, d).running = d /\ d # NoTask
        BY <1>1, <3>5, WorkerAssumption DEF OwnsInv
      <4> QED
        BY <3>2, <3>4, <4>1 DEF LaneOf
    <3> QED
      BY <1>3, <3>5 DEF OwnsInv
  <2> QED
    BY <2>1, <2>2
<1>8. \A v \in Workers \ {w} : UNCHANGED <<queue[v], poll[v], phase[v], task[v]>>
  <2>1. UNCHANGED <<phase, task>>
    BY <1>3
  <2>2. \A v \in Workers \ {w} : queue'[v] = queue[v] /\ poll'[v] = poll[v]
    BY <1>1 DEF PollStep, PollStart, PollFind, PollResolve, PollEnqueue, Offer, PollFails,
                WorkerTypeOK
  <2> QED
    BY <2>1, <2>2
<1>9. WorkerOrder(w)'
  BY <1>6, <1>7 DEF WorkerOrder
<1> QED
  BY <1>2, <1>5, <1>8, <1>9, OneWorker

LEMMA ProcessOrder ==
    ASSUME CoreInv', OrderIInv, NEW w \in Workers, ProcessNext(w), UNCHANGED storeVars
    PROVE  OrderIInv'
<1>1. /\ StoreTypeOK /\ WorkerTypeOK /\ DocumentsInv /\ AheadInv
      /\ LineInv(w) /\ PollInv(w) /\ OwnsInv(w) /\ RestTypeOK /\ CoreTypeOK'
  BY SameTypes DEF OrderIInv, TypeOK, DocumentsInv, WorkerOrder, CoreInv
<1>2. TypeOK' /\ WorkerTypeOK'
  BY <1>1, ProcessTypes, SameTypesNext DEF TypeOK
<1>3. Onward /\ DocumentsInv'
  BY <1>1, DocumentsKept DEF storeVars, docVars
<1>4. WorkerOrder(w)'
  <2>1. CASE Start(w) \/ BeginShutdown(w)
    <3>1. UNCHANGED <<queue, poll, task>>
      BY <2>1 DEF Start, BeginShutdown, memVars
    <3>2. phase'[w] \in {"up", "stopping"} /\ phase[w] # "closing"
      BY <1>1, <2>1 DEF Start, BeginShutdown, WorkerTypeOK
    <3>3. LineInv(w)' /\ PollInv(w)'
      BY <1>1, <1>2, <1>3, <3>1, <3>2, WorkerKept
    <3>4. OwnsInv(w)'
      BY <1>1, <3>1 DEF OwnsInv, LaneOf
    <3> QED
      BY <3>3, <3>4 DEF WorkerOrder
  <2>2. CASE Crash(w) \/ Exit(w)
    <3>1. /\ queue'[w] = Q!EmptyQueue /\ poll'[w] = IdlePoll /\ phase'[w] = "down"
      BY <1>1, <2>2 DEF Crash, Exit, Lose, WorkerTypeOK
    <3>2. \A c \in Commands : task'[w][c] = NoWork
      BY <1>1, <2>2 DEF Crash, Exit, Lose, WorkerTypeOK
    <3>3. OwnsInv(w)'
      BY <3>2 DEF OwnsInv, NoWork
    <3> QED
      BY <3>1, <3>3, MemoryLost DEF WorkerOrder
  <2>3. CASE CloseQueue(w)
    <3>1. /\ queue'[w] = Q!CancelWaiting(Q!StopAccepting(queue[w])) /\ phase'[w] = "closing"
          /\ poll'[w].pc = "idle" /\ UNCHANGED task
      BY <1>1, <2>3 DEF CloseQueue, WorkerTypeOK
    <3>2. LineInv(w)' /\ PollInv(w)'
      BY <1>1, <1>2, <1>3, <3>1, QueueCloses
    <3>3. \A k \in Connectors : queue'[w].lanes[k].running = queue[w].lanes[k].running
      BY <1>1, <3>1, CloseKeeps DEF WorkerTypeOK
    <3>4. OwnsInv(w)'
      BY <1>1, <3>1, <3>3, StoreAssumption DEF OwnsInv, LaneOf
    <3> QED
      BY <3>2, <3>4 DEF WorkerOrder
  <2> QED
    BY <2>1, <2>2, <2>3 DEF ProcessNext
<1>5. \A v \in Workers \ {w} : UNCHANGED <<queue[v], poll[v], phase[v], task[v]>>
  BY <1>1 DEF ProcessNext, Start, Crash, BeginShutdown, CloseQueue, Exit, Lose, memVars, WorkerTypeOK
<1> QED
  BY <1>2, <1>3, <1>4, <1>5, OneWorker

LEMMA AuditOrder ==
    ASSUME CoreInv', OrderIInv, NEW w \in Workers,
           RecoveryStart(w) \/ \E p \in Pairs : AuditStep(w, p)
    PROVE  OrderIInv'
<1>1. /\ StoreTypeOK /\ WorkerTypeOK /\ DocumentsInv /\ AheadInv /\ WorkerOrder(w)
      /\ RestTypeOK /\ CoreTypeOK'
  BY SameTypes DEF OrderIInv, TypeOK, DocumentsInv, CoreInv
<1>2. /\ RestTypeOK'
      /\ UNCHANGED <<status, created, ahead, phase, queue, poll, task>>
      /\ faults' = 0 => faults = 0
  BY <1>1, AuditShape
<1>3. TypeOK' /\ WorkerTypeOK'
  BY <1>1, <1>2, SameTypesNext DEF TypeOK
<1>4. Onward /\ DocumentsInv'
  BY <1>1, <1>2, DocumentsKept
<1>5. WorkerOrder(w)'
  BY <1>1, <1>2, <1>3, <1>4, OtherWorker
<1> QED
  BY <1>2, <1>3, <1>4, <1>5, OneWorker

LEMMA OrderStutters == OrderIInv /\ UNCHANGED vars => OrderIInv'
<1> SUFFICES ASSUME OrderIInv, UNCHANGED vars PROVE OrderIInv'
  OBVIOUS
<1> USE DEF vars, storeVars, docVars, workerVars, upVars, memVars, histVars
<1>1. StoreTypeOK /\ GatewayTypeOK /\ WorkerTypeOK /\ DocumentsInv /\ AheadInv
  BY DEF OrderIInv, TypeOK, DocumentsInv
<1>2. StoreTypeOK' /\ GatewayTypeOK' /\ WorkerTypeOK'
  BY <1>1 DEF StoreTypeOK, GatewayTypeOK, WorkerTypeOK
<1>3. Onward /\ DocumentsInv'
  BY <1>1, DocumentsKept
<1>4. \A w \in Workers : WorkerOrder(w)'
  <2> SUFFICES ASSUME NEW w \in Workers PROVE WorkerOrder(w)'
    OBVIOUS
  <2>1. WorkerOrder(w) /\ UNCHANGED <<queue[w], poll[w], phase[w], task[w]>>
    BY DEF OrderIInv
  <2> QED
    BY <1>1, <1>2, <1>3, <2>1, OtherWorker
<1> QED
  BY <1>2, <1>3, <1>4 DEF OrderIInv, TypeOK

LEMMA OrderStep == CoreInv /\ CoreInv' /\ OrderIInv /\ [Next]_vars => OrderIInv'
<1> SUFFICES ASSUME CoreInv, CoreInv', OrderIInv, [Next]_vars PROVE OrderIInv'
  OBVIOUS
<1>1. CASE GatewayNext /\ UNCHANGED workerVars
  BY <1>1, GatewayOrder
<1>2. CASE WorkerNext
  <2>1. PICK w \in Workers :
          \/ ProcessNext(w) /\ UNCHANGED storeVars
          \/ PollStep(w) /\ UNCHANGED storeVars
          \/ PollFails(w) /\ UNCHANGED <<docVars, audits>>
          \/ \E c \in Commands : TaskStep(w, c) \/ TaskFault(w, c)
          \/ \E p \in Pairs : AuditStep(w, p)
          \/ RecoveryStart(w)
    BY <1>2 DEF WorkerNext
  <2>2. CASE ProcessNext(w) /\ UNCHANGED storeVars
    BY <2>2, ProcessOrder
  <2>3. CASE PollStep(w) /\ UNCHANGED storeVars
    BY <2>3, PollOrder DEF storeVars
  <2>4. CASE PollFails(w) /\ UNCHANGED <<docVars, audits>>
    BY <2>4, PollOrder
  <2>5. CASE \E c \in Commands : TaskStep(w, c) \/ TaskFault(w, c)
    BY <2>5, TaskOrder
  <2>6. CASE RecoveryStart(w) \/ \E p \in Pairs : AuditStep(w, p)
    BY <2>6, AuditOrder
  <2> QED
    BY <2>1, <2>2, <2>3, <2>4, <2>5, <2>6
<1>3. CASE UNCHANGED vars
  BY <1>3, OrderStutters
<1> QED
  BY <1>1, <1>2, <1>3 DEF Next

\* A connector's commands are claimed in the order of their creation as long
\* as no call fails, and executed one at a time by each worker, whatever the
\* API, other workers, crashes and shutdowns do; and every variable has its
\* type.
THEOREM CommandsKeepTheirOrder == Spec => []OrderInv
<1>1. Init => OrderIInv
  BY OrderInitially
<1>2. CoreInv /\ CoreInv' /\ OrderIInv /\ [Next]_vars => OrderIInv'
  BY OrderStep
<1>3. OrderIInv => OrderInv
  BY DEF OrderIInv, OrderInv, DocumentsInv, WorkerOrder, OwnsInv, LaneOf, OneRpcPerConnector
<1> QED
  BY <1>1, <1>2, <1>3, PipelineInvariant, PTL DEF Spec
=============================================================================

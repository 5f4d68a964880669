---------------------------- MODULE CommandStore ----------------------------
(***************************************************************************)
(* The MongoDB documents the command path reads and writes, shared by the  *)
(* API (CommandPipeline) and the connector workers (CommandWorker): one    *)
(* CommandEvent per request id and the AuditEvents about it.  Each         *)
(* operator is one database call, atomic as MongoDB makes it.              *)
(*                                                                         *)
(* Before them come the statuses of a command and the rank rule of         *)
(* shared/command-lifecycle.js that decides whether one status may be      *)
(* shown in place of another.  Strings are the statuses after              *)
(* normalizeCommandStatus; the legacy alias "pending" is ranked like       *)
(* "requested".                                                            *)
(***************************************************************************)
EXTENDS Integers, Sequences, FiniteSets

CONSTANTS
    Commands,       \* the request ids, each naming at most one CommandEvent
    Connectors,     \* lane keys: the connector behind the command's tag
    ConnectorOf,    \* command -> its connector
    MaxFaults       \* bound on the database calls that fail

ASSUME StoreAssumption ==
    /\ ConnectorOf \in [Commands -> Connectors]
    /\ IsFiniteSet(Connectors)
    /\ MaxFaults \in Nat

VARIABLES
    status,         \* command -> status of its document, "none" before it exists
    auditPending,   \* command -> terminalAuditPending of its document
    created,        \* the commands in the order of createdAt
    audits,         \* the AuditEvents: <<command, what happened>>
    faults,         \* database calls that have failed so far
    ahead           \* history: command -> the commands of its connector that
                    \* were already authorized when its document was created

docVars   == <<status, auditPending, created, ahead>>
storeVars == <<docVars, audits, faults>>

-----------------------------------------------------------------------------
TerminalStatuses == {"acknowledged", "rejected", "timeout", "failed"}

PendingStatuses ==
    {"pending", "requested", "authorized", "dispatched", "accepted_by_gateway"}

\* The enum of the CommandEvent document.
StoredStatuses == TerminalStatuses \cup (PendingStatuses \ {"pending"})

KnownStatuses == TerminalStatuses \cup PendingStatuses \cup {"unknown"}

\* A status commandStatusRank does not know ranks below every other.
Rank(s) ==
    IF s \in TerminalStatuses                         THEN 5
    ELSE IF s \in {"accepted_by_gateway", "unknown"}  THEN 4
    ELSE IF s = "dispatched"                          THEN 3
    ELSE IF s = "authorized"                          THEN 2
    ELSE IF s \in {"pending", "requested"}            THEN 1
    ELSE 0

CanReplace(current, incoming) ==
    IF current \in TerminalStatuses
    THEN incoming = current
    ELSE Rank(incoming) >= Rank(current)

-----------------------------------------------------------------------------
\* What an audit event says of its request id.  "turned_away" is the event of
\* a request that a policy check rejected: its action is command.rejected as
\* that of a rejected command is, but it tells the reason of the check and
\* not the result of a command.
AuditKinds == {"authorized", "accepted_by_gateway", "turned_away"} \cup TerminalStatuses

StoreTypeOK ==
    /\ status \in [Commands -> StoredStatuses \cup {"none"}]
    /\ auditPending \in [Commands -> BOOLEAN]
    /\ created \in Seq(Commands)
    /\ audits \in SUBSET (Commands \X AuditKinds)
    /\ faults \in 0..MaxFaults
    /\ ahead \in [Commands -> SUBSET Commands]

StoreInit ==
    /\ status = [c \in Commands |-> "none"]
    /\ auditPending = [c \in Commands |-> FALSE]
    /\ created = <<>>
    /\ audits = {}
    /\ faults = 0
    /\ ahead = [c \in Commands |-> {}]

\* CommandEvent.create with the initial status of a worker-executed command.
InsertRequested(c) ==
    /\ status' = [status EXCEPT ![c] = "requested"]
    /\ created' = Append(created, c)
    /\ ahead' = [ahead EXCEPT ![c] =
           {d \in Commands : ConnectorOf[d] = ConnectorOf[c] /\ status[d] = "authorized"}]
    /\ UNCHANGED auditPending

\* A Mongoose document.save(): unconditional.
SaveStatus(c, s) ==
    /\ status' = [status EXCEPT ![c] = s]
    /\ UNCHANGED <<auditPending, created, ahead>>

\* findOneAndUpdate with a filter on the current status.
UpdateStatusFrom(c, expected, s) ==
    /\ status[c] \in expected
    /\ SaveStatus(c, s)

\* Mutants: the owed audit is not marked, and the filter is missing.
CompleteUnmarked(c, expected, s) ==
    /\ status[c] \in expected
    /\ status' = [status EXCEPT ![c] = s]
    /\ UNCHANGED <<auditPending, created, ahead>>

CompleteAlways(c, expected, s) ==
    /\ expected # {}
    /\ status' = [status EXCEPT ![c] = s]
    /\ auditPending' = [auditPending EXCEPT ![c] = TRUE]
    /\ UNCHANGED <<created, ahead>>

\* The completion update also marks the terminal audit as owed.
CompleteFrom(c, expected, s) ==
    /\ status[c] \in expected
    /\ status' = [status EXCEPT ![c] = s]
    /\ auditPending' = [auditPending EXCEPT ![c] = TRUE]
    /\ UNCHANGED <<created, ahead>>

ClearAuditPending(c, kind) ==
    /\ auditPending' = IF status[c] = kind THEN [auditPending EXCEPT ![c] = FALSE]
                       ELSE auditPending
    /\ UNCHANGED <<status, created, ahead>>

\* AuditEvent.create, and the upsert on a deterministic id: either way the
\* event is there afterwards.
WriteAudit(c, kind) == audits' = audits \cup {<<c, kind>>}

\* A call that throws.  Whether the server had applied it is the caller's
\* case distinction: the error says nothing about it.
Fault ==
    /\ faults < MaxFaults
    /\ faults' = faults + 1
=============================================================================

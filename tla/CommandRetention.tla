-------------------------- MODULE CommandRetention --------------------------
(***************************************************************************)
(* The end of finished commands: the janitors of the worker replicas mark  *)
(* old commands for purging and delete marked ones, a batch at a time,     *)
(* under a lease (server/connectors/command-retention-janitor.js), while   *)
(* the worker and the API finish and audit commands                        *)
(* (server/connectors/command-completion.js, api/_handlers/commands.js).   *)
(*                                                                         *)
(* A command's number is its place in the order of creation.  Dates are    *)
(* reduced to whether they have passed: `aged` says that a command was     *)
(* completed before the cutoff of its status, and purgeAt is unset, to     *)
(* come, or due.  Only live commands are modelled; mock ones are never     *)
(* selected.                                                               *)
(***************************************************************************)
EXTENDS Naturals, FiniteSets

CONSTANTS
    Commands,       \* the commands, numbered in the order of their creation
    Janitors,       \* one per worker replica
    BatchSize,      \* policy.batchSize
    RetentionBounds \* the instances a run covers: the commands and janitors there
                    \* are, and how often a process stops at the wrong moment

ASSUME RetentionAssumption ==
    /\ Commands \subseteq Nat
    /\ IsFiniteSet(Commands)
    /\ BatchSize \in Nat \ {0}

VARIABLES
    doc,        \* command -> its CommandEvent: there, status, pending, aged, purgeAt
    audited,    \* commands with a terminal audit event
    owed,       \* commands the API has finished and is about to audit
    recorded,   \* commands whose tag has a TagValueSnapshot
    janitor,    \* janitor -> its place in the cycle and what it has selected
    lease,      \* the CommandRetentionLease: owner, lapsed
    stops       \* what may still happen

retentionVars == <<doc, audited, owed, recorded, janitor, lease, stops>>

Eligible == {"acknowledged", "failed"}      \* "rejected" is treated as "failed"
Terminal == Eligible \cup {"timeout"}

Nobody == "nobody"
Idle == [pc |-> "idle", chosen |-> {}]

RetentionInit ==
    /\ stops \in RetentionBounds
    /\ doc = [c \in Commands |-> [there |-> c \in stops.commands, status |-> "open",
                                  pending |-> FALSE, aged |-> FALSE, purgeAt |-> "unset"]]
    /\ audited = {}
    /\ owed = {}
    /\ recorded = {}
    /\ janitor = [j \in Janitors |-> Idle]
    /\ lease = [owner |-> Nobody, lapsed |-> TRUE]

Change(c, fields) == doc' = [doc EXCEPT ![c] = fields]

-----------------------------------------------------------------------------
(* Commands are finished and audited.                                      *)

\* completeWorkerCommand: the audit is pending with the outcome.
WorkerCompletes(c, status) ==
    /\ doc[c].there /\ doc[c].status = "open"
    /\ Change(c, [doc[c] EXCEPT !.status = status, !.pending = TRUE])
    /\ UNCHANGED <<audited, owed, recorded, janitor, lease, stops>>

\* persistTerminalCommandAudit: the audit event first, ...
WorkerAudits(c) ==
    /\ doc[c].pending
    /\ c \notin audited
    /\ audited' = audited \cup {c}
    /\ UNCHANGED <<doc, owed, recorded, janitor, lease, stops>>

\* commandPurgeAt, for a command whose audit is no longer pending.
PurgeAt(c) ==
    IF doc[c].status \notin Eligible THEN "unset" ELSE IF doc[c].aged THEN "due" ELSE "later"

\* ... then the flag is cleared and purgeAt set.
WorkerClears(c) ==
    /\ doc[c].pending
    /\ c \in audited
    /\ Change(c, [doc[c] EXCEPT !.pending = FALSE, !.purgeAt = PurgeAt(c)])
    /\ UNCHANGED <<audited, owed, recorded, janitor, lease, stops>>

\* finishLiveCommand: the outcome is saved without the flag, then audited.
ApiFinishes(c, status) ==
    /\ doc[c].there /\ doc[c].status = "open"
    /\ Change(c, [doc[c] EXCEPT !.status = status])
    /\ owed' = owed \cup {c}
    /\ UNCHANGED <<audited, recorded, janitor, lease, stops>>

ApiAudits(c) ==
    /\ c \in owed
    /\ owed' = owed \ {c}
    /\ audited' = audited \cup {c}
    /\ UNCHANGED <<doc, recorded, janitor, lease, stops>>

\* The API process stops before the audit: nothing repeats it.
ApiStops(c) ==
    /\ c \in owed
    /\ stops.api > 0
    /\ stops' = [stops EXCEPT !.api = @ - 1]
    /\ owed' = owed \ {c}
    /\ UNCHANGED <<doc, audited, recorded, janitor, lease>>

\* The tag of the command gets its first recorded value.
RecordValue(c) ==
    /\ doc[c].status = "acknowledged"
    /\ c \notin recorded
    /\ recorded' = recorded \cup {c}
    /\ UNCHANGED <<doc, audited, owed, janitor, lease, stops>>

\* The retention period, or that of a recheck, passes.
TimePasses(c) ==
    /\ doc[c].status \in Terminal
    /\ ~doc[c].aged \/ doc[c].purgeAt = "later"
    /\ Change(c, [doc[c] EXCEPT !.aged = TRUE, !.purgeAt = IF @ = "later" THEN "due" ELSE @])
    /\ UNCHANGED <<audited, owed, recorded, janitor, lease, stops>>

-----------------------------------------------------------------------------
(* A janitor's cycle: #cycle.                                              *)

Advance(j, pc, chosen) == janitor' = [janitor EXCEPT ![j] = [pc |-> pc, chosen |-> chosen]]

\* acquireRetentionLease.
AcquireLease(j) ==
    /\ j \in stops.janitors
    /\ janitor[j].pc = "idle"
    /\ lease.owner = j \/ lease.lapsed
    /\ lease' = [owner |-> j, lapsed |-> FALSE]
    /\ Advance(j, "select", {})
    /\ UNCHANGED <<doc, audited, owed, recorded, stops>>

\* A batch of s: sort and limit.
Batch(s) == {c \in s : Cardinality({d \in s : d < c}) < BatchSize}

Purgeable(c) ==
    doc[c].there /\ doc[c].purgeAt = "due" /\ ~doc[c].pending /\ doc[c].status \in Eligible

\* purgeExpiredCommands: select due commands, ...
SelectDue(j) ==
    /\ janitor[j].pc = "select"
    /\ Advance(j, "check", Batch({c \in Commands : Purgeable(c)}))
    /\ UNCHANGED <<doc, audited, owed, recorded, lease, stops>>

\* ... put off acknowledged ones without a recorded value, ...
Protected(chosen) == {c \in chosen : doc[c].status = "acknowledged" /\ c \notin recorded}

CheckSnapshots(j) ==
    /\ janitor[j].pc = "check"
    /\ LET protected == Protected(janitor[j].chosen)
       IN /\ doc' = [c \in Commands |->
                 IF c \in protected /\ Purgeable(c)
                 THEN [doc[c] EXCEPT !.purgeAt = "later"]
                 ELSE doc[c]]
          /\ Advance(j, "delete", janitor[j].chosen \ protected)
    /\ UNCHANGED <<audited, owed, recorded, lease, stops>>

\* ... and delete the others, if they are still due.
Delete(j) ==
    /\ janitor[j].pc = "delete"
    /\ doc' = [c \in Commands |->
           IF c \in janitor[j].chosen /\ Purgeable(c)
           THEN [doc[c] EXCEPT !.there = FALSE]
           ELSE doc[c]]
    /\ Advance(j, "find", {})
    /\ UNCHANGED <<audited, owed, recorded, lease, stops>>

Markable(c) ==
    /\ doc[c].there /\ doc[c].status \in Eligible /\ doc[c].aged
    /\ ~doc[c].pending /\ doc[c].purgeAt = "unset"

\* Mutant: failed commands are left out.
CandidatesAcknowledged == Batch({c \in Commands : Markable(c) /\ doc[c].status = "acknowledged"})

\* markExpiredCommandsForPurge: find old commands without purgeAt, the
\* acknowledged ones first, ...
Candidates ==
    LET of(status) == {c \in Commands : Markable(c) /\ doc[c].status = status}
        first == Batch(of("acknowledged"))
    IN first \cup {c \in of("failed") :
                      Cardinality({d \in of("failed") : d < c}) + Cardinality(first) < BatchSize}

FindOld(j) ==
    /\ janitor[j].pc = "find"
    /\ Advance(j, "match", Candidates)
    /\ UNCHANGED <<doc, audited, owed, recorded, lease, stops>>

\* Mutant: the audit is not asked for.
MatchAuditsNot(j) ==
    /\ janitor[j].pc = "match"
    /\ Advance(j, "mark", janitor[j].chosen)
    /\ UNCHANGED <<doc, audited, owed, recorded, lease, stops>>

\* ... keep those with an audit event of their outcome, ...
MatchAudits(j) ==
    /\ janitor[j].pc = "match"
    /\ Advance(j, "mark", janitor[j].chosen \cap audited)
    /\ UNCHANGED <<doc, audited, owed, recorded, lease, stops>>

\* ... and mark them.
Mark(j) ==
    /\ janitor[j].pc = "mark"
    /\ doc' = [c \in Commands |->
           IF c \in janitor[j].chosen /\ Markable(c)
           THEN [doc[c] EXCEPT !.purgeAt = "due"]
           ELSE doc[c]]
    /\ Advance(j, "idle", {})
    /\ UNCHANGED <<audited, owed, recorded, lease, stops>>

\* close, after a cycle: the lease is released.
Close(j) ==
    /\ janitor[j].pc = "idle"
    /\ lease = [owner |-> j, lapsed |-> FALSE]
    /\ lease' = [lease EXCEPT !.lapsed = TRUE]
    /\ UNCHANGED <<doc, audited, owed, recorded, janitor, stops>>

\* A janitor's process stops in the middle of a cycle, or a call of it fails.
Stop(j) ==
    /\ janitor[j].pc # "idle"
    /\ stops.cycles > 0
    /\ stops' = [stops EXCEPT !.cycles = @ - 1]
    /\ Advance(j, "idle", {})
    /\ UNCHANGED <<doc, audited, owed, recorded, lease>>

\* leaseUntil passes, whatever its owner is doing.
LeaseLapses ==
    /\ ~lease.lapsed
    /\ lease' = [lease EXCEPT !.lapsed = TRUE]
    /\ UNCHANGED <<doc, audited, owed, recorded, janitor, stops>>

-----------------------------------------------------------------------------

Cycle(j) ==
    SelectDue(j) \/ CheckSnapshots(j) \/ Delete(j) \/ FindOld(j) \/ MatchAudits(j) \/ Mark(j)

Finishing(c) == WorkerAudits(c) \/ WorkerClears(c) \/ ApiAudits(c)

RetentionNext ==
    \/ \E c \in Commands :
           \/ \E s \in Terminal : WorkerCompletes(c, s) \/ ApiFinishes(c, s)
           \/ Finishing(c) \/ ApiStops(c) \/ RecordValue(c) \/ TimePasses(c)
    \/ \E j \in Janitors : AcquireLease(j) \/ Cycle(j) \/ Close(j) \/ Stop(j)
    \/ LeaseLapses

\* Janitors repeat the cycle on a timer, audits are retried, time passes.  A
\* janitor that finds the lease taken comes back: one of them gets the lease
\* time and again.
RetentionFairness ==
    /\ WF_retentionVars(\E c \in Commands : Finishing(c))
    /\ \A c \in Commands : WF_retentionVars(TimePasses(c))
    /\ SF_retentionVars(\E j \in Janitors : AcquireLease(j))
    /\ WF_retentionVars(\E j \in Janitors : Cycle(j))
    /\ WF_retentionVars(LeaseLapses)

RetentionSpec == RetentionInit /\ [][RetentionNext]_retentionVars /\ RetentionFairness

-----------------------------------------------------------------------------

RetentionTypeOK ==
    /\ doc \in [Commands -> [there : BOOLEAN, status : Terminal \cup {"open"}, pending : BOOLEAN,
                             aged : BOOLEAN, purgeAt : {"unset", "later", "due"}]]
    /\ audited \subseteq Commands
    /\ owed \subseteq Commands
    /\ recorded \subseteq Commands
    /\ janitor \in [Janitors -> [pc : {"idle", "select", "check", "delete", "find", "match", "mark"},
                                 chosen : SUBSET Commands]]
    /\ lease \in [owner : Janitors \cup {Nobody}, lapsed : BOOLEAN]

Purged(c) == ~doc[c].there /\ doc[c].status # "open"

\* However janitors, late audits and the recording of values overlap, and
\* whoever stops, a command is deleted only with an outcome that may be
\* forgotten, after it was audited, and an acknowledged one only while its tag
\* has a recorded value.
PurgedIsSafe ==
    \A c \in Commands :
        Purged(c) => /\ doc[c].status \in Eligible
                     /\ c \in audited
                     /\ doc[c].status = "acknowledged" => c \in recorded

RetentionInv == RetentionTypeOK /\ PurgedIsSafe

Forgettable(c) ==
    /\ doc[c].there /\ doc[c].aged /\ doc[c].status \in Eligible /\ c \in audited
    /\ doc[c].status = "acknowledged" => c \in recorded

\* No such command stays: it is deleted in the end.  Old commands that were
\* never audited are found again in every cycle: were there BatchSize of them,
\* they would keep the others from being marked.
OldCommandsGo == <>[](\A c \in Commands : ~Forgettable(c))
=============================================================================

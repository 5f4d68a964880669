-------------------------- MODULE ServerlessCommands --------------------------
(***************************************************************************)
(* Live commands without a worker: the function that serves POST           *)
(* /api/commands sends the RPC itself, waits for the device or for process *)
(* feedback, releases a pulse and concludes the command                    *)
(* (executeServerlessCommand and what it calls in                          *)
(* api/_handlers/commands.js, api/_lib/thingsboard-serverless.js).         *)
(*                                                                         *)
(* All commands are for one output of one device.  Each step ends in a     *)
(* call of the database or of ThingsBoard; the functions interleave, any   *)
(* call may fail and a function may be stopped at any point.               *)
(***************************************************************************)
EXTENDS Naturals, Sequences

CONSTANTS
    Deliveries,     \* the HTTP calls, numbered from 1
    Orders,         \* the commands (request ids), numbered from 1
    ServingBounds   \* the instances a run covers: the order and the user of
                    \* each call, how the output works, how often what happens
                    \* from outside may

ASSUME ServingAssumption ==
    \A b \in ServingBounds :
        /\ DOMAIN b = {"calls", "feedback", "pulse", "failures", "deaths"}
        /\ DOMAIN b.calls \subseteq Deliveries
        /\ \A i \in DOMAIN b.calls : b.calls[i].order \in Orders

VARIABLES
    order,      \* order -> its CommandEvent and what the device did for it
    serving,    \* call -> where its function stands
    output,     \* the output of the device
    health,     \* commandHealth.state of the environment
    faulted,    \* orders whose function met a failing call or was stopped
    allowance   \* the instance; what may still happen

servingVars == <<order, serving, output, health, faulted, allowance>>

FinalStatuses == {"acknowledged", "rejected", "failed", "timeout"}

NoOrder == [status |-> "none", settled |-> <<>>, confirmed |-> {}, presses |-> 0]
NoServing == [pc |-> "idle", phase |-> "press", outcome |-> "none", caught |-> FALSE]

ServingInit ==
    /\ allowance \in ServingBounds
    /\ order = [c \in Orders |-> NoOrder]
    /\ serving = [i \in Deliveries |-> NoServing]
    /\ output = "off" /\ health = "online"
    /\ faulted = {}

OrderOf(i) == allowance.calls[i].order
Arrives == DOMAIN allowance.calls

At(i, pcs) == serving[i].pc \in pcs
Moves(i, pc) == serving' = [serving EXCEPT ![i] = [@ EXCEPT !.pc = pc]]
SavesOrder(c, status) ==
    LET settled == order[c].settled IN
    order' = [order EXCEPT ![c] =
        [@ EXCEPT !.status = status,
                  !.settled = IF status \in FinalStatuses THEN Append(settled, status) ELSE settled]]

\* What an error inside of the try leads to: failed, or timeout if a request
\* ran into its time limit.
Catches(i, outcome) ==
    serving' = [serving EXCEPT ![i] = [@ EXCEPT !.pc = "health", !.outcome = outcome, !.caught = TRUE]]

\* The steps that are awaited inside of the try.
Guarded(i) ==
    /\ ~serving[i].caught
    /\ \/ At(i, {"send", "mark", "audit mark", "health"})
       \/ At(i, {"finish", "audit"}) /\ serving[i].outcome # "acknowledged"

-----------------------------------------------------------------------------
(* Admission.                                                              *)

\* loadCommandAdmissionReads: a known request id is answered from its command.
AdmitServing(i) ==
    /\ At(i, {"idle"})
    /\ Moves(i, IF order[OrderOf(i)].status = "none" THEN "check" ELSE "done")
    /\ UNCHANGED <<order, output, health, faulted, allowance>>

\* loadLiveCommandReads: an unsettled command of this user younger than 1.5 s
\* refuses the call; its age is left open.
CheckServing(i) ==
    /\ At(i, {"check"})
    /\ \/ Moves(i, "create")
       \/ /\ \E k \in Arrives :
                /\ allowance.calls[k].user = allowance.calls[i].user
                /\ order[OrderOf(k)].status \in {"dispatched", "accepted"}
          /\ Moves(i, "done")
    /\ UNCHANGED <<order, output, health, faulted, allowance>>

\* Mutant: without the unique index a second call starts over.
CreateAgain(i) ==
    /\ At(i, {"create"})
    /\ SavesOrder(OrderOf(i), "dispatched")
    /\ Moves(i, "configure")
    /\ UNCHANGED <<output, health, faulted, allowance>>

\* CommandEvent.create, at once as dispatched; the unique index refuses a
\* second one.
CreateServing(i) ==
    /\ At(i, {"create"})
    /\ IF order[OrderOf(i)].status = "none"
       THEN SavesOrder(OrderOf(i), "dispatched") /\ Moves(i, "configure")
       ELSE Moves(i, "done") /\ UNCHANGED order
    /\ UNCHANGED <<output, health, faulted, allowance>>

\* The connector, its secret or a way to acknowledge is missing:
\* finishUnavailable.
Configure(i) ==
    /\ At(i, {"configure"})
    /\ \/ Moves(i, "audit authorized")
       \/ serving' = [serving EXCEPT ![i] = [@ EXCEPT !.pc = "finish", !.outcome = "rejected",
                                                      !.caught = TRUE]]
    /\ UNCHANGED <<order, output, health, faulted, allowance>>

\* auditCommandAuthorized and the audit of the dispatch.
AuditServing(i) ==
    /\ \/ At(i, {"audit authorized"}) /\ Moves(i, "audit dispatched")
       \/ At(i, {"audit dispatched"}) /\ Moves(i, "announce")
    /\ UNCHANGED <<order, output, health, faulted, allowance>>

AnnounceWaiting(i) ==
    /\ At(i, {"announce"})
    /\ health' = "waiting"
    /\ Moves(i, "send")
    /\ UNCHANGED <<order, output, faulted, allowance>>

-----------------------------------------------------------------------------
(* The RPC: the press, and for a pulse its release.                        *)

Target(i) == IF serving[i].phase = "press" THEN "on" ELSE "off"

\* How often the order was pressed once the request of call i is executed.
Presses(i) == order[OrderOf(i)].presses + (IF serving[i].phase = "press" THEN 1 ELSE 0)

\* The device executes the request, or never gets it.
Executes(i) ==
    /\ output' = Target(i)
    /\ order' = [order EXCEPT ![OrderOf(i)] = [@ EXCEPT !.presses = Presses(i)]]

\* The answer of the device, or the feedback of the process, confirms it.
Confirmed(i) ==
    LET c == OrderOf(i)
        confirmed == order[c].confirmed \cup {serving[i].phase}
    IN
    \/ /\ output' = Target(i)           \* the device executed it
       /\ order' = [order EXCEPT ![c] = [@ EXCEPT !.confirmed = confirmed, !.presses = Presses(i)]]
    \/ /\ allowance.feedback           \* it did not, and a reading matches all the same
       /\ output = Target(i)
       /\ order' = [order EXCEPT ![c] = [@ EXCEPT !.confirmed = confirmed]]
       /\ UNCHANGED output

\* Where an answer leads to once it is recorded that the gateway accepted.
AfterAnswer(i, answer) ==
    serving' = [serving EXCEPT ![i] =
        [@ EXCEPT !.outcome = answer,
                  !.pc = IF serving[i].phase = "press" /\ answer # "failed" THEN "mark" ELSE "health"]]

\* performServerlessRpc: confirmed; rejected by the device; refused by
\* ThingsBoard; accepted and not confirmed in time.
SendRpc(i) ==
    /\ At(i, {"send"})
    /\ \/ Confirmed(i) /\ AfterAnswer(i, "acknowledged")
       \/ ~allowance.feedback /\ AfterAnswer(i, "rejected") /\ UNCHANGED <<output, order>>
       \/ AfterAnswer(i, "failed") /\ UNCHANGED <<output, order>>
       \/ /\ AfterAnswer(i, "timeout")
          /\ Executes(i) \/ UNCHANGED <<output, order>>
       \/ /\ Catches(i, "timeout") \/ Catches(i, "failed")
          /\ Executes(i) \/ UNCHANGED <<output, order>>
    /\ UNCHANGED <<health, faulted, allowance>>

\* markAcceptedByGateway.
MarkAccepted(i) ==
    /\ At(i, {"mark"})
    /\ SavesOrder(OrderOf(i), "accepted")
    /\ Moves(i, "audit mark")
    /\ UNCHANGED <<output, health, faulted, allowance>>

\* The press of a pulse is followed by its release.
AfterMark(i) ==
    /\ At(i, {"audit mark"})
    /\ IF allowance.pulse /\ serving[i].outcome = "acknowledged"
       THEN serving' = [serving EXCEPT ![i] = [@ EXCEPT !.pc = "send", !.phase = "release"]]
       ELSE Moves(i, "health")
    /\ UNCHANGED <<order, output, health, faulted, allowance>>

-----------------------------------------------------------------------------
(* The conclusion.                                                         *)

HealthAfter(outcome) ==
    IF outcome \in {"acknowledged", "rejected"} THEN "online"
    ELSE IF outcome = "timeout" THEN "unverified" ELSE "degraded"

\* updateServerlessCommandHealth.
ReportHealth(i) ==
    /\ At(i, {"health"})
    /\ health' = HealthAfter(serving[i].outcome)
    /\ Moves(i, "finish")
    /\ UNCHANGED <<order, output, faulted, allowance>>

\* finishLiveCommand and the end of finishUnavailable.
FinishServing(i) ==
    /\ At(i, {"finish"})
    /\ SavesOrder(OrderOf(i), serving[i].outcome)
    /\ Moves(i, "audit")
    /\ UNCHANGED <<output, health, faulted, allowance>>

AuditOutcome(i) ==
    /\ At(i, {"audit"})
    /\ Moves(i, "done")
    /\ UNCHANGED <<order, output, health, faulted, allowance>>

\* A call of the database fails: inside of the try the command is concluded
\* as failed, elsewhere the call ends with an error.
DatabaseFails(i) ==
    /\ ~At(i, {"idle", "done", "send"})
    /\ allowance.failures > 0
    /\ allowance' = [allowance EXCEPT !.failures = @ - 1]
    /\ IF Guarded(i) THEN Catches(i, "failed") ELSE Moves(i, "done")
    /\ faulted' = faulted \cup {OrderOf(i)}
    /\ UNCHANGED <<order, output, health>>

\* The platform stops the function; an RPC may be under way.
FunctionStops(i) ==
    /\ ~At(i, {"idle", "done"})
    /\ allowance.deaths > 0
    /\ allowance' = [allowance EXCEPT !.deaths = @ - 1]
    /\ Moves(i, "done")
    /\ faulted' = faulted \cup {OrderOf(i)}
    /\ \/ At(i, {"send"}) /\ Executes(i)
       \/ UNCHANGED <<order, output>>
    /\ UNCHANGED health

ServingNext ==
    \E i \in Arrives :
        \/ AdmitServing(i) \/ CheckServing(i) \/ CreateServing(i) \/ Configure(i)
        \/ AuditServing(i) \/ AnnounceWaiting(i) \/ SendRpc(i) \/ MarkAccepted(i)
        \/ AfterMark(i) \/ ReportHealth(i) \/ FinishServing(i) \/ AuditOutcome(i)
        \/ DatabaseFails(i) \/ FunctionStops(i)

ServingSpec == ServingInit /\ [][ServingNext]_servingVars

-----------------------------------------------------------------------------
(* Properties.                                                             *)

Served(c) == \A i \in Arrives : OrderOf(i) = c => At(i, {"idle", "done"})

ServingTypeOK ==
    /\ order \in [Orders -> [status : FinalStatuses \cup {"none", "dispatched", "accepted"},
                             settled : Seq(FinalStatuses), confirmed : SUBSET {"press", "release"},
                             presses : Nat]]
    /\ output \in {"on", "off"}
    /\ health \in {"online", "waiting", "unverified", "degraded"}
    /\ faulted \subseteq Orders

\* A command presses once, however often it is sent and whatever fails.
PressedOnce == \A c \in Orders : order[c].presses <= 1

\* Acknowledged is what was confirmed, to the release of a pulse; an output
\* that stays on after a pulse is that of a command that is not acknowledged.
AcknowledgedIsConfirmed ==
    /\ \A c \in Orders : order[c].status = "acknowledged" =>
          order[c].confirmed = (IF allowance.pulse THEN {"press", "release"} ELSE {"press"})
    /\ (allowance.pulse /\ output = "on" /\ \A c \in Orders : Served(c)) =>
          \E c \in Orders : order[c].status \notin {"none", "acknowledged"}

\* An outcome stands, but for one that could not be audited: it becomes
\* failed.  Nothing replaces acknowledged, and nothing is replaced by it.
OutcomesStand ==
    \A c \in Orders : LET s == order[c].settled IN
        /\ Len(s) <= 2
        /\ Len(s) = 2 => s[1] # "acknowledged" /\ s[2] = "failed" /\ c \in faulted

\* A command whose function was not disturbed is concluded, and the health of
\* the connector is not left at waiting.
UndisturbedConcludes ==
    /\ \A c \in Orders \ faulted :
          Served(c) /\ order[c].status # "none" => order[c].status \in FinalStatuses
    /\ (faulted = {} /\ \A c \in Orders : Served(c)) => health # "waiting"

\* Invariant: a command executed by the API itself presses once, tells no
\* success that was not confirmed, and is concluded.
ServerlessInv ==
    /\ ServingTypeOK
    /\ PressedOnce /\ AcknowledgedIsConfirmed
    /\ OutcomesStand /\ UndisturbedConcludes
=============================================================================

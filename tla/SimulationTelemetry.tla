------------------------ MODULE SimulationTelemetry ------------------------
(***************************************************************************)
(* What a runtime page of a Simulation project tells ThingsBoard of its    *)
(* values (shared/simulation-telemetry-queue.js, the publisher in          *)
(* src/runtime/RuntimeApp.jsx, the telemetry action of                     *)
(* api/_handlers/simulator.js).  One tag with the values 0 and 1.          *)
(*                                                                         *)
(* The page sends what differs from what it believes to be published, one  *)
(* request at a time; the answers to RPCs (module SimulationBridge) are a  *)
(* second writer, with a timestamp of their own.  Timestamps are numbers   *)
(* of a clock.  Heartbeats, which carry no value, are left out.            *)
(***************************************************************************)
EXTENDS Naturals, Sequences, SequencesExt

CONSTANTS
    MaxPending,         \* maxPending of the queue
    TelemetryBounds     \* the instances a run covers

ASSUME TelemetryAssumption == MaxPending \in Nat

VARIABLES
    value,      \* the page's value (valuesRef)
    published,  \* what it believes ThingsBoard has (publishedSimulationValuesRef)
    jobs,       \* the queue; the first job is in flight while a request is.  turn: of an
                \* ordered change, its place in `owed`
    request,    \* the request that publishes the first job
    answer,     \* the answer to an RPC that is to be delivered
    active,     \* simulationLeaseActiveRef
    holder,     \* who has the responder lease: this page or another one
    upstream,   \* the newest value ThingsBoard has, and its timestamp
    snapshot,   \* TagValueSnapshot, from which other pages start
    shown,      \* the values ThingsBoard was told, as they arrived
    owed,       \* the values of the ordered changes the queue accepted
    clock,
    blurred,    \* a call failed that had arrived, or two writers overlapped: the page
                \* cannot know what ThingsBoard has
    rest        \* what may still happen

telemetryVars ==
    <<value, published, jobs, request, answer, active, holder, upstream, snapshot, shown, owed,
      clock, blurred, rest>>

Values == {0, 1}
Nothing == [stage |-> "none", value |-> 0, at |-> 0, told |-> FALSE]

TelemetryInit ==
    /\ rest \in TelemetryBounds
    /\ value = 0 /\ published = 0 /\ snapshot = 0
    /\ jobs = <<>> /\ shown = <<>> /\ owed = <<>>
    /\ request = Nothing /\ answer = Nothing
    /\ active = TRUE /\ holder = "here"
    /\ upstream = [value |-> 0, at |-> 0]
    /\ clock = 0
    /\ blurred = FALSE

Uses(what) ==
    /\ rest[what] > 0
    /\ rest' = [rest EXCEPT ![what] = @ - 1]

-----------------------------------------------------------------------------
(* The queue and the page.                                                 *)

InFlight(k) == k = 1 /\ request # Nothing

\* Mutant: any change is merged.
MergesAny(kind) == jobs # <<>> /\ jobs[Len(jobs)].kind = "steady" /\ ~InFlight(Len(jobs))

\* enqueue: a steady change is merged into a steady job at the end.
Merges(kind) ==
    /\ kind = "steady"
    /\ jobs # <<>>
    /\ jobs[Len(jobs)].kind = "steady"
    /\ ~InFlight(Len(jobs))

Job(kind, v) == [kind |-> kind, value |-> v, turn |-> IF kind = "ordered" THEN Len(owed) + 1 ELSE 0]

Accepted(kind) == Merges(kind) \/ Len(jobs) < MaxPending
Enqueued(kind, v) ==
    IF Merges(kind) THEN [jobs EXCEPT ![Len(jobs)].value = v]
    ELSE IF Len(jobs) < MaxPending THEN Append(jobs, Job(kind, v)) ELSE jobs

\* drain: what is known to be published is dropped, the next job is sent.
Leftover(queue, known) ==
    LET news == {k \in DOMAIN queue : queue[k].value # known}
    IN IF news = {} THEN <<>>
       ELSE SubSeq(queue, CHOOSE k \in news : \A n \in news : k <= n, Len(queue))

Drain(queue, known, may) ==
    IF ~may
    THEN jobs' = queue /\ UNCHANGED <<request, clock>>
    ELSE LET left == Leftover(queue, known) IN
         /\ jobs' = left
         /\ IF left = <<>> THEN request' = Nothing /\ UNCHANGED clock
            ELSE /\ clock' = clock + 1
                 /\ request' = [stage |-> "sent", value |-> left[1].value, at |-> clock + 1, told |-> FALSE]

Busy == request # Nothing
MayDrain == active /\ ~Busy

\* A change of the operator's, or a step of a sequence: ordered if its order
\* matters, as for a pulse that is reset.
Change(v, kind) ==
    /\ v # value
    /\ Uses("changes")
    /\ value' = v
    /\ owed' = IF kind = "ordered" /\ Accepted(kind) THEN Append(owed, v) ELSE owed
    /\ IF Accepted(kind) THEN Drain(Enqueued(kind, v), published, MayDrain)
       ELSE UNCHANGED <<jobs, request, clock>>
    /\ UNCHANGED <<published, answer, active, holder, upstream, snapshot, shown, blurred>>

\* publish, once in an interval.
Publish ==
    /\ Drain(Enqueued("steady", value), published, MayDrain)
    /\ UNCHANGED <<value, published, answer, active, holder, upstream, snapshot, shown, owed, blurred, rest>>

\* An RPC is applied and its answer kept until it is delivered.
RpcApplied(v) ==
    /\ answer = Nothing
    /\ active /\ holder = "here"
    /\ Uses("rpcs")
    /\ value' = v
    /\ clock' = clock + 1
    /\ answer' = [stage |-> "kept", value |-> v, at |-> clock + 1, told |-> FALSE]
    /\ UNCHANGED <<published, jobs, request, active, holder, upstream, snapshot, shown, owed, blurred>>

-----------------------------------------------------------------------------
(* The requests.                                                           *)

\* What ThingsBoard is told: of two values it keeps the newer one.
Told(v, at) ==
    /\ shown' = Append(shown, v)
    /\ upstream' = IF at >= upstream.at THEN [value |-> v, at |-> at] ELSE upstream

\* The telemetry request, if the page has the lease: the value is published
\* and then stored.
TelemetryChecked ==
    /\ request.stage = "sent"
    /\ IF holder = "here"
       THEN request' = [request EXCEPT !.stage = "checked"] /\ UNCHANGED active
       ELSE request' = Nothing /\ active' = FALSE
    /\ UNCHANGED <<value, published, jobs, answer, holder, upstream, snapshot, shown, owed, clock, blurred, rest>>

TelemetryPublished ==
    /\ request.stage = "checked"
    /\ Told(request.value, request.at)
    /\ request' = [request EXCEPT !.stage = "published"]
    /\ UNCHANGED <<value, published, jobs, answer, active, holder, snapshot, owed, clock, blurred, rest>>

TelemetryStored ==
    /\ request.stage = "published"
    /\ snapshot' = request.value
    /\ request' = [request EXCEPT !.stage = "stored"]
    /\ UNCHANGED <<value, published, jobs, answer, active, holder, upstream, shown, owed, clock, blurred, rest>>

\* Mutant: the value the page has by now is taken for the one that was sent.
TelemetryAnsweredNow ==
    /\ request.stage = "stored"
    /\ published' = value
    /\ active' = TRUE
    /\ Drain(Tail(jobs), value, TRUE)
    /\ UNCHANGED <<value, answer, holder, upstream, snapshot, shown, owed, blurred, rest>>

\* The answer: the job is done and the next one is sent.
TelemetryAnswered ==
    /\ request.stage = "stored"
    /\ published' = request.value
    /\ active' = TRUE
    /\ Drain(Tail(jobs), request.value, TRUE)
    /\ UNCHANGED <<value, answer, holder, upstream, snapshot, shown, owed, blurred, rest>>

\* The request fails, whatever it has done by then: the job stays.
TelemetryFails ==
    /\ Busy
    /\ Uses("failures")
    /\ request' = Nothing
    /\ blurred' = (blurred \/ request.stage \in {"published", "stored"})
    /\ UNCHANGED <<value, published, jobs, answer, active, holder, upstream, snapshot, shown, owed, clock>>

\* The delivery of an answer: its value is published, once, and stored.
AnswerChecked ==
    /\ answer.stage = "kept"
    /\ IF holder = "here"
       THEN answer' = [answer EXCEPT !.stage = "checked"] /\ UNCHANGED <<active, blurred>>
       ELSE answer' = Nothing /\ active' = FALSE /\ blurred' = (blurred \/ answer.told)
    /\ UNCHANGED <<value, published, jobs, request, holder, upstream, snapshot, shown, owed, clock, rest>>

AnswerPublished ==
    /\ answer.stage = "checked"
    /\ IF answer.told THEN UNCHANGED <<shown, upstream>> ELSE Told(answer.value, answer.at)
    /\ answer' = [answer EXCEPT !.stage = "published", !.told = TRUE]
    /\ blurred' = (blurred \/ Busy)
    /\ UNCHANGED <<value, published, jobs, request, active, holder, snapshot, owed, clock, rest>>

AnswerStored ==
    /\ answer.stage = "published"
    /\ snapshot' = answer.value
    /\ answer' = [answer EXCEPT !.stage = "stored"]
    /\ UNCHANGED <<value, published, jobs, request, active, holder, upstream, shown, owed, clock, blurred, rest>>

AnswerDelivered ==
    /\ answer.stage = "stored"
    /\ published' = answer.value
    /\ answer' = Nothing
    /\ active' = TRUE
    /\ blurred' = (blurred \/ Busy \/ upstream.at # answer.at)
    /\ UNCHANGED <<value, jobs, request, holder, upstream, snapshot, shown, owed, clock, rest>>

AnswerFails ==
    /\ answer.stage \notin {"none", "kept"}
    /\ Uses("failures")
    /\ answer' = [answer EXCEPT !.stage = "kept"]
    /\ UNCHANGED <<value, published, jobs, request, active, holder, upstream, snapshot, shown, owed, clock, blurred>>

-----------------------------------------------------------------------------
(* The lease.                                                              *)

\* Another page has the lease for a while and may publish its own value.
LeaseLost ==
    /\ holder = "here"
    /\ Uses("takeovers")
    /\ holder' = "other"
    /\ UNCHANGED <<value, published, jobs, request, answer, active, upstream, snapshot, shown, owed, clock, blurred>>

OtherPublishes(v) ==
    /\ holder = "other"
    /\ Uses("others")
    /\ clock' = clock + 1
    /\ Told(v, clock + 1)
    /\ snapshot' = v
    /\ blurred' = TRUE
    /\ UNCHANGED <<value, published, jobs, request, answer, active, holder, owed>>

LeaseReturns ==
    /\ holder = "other"
    /\ holder' = "here"
    /\ UNCHANGED <<value, published, jobs, request, answer, active, upstream, snapshot, shown, owed, clock, blurred, rest>>

\* A poll tells the page whether it has the lease.
PollTells ==
    /\ answer = Nothing
    /\ active' = (holder = "here")
    /\ UNCHANGED <<value, published, jobs, request, answer, holder, upstream, snapshot, shown, owed, clock, blurred, rest>>

-----------------------------------------------------------------------------

RequestStep == TelemetryChecked \/ TelemetryPublished \/ TelemetryStored \/ TelemetryAnswered
AnswerStep == AnswerChecked \/ AnswerPublished \/ AnswerStored \/ AnswerDelivered

TelemetryNext ==
    \/ \E v \in Values : (\E kind \in {"steady", "ordered"} : Change(v, kind)) \/ RpcApplied(v) \/ OtherPublishes(v)
    \/ Publish \/ RequestStep \/ TelemetryFails \/ AnswerStep \/ AnswerFails
    \/ LeaseLost \/ LeaseReturns \/ PollTells

TelemetryFairness ==
    /\ WF_telemetryVars(Publish)
    /\ WF_telemetryVars(RequestStep)
    /\ WF_telemetryVars(AnswerStep)
    /\ WF_telemetryVars(PollTells)

TelemetrySpec == TelemetryInit /\ [][TelemetryNext]_telemetryVars /\ TelemetryFairness

-----------------------------------------------------------------------------

TelemetryTypeOK ==
    /\ value \in Values /\ published \in Values /\ snapshot \in Values
    /\ jobs \in Seq([kind : {"steady", "ordered"}, value : Values, turn : 0..Len(owed)])
    /\ Len(jobs) <= MaxPending
    /\ upstream \in [value : Values, at : Nat]
    /\ (Busy => jobs # <<>>)

\* The ordered changes the queue is done with.
Done == {k \in DOMAIN owed : \A i \in DOMAIN jobs : jobs[i].turn # k}

\* What ThingsBoard was told k-th; it starts with 0.
ShownAt(k) == IF k = 0 THEN 0 ELSE shown[k]

\* No ordered change is merged away: ThingsBoard has been told of every pulse's
\* beginning and end, in their order, when the queue is done with them,
\* unless the page's belief was upset.
PulsesAreSeen ==
    \/ blurred
    \/ \E at \in [Done -> 0..Len(shown)] :
           \A k, n \in Done : ShownAt(at[k]) = owed[k] /\ (k <= n => at[k] <= at[n])

TelemetryInv == TelemetryTypeOK /\ PulsesAreSeen

\* Once changes end, ThingsBoard and the stored snapshot have the value of the
\* page, unless another writer came in between.
ValuesSettle == <>[](blurred \/ holder = "other" \/ (upstream.value = value /\ snapshot = value))
=============================================================================

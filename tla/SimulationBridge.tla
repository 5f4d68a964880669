-------------------------- MODULE SimulationBridge --------------------------
(***************************************************************************)
(* The Simulation Bridge: runtime pages of a Simulation project answer the *)
(* RPCs that ThingsBoard sends to the simulated device                     *)
(* (api/_handlers/simulator.js, api/_lib/simulation-rpc-state.js, the RPC  *)
(* loop of src/runtime/RuntimeApp.jsx).  One page at a time holds the      *)
(* responder lease; what is known of an RPC is kept in the database, so    *)
(* that another page, or a repeated request, can finish what a stopped     *)
(* request has begun.                                                      *)
(*                                                                         *)
(* ThingsBoard gives an RPC to one poll, in the order of the numbers.  An  *)
(* answer is the page that computed it and how often that page had applied *)
(* the RPC by then.                                                        *)
(***************************************************************************)
EXTENDS Naturals, Sequences, SequencesExt

CONSTANTS
    Rpcs,           \* the numbers RPCs may get, from 1
    Quiet,          \* RPCs whose answer comes without telemetry: setpoints that ramp
    Responders,     \* the runtime sessions of the pages
    BridgeBounds,   \* the instances a run covers: the pages that are open and
                    \* how often what they cannot control happens
    None,
    Orphan          \* the request of a connection that has broken

Slots == Responders \cup {Orphan}
Answers == Responders \X Nat

ASSUME BridgeAssumption ==
    /\ Rpcs \subseteq Nat \ {0}
    /\ None \notin Slots \cup Answers
    /\ Orphan \notin Responders
    /\ BridgeBounds \subseteq [rpcs : Nat, pages : SUBSET Responders,
                            takeovers : Nat, lapses : Nat, claims : Nat, failures : Nat,
                            breaks : Nat, deaths : Nat, closes : Nat]
    /\ \A b \in BridgeBounds : 1..b.rpcs \subseteq Rpcs

VARIABLES
    lease,      \* the SimulationResponderLease: owner, lapsed
    rpc,        \* RPC -> its SimulationRpcLifecycle
    received,   \* the RPCs that have been recorded, in the order of receivedAt
    work,       \* page or Orphan -> the request /api/simulator is working on
    responder,  \* page -> whether it is open, its pending answer, what it has processed
    applied,    \* page -> RPC -> how often the page has applied it
    asked,      \* how many RPCs ThingsBoard has handed out
    telemetry,  \* RPC -> the answers whose telemetry was published
    response,   \* RPC -> the answers ThingsBoard was given
    events,     \* what has happened that the properties make an exception for
    budget      \* what may still happen

bridgeVars ==
    <<lease, rpc, received, work, responder, applied, asked, telemetry, response, events, budget>>

NoWork == [pc |-> "none", page |-> None, asks |-> FALSE, rpc |-> 0, found |-> 0, answer |-> None,
           status |-> "none", again |-> FALSE]
NoRpc == [status |-> "none", owner |-> None, answer |-> None, stage |-> "none", by |-> None, lapsed |-> FALSE]

BridgeInit ==
    /\ budget \in BridgeBounds
    /\ lease = [owner |-> None, lapsed |-> TRUE]
    /\ rpc = [i \in Rpcs |-> NoRpc]
    /\ received = <<>>
    /\ work = [s \in Slots |-> NoWork]
    /\ responder = [p \in Responders |-> [open |-> p \in budget.pages, pending |-> 0, processed |-> {}]]
    /\ applied = [p \in Responders |-> [i \in Rpcs |-> 0]]
    /\ asked = 0
    /\ telemetry = [i \in Rpcs |-> <<>>]
    /\ response = [i \in Rpcs |-> <<>>]
    /\ events = {}

Costs(what) ==
    /\ budget[what] > 0
    /\ budget' = [budget EXCEPT ![what] = @ - 1]

-----------------------------------------------------------------------------
(* The page's loop.                                                        *)

\* The next request: a pending answer first, or else a poll.
Ask(p) ==
    /\ responder[p].open
    /\ work[p] = NoWork
    /\ LET i == responder[p].pending
       IN work' = [work EXCEPT ![p] =
              [NoWork EXCEPT !.pc = "lease", !.page = p, !.asks = (i = 0), !.rpc = i,
                             !.answer = IF i = 0 THEN None ELSE <<p, applied[p][i]>>]]
    /\ UNCHANGED <<lease, rpc, received, responder, applied, asked, telemetry, response, events, budget>>

\* A request was polled: it is applied to the page's values and its answer is
\* kept until it has been delivered.
GetsRequest(p, i) ==
    IF i \in responder[p].processed
    THEN UNCHANGED <<responder, applied>>
    ELSE /\ applied' = [applied EXCEPT ![p][i] = @ + 1]
         /\ responder' = [responder EXCEPT ![p] = [@ EXCEPT !.pending = i]]

\* The answer was delivered.
GetsOk(p) ==
    /\ responder' = [responder EXCEPT ![p] =
           [open |-> @.open, pending |-> 0, processed |-> @.processed \cup {@.pending}]]
    /\ UNCHANGED applied

\* Another page holds the lease: what is pending is forgotten.
GetsStandby(p) ==
    /\ responder' = [responder EXCEPT ![p] = [@ EXCEPT !.pending = 0]]
    /\ UNCHANGED applied

\* The result reaches the page, unless it is closed or the connection is gone.
Gets(s, result, i) ==
    LET p == work[s].page IN
    /\ work' = [work EXCEPT ![s] = NoWork]
    /\ IF s = Orphan \/ ~responder[p].open
       THEN UNCHANGED <<responder, applied>>
       ELSE \/ result = "request" /\ GetsRequest(p, i)
            \/ result = "ok" /\ GetsOk(p)
            \/ result = "standby" /\ GetsStandby(p)
            \/ result \in {"null", "error"} /\ UNCHANGED <<responder, applied>>

\* The page is left: it releases its lease, if the request arrives.
CloseBridge(p) ==
    /\ responder[p].open
    /\ Costs("closes")
    /\ responder' = [responder EXCEPT ![p] = [@ EXCEPT !.open = FALSE, !.pending = 0]]
    /\ \/ lease' = IF lease.owner = p THEN [owner |-> None, lapsed |-> TRUE] ELSE lease
       \/ UNCHANGED lease
    /\ UNCHANGED <<rpc, received, work, applied, asked, telemetry, response, events>>

\* The operator takes the lease over.
Takeover(p) ==
    /\ responder[p].open
    /\ lease.owner # p
    /\ Costs("takeovers")
    /\ lease' = [owner |-> p, lapsed |-> FALSE]
    /\ UNCHANGED <<rpc, received, work, responder, applied, asked, telemetry, response, events>>

-----------------------------------------------------------------------------
(* GET and POST /api/simulator.                                            *)

To(s, pc) == work' = [work EXCEPT ![s] = [@ EXCEPT !.pc = pc]]
Sees(s, pc, i) ==
    work' = [work EXCEPT ![s] = [@ EXCEPT !.pc = pc, !.rpc = i, !.status = rpc[i].status]]

\* acquireSimulationResponderLease.
AcquireBridge(s) ==
    LET p == work[s].page IN
    /\ work[s].pc = "lease"
    /\ IF lease.owner = p \/ lease.lapsed
       THEN /\ lease' = [owner |-> p, lapsed |-> FALSE]
            /\ To(s, IF work[s].asks THEN "find" ELSE "read")
            /\ UNCHANGED <<responder, applied, events>>
       ELSE /\ Gets(s, "standby", 0)
            /\ events' = IF work[s].asks THEN events ELSE events \cup {<<"forgotten", work[s].rpc>>}
            /\ UNCHANGED lease
    /\ UNCHANGED <<rpc, received, asked, telemetry, response, budget>>

Unfinished == {k \in DOMAIN received : rpc[received[k]].status \in {"received", "published"}}
Oldest == received[CHOOSE k \in Unfinished : \A n \in Unfinished : k <= n]

\* findPendingSimulationRpc: the oldest unfinished RPC, made one's own if its
\* status has not changed meanwhile.  A poll completes one whose telemetry was
\* published, once, and hands out one that waits for its answer.  A request
\* with an answer that could not be stored completes it, whichever RPC it is.
Found(s, i, status) ==
    LET w == work[s] IN
    IF w.asks /\ status = "received"
    THEN Gets(s, "request", i) /\ UNCHANGED events
    ELSE /\ work' = [work EXCEPT ![s] =
                [@ EXCEPT !.pc = IF w.again THEN "poll" ELSE "claim", !.rpc = i, !.status = status]]
         /\ events' = IF ~w.asks /\ (rpc[i].answer = None \/ i # w.rpc)
                      THEN events \cup {<<"fallback", i>>} ELSE events
         /\ UNCHANGED <<responder, applied>>

FoundNone(s) ==
    /\ IF work[s].asks THEN To(s, "poll") /\ UNCHANGED <<responder, applied>> ELSE Gets(s, "error", 0)
    /\ UNCHANGED events

FindPending(s) ==
    /\ work[s].pc = "find"
    /\ IF Unfinished = {} THEN FoundNone(s)
       ELSE IF rpc[Oldest].owner = work[s].page THEN Found(s, Oldest, rpc[Oldest].status)
       ELSE /\ work' = [work EXCEPT ![s] =
                   [@ EXCEPT !.pc = "adopt", !.found = Oldest, !.status = rpc[Oldest].status]]
            /\ UNCHANGED <<responder, applied, events>>
    /\ UNCHANGED <<lease, rpc, received, asked, telemetry, response, budget>>

AdoptPending(s) ==
    LET i == work[s].found IN
    /\ work[s].pc = "adopt"
    /\ IF rpc[i].status = work[s].status
       THEN /\ rpc' = [rpc EXCEPT ![i] = [@ EXCEPT !.owner = work[s].page]]
            /\ Found(s, i, rpc[i].status)
       ELSE FoundNone(s) /\ UNCHANGED rpc
    /\ UNCHANGED <<lease, received, asked, telemetry, response, budget>>

\* pollDeviceRpc.
PollDevice(s) ==
    /\ work[s].pc = "poll"
    /\ \/ /\ asked < budget.rpcs
          /\ asked' = asked + 1
          /\ work' = [work EXCEPT ![s] = [@ EXCEPT !.pc = "record", !.rpc = asked + 1]]
          /\ UNCHANGED <<responder, applied>>
       \/ /\ Gets(s, "null", 0)
          /\ UNCHANGED asked
    /\ UNCHANGED <<lease, rpc, received, telemetry, response, events, budget>>

\* recordSimulationRpc.
RecordRpc(s) ==
    LET i == work[s].rpc IN
    /\ work[s].pc = "record"
    /\ rpc' = [rpc EXCEPT ![i] = [NoRpc EXCEPT !.status = "received", !.owner = work[s].page]]
    /\ received' = Append(received, i)
    /\ Gets(s, "request", i)
    /\ UNCHANGED <<lease, asked, telemetry, response, events, budget>>

\* storeSimulationRpcCompletion: an answer that is stored already stands, and
\* so does the response to an RPC that had none.
ReadRpc(s) ==
    LET w == work[s]
        i == w.rpc
    IN /\ w.pc = "read"
       /\ IF rpc[i].status = "responded" \/ rpc[i].answer # None
          THEN /\ rpc' = [rpc EXCEPT ![i] = [@ EXCEPT !.owner = w.page]]
               /\ Sees(s, "claim", i)
          ELSE To(s, "store") /\ UNCHANGED rpc
       /\ UNCHANGED <<lease, received, responder, applied, asked, telemetry, response, events, budget>>

StoreAnswer(s) ==
    LET w == work[s]
        i == w.rpc
    IN /\ w.pc = "store"
       /\ IF rpc[i].status = "received" /\ rpc[i].answer = None
          THEN /\ rpc' = [rpc EXCEPT ![i] = [@ EXCEPT !.owner = w.page, !.answer = w.answer]]
               /\ Sees(s, "claim", i)
          ELSE To(s, "find") /\ UNCHANGED rpc
       /\ UNCHANGED <<lease, received, responder, applied, asked, telemetry, response, events, budget>>

-----------------------------------------------------------------------------
(* completeRpcLifecycle: the telemetry, then the response, each under a    *)
(* claim.                                                                  *)

StageOf(status) == IF status = "received" THEN "telemetry" ELSE "response"
After(stage) == IF stage = "telemetry" THEN "published" ELSE "responded"

\* Mutant: a claim that is held is no obstacle.
ClaimableAlways(i, status, p) == rpc[i].status = status /\ rpc[i].owner = p

\* Mutant: a claim does not expire.
ClaimableFree(i, status, p) ==
    rpc[i].status = status /\ rpc[i].owner = p /\ rpc[i].stage = "none"

Claimable(i, status, p) ==
    /\ rpc[i].status = status
    /\ rpc[i].owner = p
    /\ rpc[i].stage = "none" \/ rpc[i].lapsed

\* claimSimulationRpcStage.
ClaimStage(s) ==
    LET w == work[s]
        i == w.rpc
    IN /\ w.pc = "claim"
       /\ IF w.status = "responded"
          THEN Gets(s, "ok", 0) /\ UNCHANGED rpc
          ELSE IF Claimable(i, w.status, w.page)
          THEN /\ rpc' = [rpc EXCEPT ![i] = [@ EXCEPT !.stage = StageOf(w.status), !.by = s, !.lapsed = FALSE]]
               /\ work' = [work EXCEPT ![s] = [@ EXCEPT !.pc = "send", !.answer = rpc[i].answer]]
               /\ UNCHANGED <<responder, applied>>
          ELSE Gets(s, "error", 0) /\ UNCHANGED rpc
       /\ UNCHANGED <<lease, received, asked, telemetry, response, events, budget>>

\* publishDeviceTelemetry, if there is telemetry, or respondDeviceRpc; the
\* request may fail, whether or not it has arrived.
Sent(s) ==
    LET w == work[s]
        i == w.rpc
    IN IF w.status = "received"
       THEN /\ telemetry' = IF w.answer = None \/ i \in Quiet THEN telemetry
                            ELSE [telemetry EXCEPT ![i] = Append(@, w.answer)]
            /\ UNCHANGED response
       ELSE /\ response' = [response EXCEPT ![i] = Append(@, w.answer)]
            /\ UNCHANGED telemetry

Send(s) ==
    /\ work[s].pc = "send"
    /\ \/ Sent(s) /\ To(s, "advance") /\ UNCHANGED <<events, budget>>
       \/ /\ Costs("failures")
          /\ Sent(s) \/ UNCHANGED <<telemetry, response>>
          /\ To(s, "unclaim")
          /\ events' = events \cup {<<"repeat", work[s].rpc>>}
    /\ UNCHANGED <<lease, rpc, received, responder, applied, asked>>

Holds(s) == rpc[work[s].rpc].stage = StageOf(work[s].status) /\ rpc[work[s].rpc].by = s
Unclaimed(x) == [x EXCEPT !.stage = "none", !.by = None, !.lapsed = FALSE]

\* advanceSimulationRpcStage; without the claim the request ends in an error,
\* but a poll goes on.
Advance(s) ==
    LET w == work[s]
        i == w.rpc
        done == After(StageOf(w.status))
    IN /\ w.pc = "advance"
       /\ IF Holds(s)
          THEN rpc' = [rpc EXCEPT ![i] = [Unclaimed(@) EXCEPT !.status = done]]
          ELSE UNCHANGED rpc
       /\ IF Holds(s) /\ done = "published"
          THEN /\ work' = [work EXCEPT ![s] = [@ EXCEPT !.pc = "claim", !.status = done]]
               /\ UNCHANGED <<responder, applied>>
          ELSE IF w.asks
          THEN /\ work' = [work EXCEPT ![s] = [@ EXCEPT !.pc = "find", !.again = TRUE]]
               /\ UNCHANGED <<responder, applied>>
          ELSE Gets(s, IF Holds(s) THEN "ok" ELSE "error", 0)
       /\ UNCHANGED <<lease, received, asked, telemetry, response, events, budget>>

\* releaseSimulationRpcStage after a failure.
ReleaseStage(s) ==
    /\ work[s].pc = "unclaim"
    /\ rpc' = IF Holds(s) THEN [rpc EXCEPT ![work[s].rpc] = Unclaimed(@)] ELSE rpc
    /\ Gets(s, "error", 0)
    /\ UNCHANGED <<lease, received, asked, telemetry, response, events, budget>>

-----------------------------------------------------------------------------
(* What happens around them.                                               *)

Rehold(from, to) == [i \in Rpcs |-> IF rpc[i].by = from THEN [rpc[i] EXCEPT !.by = to] ELSE rpc[i]]

\* The connection breaks: the page starts over, the request goes on.
Break(p) ==
    /\ work[p] # NoWork
    /\ work[Orphan] = NoWork
    /\ Costs("breaks")
    /\ work' = [work EXCEPT ![p] = NoWork, ![Orphan] = work[p]]
    /\ rpc' = Rehold(p, Orphan)
    /\ UNCHANGED <<lease, received, responder, applied, asked, telemetry, response, events>>

\* The function that works on a request stops.  An RPC it has polled and not
\* recorded is lost.
Die(s) ==
    /\ work[s] # NoWork
    /\ Costs("deaths")
    /\ work' = [work EXCEPT ![s] = NoWork]
    /\ rpc' = Rehold(s, None)
    /\ events' = events \cup (IF work[s].pc = "record" THEN {<<"lost", work[s].rpc>>} ELSE {})
    /\ UNCHANGED <<lease, received, responder, applied, asked, telemetry, response>>

\* The lease expires: of a page that is not there any more, or of one that is
\* still working with it.
LeaseExpires ==
    /\ ~lease.lapsed
    /\ lease' = [lease EXCEPT !.lapsed = TRUE]
    /\ UNCHANGED <<rpc, received, work, responder, applied, asked, telemetry, response, events>>

LeaseLapses == LeaseExpires /\ Costs("lapses")
LeaseEnds == LeaseExpires /\ ~responder[lease.owner].open /\ UNCHANGED budget

\* A claim expires, of a request that is not there any more or of one that is
\* still going on.
ClaimExpires(i) ==
    /\ rpc[i].stage # "none"
    /\ ~rpc[i].lapsed
    /\ rpc' = [rpc EXCEPT ![i] = [@ EXCEPT !.lapsed = TRUE]]
    /\ events' = events \cup {<<"repeat", i>>}
    /\ UNCHANGED <<lease, received, work, responder, applied, asked, telemetry, response>>

ClaimLapses(i) == ClaimExpires(i) /\ rpc[i].by # None /\ Costs("claims")
ClaimEnds(i) == ClaimExpires(i) /\ rpc[i].by = None /\ UNCHANGED budget

-----------------------------------------------------------------------------

BridgeStep(s) ==
    \/ AcquireBridge(s) \/ FindPending(s) \/ AdoptPending(s) \/ PollDevice(s) \/ RecordRpc(s)
    \/ ReadRpc(s) \/ StoreAnswer(s) \/ ClaimStage(s) \/ Send(s) \/ Advance(s)
    \/ ReleaseStage(s)

BridgeNext ==
    \/ \E p \in Responders : Ask(p) \/ CloseBridge(p) \/ Takeover(p) \/ Break(p)
    \/ \E s \in Slots : BridgeStep(s) \/ Die(s)
    \/ LeaseLapses \/ LeaseEnds
    \/ \E i \in Rpcs : ClaimLapses(i) \/ ClaimEnds(i)

\* The page's loop goes on, a function returns, and what nobody holds any more
\* expires.
BridgeFairness ==
    /\ \A p \in Responders : WF_bridgeVars(Ask(p) \/ BridgeStep(p))
    /\ WF_bridgeVars(BridgeStep(Orphan))
    /\ WF_bridgeVars(LeaseEnds)
    /\ WF_bridgeVars(\E i \in Rpcs : ClaimEnds(i))

BridgeSpec == BridgeInit /\ [][BridgeNext]_bridgeVars /\ BridgeFairness

-----------------------------------------------------------------------------

BridgeTypeOK ==
    /\ lease \in [owner : Responders \cup {None}, lapsed : BOOLEAN]
    /\ rpc \in [Rpcs -> [status : {"none", "received", "published", "responded"},
                         owner : Responders \cup {None}, answer : Answers \cup {None},
                         stage : {"none", "telemetry", "response"}, by : Slots \cup {None},
                         lapsed : BOOLEAN]]
    /\ received \in Seq(Rpcs)
    /\ responder \in [Responders -> [open : BOOLEAN, pending : Rpcs \cup {0}, processed : SUBSET Rpcs]]

\* ThingsBoard is given one story of an RPC: the telemetry that is published
\* for it and the response are those of the one answer that was stored first,
\* whichever pages, repeated requests and expired claims were involved.
OneAnswer ==
    \A i \in Rpcs :
        \/ <<"fallback", i>> \in events
        \/ ToSet(telemetry[i]) \cup ToSet(response[i]) \subseteq {rpc[i].answer} \ {None}

\* The response comes after the telemetry it reports on.
TelemetryFirst ==
    \A i \in Rpcs \ Quiet :
        <<"fallback", i>> \in events \/ (response[i] # <<>> => telemetry[i] # <<>>)

\* Each is sent once, unless a call failed or a claim expired.
SentOnce ==
    \A i \in Rpcs :
        <<"repeat", i>> \in events \/ (Len(telemetry[i]) <= 1 /\ Len(response[i]) <= 1)

\* A page applies an RPC to its values once, unless another page had the lease
\* when it wanted to deliver its answer.
AppliedOnce ==
    \A i \in Rpcs : <<"forgotten", i>> \in events \/ \A p \in Responders : applied[p][i] <= 1

BridgeInv == BridgeTypeOK /\ OneAnswer /\ TelemetryFirst /\ SentOnce /\ AppliedOnce

\* As long as a page is open, every RPC that was recorded is answered in the end.
RpcsAnswered ==
    <>[](\/ \A p \in Responders : ~responder[p].open
         \/ \A i \in ToSet(received) : rpc[i].status = "responded")
=============================================================================

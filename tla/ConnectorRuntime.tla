-------------------------- MODULE ConnectorRuntime --------------------------
(***************************************************************************)
(* One connector's runtime: the loop of                                    *)
(* server/connectors/connector-runtime.js with its ThingsBoard driver      *)
(* (thingsboard-driver.js) and the driver's queue (async-queue.js), from   *)
(* connecting through reading to backing off, and stop() at any moment.    *)
(*                                                                         *)
(* pc names the await the loop stands at.  Time is left to choice: any     *)
(* tag with a periodic policy may be found late at any moment.             *)
(***************************************************************************)
EXTENDS Naturals, Sequences

CONSTANTS
    Tags,
    Periodic,       \* the tags whose freshness mode is not event-driven
    HealthFaults,   \* TRUE: the database may refuse a health update
    EarlyClose,     \* TRUE: a connection may close before it is subscribed to
    MaxBacklog      \* bound: samples waiting in the driver's queue

ASSUME RuntimeAssumption ==
    /\ Periodic \subseteq Tags
    /\ HealthFaults \in BOOLEAN
    /\ EarlyClose \in BOOLEAN
    /\ MaxBacklog \in Nat

VARIABLES
    pc,         \* where the loop of #run stands
    link,       \* the newest WebSocket
    held,       \* driver.socket refers to it
    listening,  \* subscribe() has attached its handlers to it
    queue,      \* samples waiting for the loop
    queueEnd,   \* the queue is open, closed, or closed with an error
    shown,      \* tag -> the quality of its last event
    health,     \* the connector's health in the database
    aborted,    \* controller.signal.aborted
    stop,       \* where the call of stop() stands
    late        \* stop() was called when this attempt had no socket yet

driver == <<link, held, listening, queue, queueEnd>>
runtimeVars   == <<pc, driver, shown, health, aborted, stop, late>>

RuntimeInit ==
    /\ pc = "connecting"
    /\ link = "none"
    /\ held = FALSE
    /\ listening = FALSE
    /\ queue = <<>>
    /\ queueEnd = "closed"
    /\ shown = [t \in Tags |-> "none"]
    /\ health = "unknown"
    /\ aborted = FALSE
    /\ stop = "no"
    /\ late = FALSE

Up == link \in {"opening", "open"}

\* driver.disconnect(): what is queued can still be read.
Disconnect ==
    /\ link' = IF held /\ Up THEN "closed" ELSE link
    /\ held' = FALSE
    /\ queueEnd' = IF queueEnd = "open" THEN "closed" ELSE queueEnd
    /\ UNCHANGED <<listening, queue>>

\* The top of the while loop, and its catch clause.
LoopTop == pc' = IF aborted THEN "ended" ELSE "connecting"

Caught == pc' = IF aborted THEN "ended" ELSE "offline"

-----------------------------------------------------------------------------
(* The loop.                                                               *)

\* onHealth('connecting') is stored; a new driver starts to connect.
ConnectingStored ==
    /\ pc = "connecting"
    /\ health' = "connecting"
    /\ pc' = "validating"
    /\ link' = "none"
    /\ held' = FALSE
    /\ listening' = FALSE
    /\ queue' = <<>>
    /\ queueEnd' = "closed"
    /\ UNCHANGED <<shown, aborted, stop, late>>

\* validateTarget resolves the server's name, or refuses it.
TargetAccepted ==
    /\ pc = "validating"
    /\ pc' = "opening"
    /\ link' = "opening"
    /\ held' = TRUE
    /\ UNCHANGED <<listening, queue, queueEnd, shown, health, aborted, stop, late>>

TargetRefused ==
    /\ pc = "validating"
    /\ Caught
    /\ UNCHANGED <<driver, shown, health, aborted, stop, late>>

SocketOpens ==
    /\ pc = "opening"
    /\ link = "opening"
    /\ link' = "open"
    /\ pc' = "online"
    /\ UNCHANGED <<held, listening, queue, queueEnd, shown, health, aborted, stop, late>>

\* An error, the timeout of connect(), or the close of disconnect().
SocketFails ==
    /\ pc = "opening"
    /\ link' = "closed"
    /\ Caught
    /\ UNCHANGED <<held, listening, queue, queueEnd, shown, health, aborted, stop, late>>

\* onHealth('online') is stored, then subscribe(): it throws without a
\* socket, and does not look whether the socket is still open.
OnlineStored ==
    /\ pc = "online"
    /\ health' = "online"
    /\ IF held
       THEN /\ pc' = "reading"
            /\ listening' = TRUE
            /\ queueEnd' = "open"
       ELSE Caught /\ UNCHANGED <<listening, queueEnd>>
    /\ UNCHANGED <<link, held, queue, shown, aborted, stop, late>>

\* The loop takes a sample: #consume, unless stop() has been called.
Consume ==
    /\ pc = "reading"
    /\ queue # <<>>
    /\ queue' = Tail(queue)
    /\ IF aborted
       THEN pc' = "ended" /\ UNCHANGED shown
       ELSE shown' = [shown EXCEPT ![Head(queue)] = "good"] /\ UNCHANGED pc
    /\ UNCHANGED <<link, held, listening, queueEnd, health, aborted, stop, late>>

\* The subscription ends, with an error or without.
SubscriptionEnds ==
    /\ pc = "reading"
    /\ queue = <<>>
    /\ queueEnd # "open"
    /\ Caught
    /\ UNCHANGED <<driver, shown, health, aborted, stop, late>>

\* Mutant: the tags are left as they are.
OfflineStoredUnmarked ==
    /\ pc = "offline"
    /\ health' = "offline"
    /\ Disconnect
    /\ pc' = "backoff"
    /\ UNCHANGED <<shown, aborted, stop, late>>

\* onHealth('offline') is stored, every tag is marked, the driver let go.
OfflineStored ==
    /\ pc = "offline"
    /\ health' = "offline"
    /\ shown' = [t \in Tags |-> "disconnected"]
    /\ Disconnect
    /\ pc' = "backoff"
    /\ UNCHANGED <<aborted, stop, late>>

\* The delay passes, or stop() cuts it short.
BackoffEnds ==
    /\ pc = "backoff"
    /\ LoopTop
    /\ UNCHANGED <<driver, shown, health, aborted, stop, late>>

\* The database refuses a health update, or the event that goes with one it
\* has stored.  In the catch clause nothing catches it: the loop is left for
\* good.
HealthFails ==
    /\ HealthFaults
    /\ pc \in {"connecting", "online", "offline"}
    /\ health' \in {health, pc}
    /\ IF pc = "offline" THEN pc' = "failed" ELSE Caught
    /\ UNCHANGED <<driver, shown, aborted, stop, late>>

-----------------------------------------------------------------------------
(* Upstream, the stale timer and stop().                                   *)

SampleArrives(t) ==
    /\ link = "open"
    /\ listening
    /\ queueEnd = "open"
    /\ Len(queue) < MaxBacklog
    /\ queue' = Append(queue, t)
    /\ UNCHANGED <<pc, link, held, listening, queueEnd, shown, health, aborted, stop, late>>

\* Mutant: the close reaches nobody.
LinkClosesUnheard ==
    /\ link = "open"
    /\ listening \/ EarlyClose
    /\ link' = "closed"
    /\ UNCHANGED <<pc, held, listening, queue, queueEnd, shown, health, aborted, stop, late>>

\* The connection closes: only a subscribed one tells the loop.
LinkCloses ==
    /\ link = "open"
    /\ listening \/ EarlyClose
    /\ link' = IF listening THEN "closed" ELSE "unnoticed"
    /\ queueEnd' = IF listening /\ queueEnd = "open" THEN "error" ELSE queueEnd
    /\ UNCHANGED <<pc, held, listening, queue, shown, health, aborted, stop, late>>

Running == pc \notin {"ended", "failed"}

\* #detectStale, on its timer until the loop is left.
DetectStale(t) ==
    /\ Running
    /\ t \in Periodic
    /\ \E quality \in {"stale", "disconnected"} \ {shown[t]} :
           shown' = [shown EXCEPT ![t] = quality]
    /\ UNCHANGED <<pc, driver, health, aborted, stop, late>>

\* Mutant: the driver is let go only by the loop.
StopWithoutDisconnect ==
    /\ stop = "no"
    /\ stop' = "waiting"
    /\ aborted' = TRUE
    /\ UNCHANGED <<pc, driver, shown, health, late>>

Stop ==
    /\ stop = "no"
    /\ stop' = "waiting"
    /\ aborted' = TRUE
    /\ late' = (pc \in {"connecting", "validating"})
    /\ Disconnect
    /\ UNCHANGED <<pc, shown, health>>

StopReturns ==
    /\ stop = "waiting"
    /\ ~Running
    /\ stop' = "returned"
    /\ UNCHANGED <<pc, driver, shown, health, aborted, late>>

-----------------------------------------------------------------------------
RuntimeLoop ==
    \/ ConnectingStored
    \/ TargetAccepted \/ TargetRefused
    \/ SocketOpens \/ SocketFails
    \/ OnlineStored
    \/ Consume \/ SubscriptionEnds
    \/ OfflineStored
    \/ BackoffEnds
    \/ HealthFails

RuntimeNext ==
    \/ RuntimeLoop
    \/ \E t \in Tags : SampleArrives(t) \/ DetectStale(t)
    \/ LinkCloses
    \/ Stop \/ StopReturns

-----------------------------------------------------------------------------
(***************************************************************************)
(* Properties.                                                             *)
(***************************************************************************)

RuntimeTypeOK ==
    /\ pc \in {"connecting", "validating", "opening", "online", "reading",
               "offline", "backoff", "ended", "failed"}
    /\ link \in {"none", "opening", "open", "closed", "unnoticed"}
    /\ {held, listening, aborted, late} \subseteq BOOLEAN
    /\ queue \in Seq(Tags)
    /\ queueEnd \in {"open", "closed", "error"}
    /\ shown \in [Tags -> {"none", "good", "stale", "disconnected"}]
    /\ health \in {"unknown", "connecting", "online", "offline"}
    /\ stop \in {"no", "waiting", "returned"}
    /\ stop # "no" <=> aborted

\* While the runtime reconnects no tag is shown as good: the mark of the
\* disconnect precedes the next attempt, and no sample of the old connection
\* is consumed after it.
ReconnectingIsNotGood ==
    pc \in {"backoff", "connecting", "validating", "opening", "online"} =>
        \A t \in Tags : shown[t] # "good"

\* When stop() has returned the runtime reads nothing more and holds no
\* connection, except for one that was opened after stop() had looked for it.
StopReleases ==
    stop = "returned" => ~Running /\ (Up => late)

\* stop() returns, except that of a runtime which was about to connect: that
\* one goes on to read, and notices the stop at its next sample or close.
StopEnds == stop = "waiting" /\ ~late ~> stop = "returned"

\* What holds of the runtime at every moment, with the types.
RuntimeInv == RuntimeTypeOK /\ ReconnectingIsNotGood /\ StopReleases

\* A lost connection is followed by a new attempt to connect, before which
\* the health in the database has stopped saying online and no tag is good,
\* an event-driven one neither, for which no staleness timer would do it.
\* Left out are a connection that closed before it was subscribed to, which
\* nothing notices, and a runtime whose loop a failing database has ended.
LossIsHandled ==
    link = "closed" ~>
        \/ /\ pc = "connecting"
           /\ health # "online"
           /\ \A t \in Tags : shown[t] # "good"
        \/ aborted
        \/ pc = "failed"
=============================================================================

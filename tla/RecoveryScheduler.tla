------------------------- MODULE RecoveryScheduler -------------------------
(***************************************************************************)
(* server/connectors/adaptive-recovery-scheduler.js driving the recovery   *)
(* of command-completion.js (flushPendingTerminalCommandAudits): a pass    *)
(* reads a page of the audits owed and writes them one by one; the next    *)
(* pass is due at once, after activeDelayMs or after idleDelayMs.          *)
(***************************************************************************)
EXTENDS Naturals, FiniteSets

CONSTANTS
    Audits,
    PageLimit       \* limit

VARIABLES
    started, stopped,   \* the flags of the same names
    run,        \* runPromise: none, its query, its writes, or settled
    page,       \* the audits the pass still has to write
    nextDelay,  \* the delay the pass has earned
    rerun,      \* rerunRequested
    timer,      \* the delay class of the armed timer, or none
    stop,       \* where the call of stop() stands
    owed,       \* the audits flagged in the database
    written,    \* the audits stored
    asked       \* a request was accepted and no pass has started since

scheduler == <<started, stopped, run, page, nextDelay, rerun, timer, stop>>
vars      == <<scheduler, owed, written, asked>>

Init ==
    /\ started = FALSE
    /\ stopped = FALSE
    /\ run = "none"
    /\ page = {}
    /\ nextDelay = "idle"
    /\ rerun = FALSE
    /\ timer = "none"
    /\ stop = "no"
    /\ owed \in SUBSET Audits
    /\ written = {}
    /\ asked = FALSE

\* A command completes, its audit is owed until it is written.
Owe(a) ==
    /\ a \notin owed \cup written
    /\ owed' = owed \cup {a}
    /\ UNCHANGED <<scheduler, written, asked>>

\* run(), when nothing is in flight: the timer is canceled and the query sent.
BeginPass ==
    /\ run' = "querying"
    /\ timer' = "none"
    /\ nextDelay' = "idle"
    /\ asked' = FALSE

Start ==
    /\ ~started
    /\ ~stopped
    /\ started' = TRUE
    /\ BeginPass
    /\ UNCHANGED <<stopped, page, rerun, stop, owed, written>>

TimerFires ==
    /\ timer # "none"
    /\ run = "none"
    /\ BeginPass
    /\ UNCHANGED <<started, stopped, page, rerun, stop, owed, written>>

Request ==
    /\ started
    /\ ~stopped
    /\ asked' = TRUE
    /\ IF run = "none"
       THEN timer' = "now" /\ UNCHANGED rerun
       ELSE rerun' = TRUE /\ UNCHANGED timer
    /\ UNCHANGED <<started, stopped, run, page, nextDelay, stop, owed, written>>

\* find(...).limit(limit): a full page, or all that is owed.
ReadPage ==
    /\ run = "querying"
    /\ page' \in {p \in SUBSET owed :
                     \/ Cardinality(p) = PageLimit
                     \/ p = owed /\ Cardinality(p) < PageLimit}
    /\ nextDelay' = IF page' = {} THEN "idle" ELSE "active"
    /\ run' = IF page' = {} THEN "settled" ELSE "writing"
    /\ UNCHANGED <<started, stopped, rerun, timer, stop, owed, written, asked>>

WriteAudit(a) ==
    /\ run = "writing"
    /\ a \in page
    /\ page' = page \ {a}
    /\ owed' = owed \ {a}
    /\ written' = written \cup {a}
    /\ run' = IF page' = {} THEN "settled" ELSE "writing"
    /\ UNCHANGED <<started, stopped, nextDelay, rerun, timer, stop, asked>>

\* Mutant: an error leaves the idle delay.
PassFailsIdle ==
    /\ run \in {"querying", "writing"}
    /\ run' = "settled"
    /\ page' = {}
    /\ nextDelay' = "idle"
    /\ UNCHANGED <<started, stopped, rerun, timer, stop, owed, written, asked>>

\* The query fails, or a write fails and ends the pass.
PassFails ==
    /\ run \in {"querying", "writing"}
    /\ run' = "settled"
    /\ page' = {}
    /\ nextDelay' = "active"
    /\ UNCHANGED <<started, stopped, rerun, timer, stop, owed, written, asked>>

\* The finally block.
Settle ==
    /\ run = "settled"
    /\ run' = "none"
    /\ IF stopped
       THEN UNCHANGED <<rerun, timer>>
       ELSE /\ rerun' = FALSE
            /\ timer' = IF rerun THEN "now" ELSE nextDelay
    /\ UNCHANGED <<started, stopped, page, nextDelay, stop, owed, written, asked>>

Stop ==
    /\ ~stopped
    /\ stopped' = TRUE
    /\ rerun' = FALSE
    /\ timer' = "none"
    /\ stop' = IF run = "none" THEN "returned" ELSE "waiting"
    /\ UNCHANGED <<started, run, page, nextDelay, owed, written, asked>>

StopReturns ==
    /\ stop = "waiting"
    /\ run = "none"
    /\ stop' = "returned"
    /\ UNCHANGED <<started, stopped, run, page, nextDelay, rerun, timer, owed, written, asked>>

Next ==
    \/ \E a \in Audits : Owe(a) \/ WriteAudit(a)
    \/ Start \/ TimerFires \/ Request
    \/ ReadPage \/ PassFails \/ Settle
    \/ Stop \/ StopReturns

Spec == Init /\ [][Next]_vars

-----------------------------------------------------------------------------
(***************************************************************************)
(* Properties.                                                             *)
(***************************************************************************)

Delays == {"now", "active", "idle"}

TypeOK ==
    /\ started \in BOOLEAN /\ stopped \in BOOLEAN
    /\ rerun \in BOOLEAN /\ asked \in BOOLEAN
    /\ run \in {"none", "querying", "writing", "settled"}
    /\ page \subseteq owed
    /\ nextDelay \in Delays
    /\ timer \in Delays \cup {"none"}
    /\ stop \in {"no", "waiting", "returned"}
    /\ owed \cup written \subseteq Audits
    /\ rerun => run # "none" /\ ~stopped
    /\ run # "none" => started /\ timer = "none"
    /\ timer # "none" => started
    /\ run = "writing" => nextDelay = "active"

\* A started scheduler is never asleep for good: outside a pass its timer is
\* armed, until it is stopped; and a stopped one arms none.
NeverAsleep ==
    /\ started /\ ~stopped /\ run = "none" => timer # "none"
    /\ stopped => timer = "none"

\* A request is followed by a pass that starts after it, at once or as soon
\* as the pass in flight is over: it never waits for a delay.
RequestIsPrompt ==
    asked /\ ~stopped => timer = "now" \/ (rerun /\ run # "none")
=============================================================================

--------------------------- MODULE WakeablePoller ---------------------------
(***************************************************************************)
(* server/connectors/wakeable-poller.js, between its caller's work and the *)
(* database it polls: items are stored, a wake may follow, and a poll      *)
(* reads what is stored, as far as its caller has room for it.  Wakes are  *)
(* lost when the API cannot send them.                                     *)
(***************************************************************************)
EXTENDS Naturals, FiniteSets

CONSTANTS Items

VARIABLES
    started, stopped,   \* the flags of the same names
    run,        \* runPromise: none, or how far its poll has come
    rerun,      \* rerunRequested
    stop,       \* where the call of stop() stands
    room,       \* the items the poll in flight may read
    stored,     \* items in the database no poll has read
    waking,     \* items whose wake is on its way
    woken,      \* items whose wake was accepted
    excused     \* items a poll could not read, for it failed or had no room
                \* left: the timer's business

poller == <<started, stopped, run, rerun, stop, room>>
work   == <<stored, waking, woken, excused>>
vars   == <<poller, work>>

Init ==
    /\ started = FALSE
    /\ stopped = FALSE
    /\ run = "none"
    /\ rerun = FALSE
    /\ stop = "no"
    /\ room = 0
    /\ stored = {}
    /\ waking = {}
    /\ woken = {}
    /\ excused = {}

\* A command is stored, and the API sends a wake for it, or cannot.
Store(i) ==
    /\ i \notin stored \cup waking \cup woken
    /\ stored' = stored \cup {i}
    /\ waking' \in {waking, waking \cup {i}}
    /\ UNCHANGED <<poller, woken, excused>>

\* run(): started, not stopped, nothing in flight.
CanRun == started /\ ~stopped /\ run = "none"

Start ==
    /\ ~started
    /\ ~stopped
    /\ started' = TRUE
    /\ run' = "scheduled"
    /\ UNCHANGED <<stopped, rerun, stop, room, work>>

\* Mutant: the timer waits for a wake.
TickIfWoken ==
    /\ CanRun
    /\ woken # {}
    /\ run' = "scheduled"
    /\ UNCHANGED <<started, stopped, rerun, stop, room, work>>

\* The interval timer, which stop() clears.
Tick ==
    /\ CanRun
    /\ run' = "scheduled"
    /\ UNCHANGED <<started, stopped, rerun, stop, room, work>>

\* Mutant: a request during a poll is taken for granted.
RequestWithoutRerun(i) ==
    /\ i \in waking
    /\ waking' = waking \ {i}
    /\ woken' = IF started /\ ~stopped THEN woken \cup {i} ELSE woken
    /\ run' = IF CanRun THEN "scheduled" ELSE run
    /\ UNCHANGED <<started, stopped, rerun, stop, room, stored, excused>>

\* The wake of item i arrives: request().
Request(i) ==
    /\ i \in waking
    /\ waking' = waking \ {i}
    /\ woken' = IF started /\ ~stopped THEN woken \cup {i} ELSE woken
    /\ run' = IF CanRun THEN "scheduled" ELSE run
    /\ rerun' = (rerun \/ (started /\ ~stopped /\ run # "none"))
    /\ UNCHANGED <<started, stopped, stop, room, stored, excused>>

\* What a poll leaves unread is read by the rerun that was requested since
\* it began, or is left to the timer.
Leave(unread) == excused' = IF rerun THEN excused ELSE excused \cup (woken \cap unread)

\* The microtask that calls poll, which finds out how much it may read; with
\* no room it returns at once.
PollBegins(available) ==
    /\ run = "scheduled"
    /\ available > 0
    /\ run' = "querying"
    /\ room' = available
    /\ UNCHANGED <<started, stopped, rerun, stop, work>>

PollSkips ==
    /\ run = "scheduled"
    /\ run' = "settled"
    /\ Leave(stored)
    /\ UNCHANGED <<started, stopped, rerun, stop, room, stored, waking, woken>>

\* Its query, which reads all there is or what there is room for, and its end.
PollReads(batch) ==
    /\ run = "querying"
    /\ batch \subseteq stored
    /\ Cardinality(batch) <= room
    /\ batch = stored \/ Cardinality(batch) = room
    /\ run' = "dispatching"
    /\ stored' = stored \ batch
    /\ Leave(stored \ batch)
    /\ UNCHANGED <<started, stopped, rerun, stop, room, waking, woken>>

PollFails ==
    /\ run = "querying"
    /\ run' = "settled"
    /\ Leave(stored)
    /\ UNCHANGED <<started, stopped, rerun, stop, room, stored, waking, woken>>

PollEnds ==
    /\ run = "dispatching"
    /\ run' = "settled"
    /\ UNCHANGED <<started, stopped, rerun, stop, room, work>>

\* Mutant: the requested rerun starts although the poller was stopped.
SettleIgnoringStop ==
    /\ run = "settled"
    /\ run' = IF rerun \/ stopped THEN "scheduled" ELSE "none"
    /\ rerun' = FALSE
    /\ UNCHANGED <<started, stopped, stop, room, work>>

\* The finally callback.
Settle ==
    /\ run = "settled"
    /\ run' = IF rerun /\ ~stopped THEN "scheduled" ELSE "none"
    /\ rerun' = IF stopped THEN rerun ELSE FALSE
    /\ UNCHANGED <<started, stopped, stop, room, work>>

Stop ==
    /\ ~stopped
    /\ stopped' = TRUE
    /\ rerun' = FALSE
    /\ stop' = IF run = "none" THEN "returned" ELSE "waiting"
    /\ UNCHANGED <<started, run, room, work>>

StopReturns ==
    /\ stop = "waiting"
    /\ run = "none"
    /\ stop' = "returned"
    /\ UNCHANGED <<started, stopped, run, rerun, room, work>>

Next ==
    \/ \E i \in Items : Store(i) \/ Request(i)
    \/ Start \/ Tick
    \/ \E available \in Nat : PollBegins(available)
    \/ \E batch \in SUBSET stored : PollReads(batch)
    \/ PollSkips \/ PollFails \/ PollEnds \/ Settle
    \/ Stop \/ StopReturns

Spec == Init /\ [][Next]_vars

-----------------------------------------------------------------------------
(***************************************************************************)
(* Properties.                                                             *)
(***************************************************************************)

TypeOK ==
    /\ started \in BOOLEAN /\ stopped \in BOOLEAN /\ rerun \in BOOLEAN
    /\ run \in {"none", "scheduled", "querying", "dispatching", "settled"}
    /\ stop \in {"no", "waiting", "returned"}
    /\ room \in Nat
    /\ stored \cup waking \cup woken \cup excused \subseteq Items
    /\ run # "none" => started
    /\ rerun => run # "none" /\ ~stopped
    /\ stopped <=> stop # "no"

\* A wake that was accepted is never lost: as long as its item is unread, a
\* poll that has not read yet is on its way, or a rerun is noted, whatever
\* the moment of the poll in flight at which the wake came in.  A poll that
\* fails, or that has room for fewer items than are stored, leaves the rest
\* to the interval timer unless a rerun is noted.
NoLostWake ==
    \A i \in (woken \cap stored) \ excused :
        stopped \/ rerun \/ run \in {"scheduled", "querying"}

\* Once stop() has returned, no poll is running and none will start.
StopIsQuiet == stop = "returned" => run = "none" /\ ~CanRun
=============================================================================

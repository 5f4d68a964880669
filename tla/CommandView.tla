---------------------------- MODULE CommandView ----------------------------
(***************************************************************************)
(* What a runtime page shows of the commands of one component              *)
(* (src/runtime/RuntimeApp.jsx, shared/command-lifecycle.js): the answer   *)
(* to the POST, the pushes on the stream, the status requests of the       *)
(* reconciliation loop and the restored history all report on the same     *)
(* command, in any order, while connections break and the page reloads.    *)
(*                                                                         *)
(* Requests are numbered in the order they are clicked.  Times are numbers *)
(* that order what is compared: request r is clicked at 3r and created at  *)
(* 3r + 1, and 3n + 2 is after both for the newest request n.  The clocks  *)
(* of page and server agree.                                               *)
(***************************************************************************)
EXTENDS Naturals, Sequences

CONSTANTS
    Requests,       \* the numbers requests may get, from 1
    ViewBounds,     \* how often what the page cannot control happens
    None

VARIABLES
    cmd,        \* request -> the status of its CommandEvent, or None
    loop,       \* the calls that wait for an outcome: of runCommand, or of the
                \* reconciliation restoreRecentCommands has started
    cached,     \* request -> the newest pushed status, or None
    view,       \* the entry shown: req, status, at; or None
    wire,       \* pushes on their way to the page
    connected,  \* the page's stream
    restore,    \* restoreRecentCommands: its place and what it was told
    clicked,    \* the number of requests clicked
    odd,        \* what has happened that the properties make an exception for
    limit       \* what may still happen

viewVars == <<cmd, loop, cached, view, wire, connected, restore, clicked, odd, limit>>

Outcomes == {"acknowledged", "rejected"}   \* "acknowledged" stands for failed and timeout too
Pending == {"requested", "authorized", "dispatched", "accepted"}

Statuses == Pending \cup Outcomes \cup {"unknown"}

ASSUME ViewAssumption ==
    /\ Requests \subseteq Nat \ {0}
    /\ None \notin Statuses
    /\ None \notin [req : Nat, status : Statuses, at : Nat]

Rank(s) ==
    IF s = "requested" THEN 0
    ELSE IF s = "authorized" THEN 1
    ELSE IF s = "dispatched" THEN 2
    ELSE IF s \in {"accepted", "unknown"} THEN 3 ELSE 4

Loops == Requests \X {"run", "again"}
NoLoop == [pc |-> "idle", latest |-> "requested", answer |-> "requested"]

ViewInit ==
    /\ limit \in ViewBounds
    /\ cmd = [r \in Requests |-> None]
    /\ loop = [k \in Loops |-> NoLoop]
    /\ cached = [r \in Requests |-> None]
    /\ view = None
    /\ wire = <<>>
    /\ connected = TRUE
    /\ restore = [pc |-> "idle", told |-> [r \in Requests |-> None]]
    /\ clicked = 0
    /\ odd = {}

Limited(what) ==
    /\ limit[what] > 0
    /\ limit' = [limit EXCEPT ![what] = @ - 1]

Shows(statuses) == view # None /\ view.status \in statuses

-----------------------------------------------------------------------------
(* shared/command-lifecycle.js and rememberCommandResult.                  *)

\* commandStatusCanReplace.
StatusCanReplace(current, incoming) ==
    IF current \in Outcomes THEN incoming = current ELSE Rank(incoming) >= Rank(current)

\* commandResultCanReplace; a result without createdAt has `at` None.
CanReplace(current, incoming) ==
    \/ current = None
    \/ /\ current.req = incoming.req
       /\ StatusCanReplace(current.status, incoming.status)
    \/ /\ current.req # incoming.req
       /\ incoming.at = None \/ incoming.at >= current.at

Created(r) == 3 * r + 1
Now == 3 * clicked + 2

\* What the server, or a report of it, says of r.
Reported(r, status) == [req |-> r, status |-> status, at |-> Created(r)]

\* An entry without createdAt is as old as its observation.
Entry(result) == [result EXCEPT !.at = IF @ = None THEN Now ELSE @]

Remembered(current, result) ==
    IF CanReplace(current, result) THEN Entry(result) ELSE current

-----------------------------------------------------------------------------
(* The command on the server, and the stream.                              *)

Pushed(r, status) ==
    wire' = IF connected THEN Append(wire, [req |-> r, status |-> status]) ELSE wire

\* The worker takes a command a step further and publishes it.
Progress(r) ==
    /\ cmd[r] \in Pending
    /\ \E s \in {"dispatched", "accepted", "acknowledged"} :
           /\ Rank(s) > Rank(cmd[r])
           /\ cmd' = [cmd EXCEPT ![r] = s]
           /\ Pushed(r, s)
    /\ UNCHANGED <<loop, cached, view, connected, restore, clicked, odd, limit>>

\* A waiter is resolved with a push that got into the cache.
Woken(c, status) ==
    IF c.pc # "waiting" THEN c
    ELSE IF StatusCanReplace(c.latest, status)
         THEN [c EXCEPT !.latest = status, !.pc = IF status \in Pending THEN "waiting" ELSE "finish"]
         ELSE [c EXCEPT !.pc = "get"]

Watched(r) == \E k \in Loops : k[1] = r /\ loop[k].pc # "idle"

\* receiveCommandPush.  It may show a command as pending that no call waits for
\* any more.
ReceivePush ==
    /\ wire # <<>>
    /\ wire' = Tail(wire)
    /\ LET r == Head(wire).req
           s == Head(wire).status
       IN IF cached[r] = None \/ StatusCanReplace(cached[r], s)
          THEN /\ cached' = [cached EXCEPT ![r] = s]
               /\ loop' = [k \in Loops |-> IF k[1] = r THEN Woken(loop[k], s) ELSE loop[k]]
               /\ view' = Remembered(view, Reported(r, s))
               /\ odd' = odd \cup
                      IF s \in Pending /\ view' # view /\ ~Watched(r) THEN {"revived"} ELSE {}
          ELSE UNCHANGED <<cached, loop, view, odd>>
    /\ UNCHANGED <<cmd, connected, restore, clicked, limit>>

-----------------------------------------------------------------------------
(* runCommand.                                                             *)

Set(k, c) == loop' = [loop EXCEPT ![k] = c]
Move(k, pc) == Set(k, [loop[k] EXCEPT !.pc = pc])

\* The button is disabled while the entry shown is pending.
Click(r) ==
    /\ r = clicked + 1
    /\ r <= limit.requests
    /\ ~Shows(Pending)
    /\ clicked' = r
    /\ view' = Remembered(view, [req |-> r, status |-> "requested", at |-> 3 * r])
    /\ Move(<<r, "run">>, "posting")
    /\ UNCHANGED <<cmd, cached, wire, connected, restore, odd, limit>>

\* The API admits the command, or turns it down with a terminal result, or
\* refuses the request before it creates anything (4xx).
Post(r) ==
    LET k == <<r, "run">> IN
    /\ loop[k].pc = "posting"
    /\ \/ /\ \E s \in {"authorized", "rejected"} :
                 /\ cmd' = [cmd EXCEPT ![r] = s]
                 /\ Set(k, [loop[k] EXCEPT !.pc = "told", !.answer = s])
          /\ UNCHANGED limit
       \/ /\ Limited("refusals")
          /\ Move(k, "refused")
          /\ UNCHANGED cmd
    /\ UNCHANGED <<cached, view, wire, connected, restore, clicked, odd>>

-----------------------------------------------------------------------------
(* reconcileCommandStatus.                                                 *)

\* The loop goes on with a status: a higher one in the cache is taken at once,
\* a terminal one ends it.
Settle(r, status) ==
    LET latest == IF status \in Pending /\ cached[r] # None /\ Rank(cached[r]) > Rank(status)
                  THEN cached[r]
                  ELSE status
    IN [NoLoop EXCEPT !.latest = latest, !.pc = IF latest \in Pending THEN "waiting" ELSE "finish"]

\* An answer arrives and is remembered.
Answered(k) ==
    LET r == k[1]
        next == Settle(r, loop[k].answer)
    IN /\ loop[k].pc = "told"
       /\ Set(k, next)
       /\ view' = Remembered(Remembered(view, Reported(r, loop[k].answer)), Reported(r, next.latest))
       /\ UNCHANGED <<cmd, cached, wire, connected, restore, clicked, odd, limit>>

\* The wait ends without a push after two seconds.
WaitEnds(k) ==
    /\ loop[k].pc = "waiting"
    /\ Move(k, "get")
    /\ UNCHANGED <<cmd, cached, view, wire, connected, restore, clicked, odd, limit>>

\* GET /api/commands reads the command.
Get(k) ==
    /\ loop[k].pc = "get"
    /\ Set(k, [loop[k] EXCEPT !.pc = "told", !.answer = cmd[k[1]]])
    /\ UNCHANGED <<cmd, cached, view, wire, connected, restore, clicked, odd, limit>>

\* Mutant: the pending status is returned as it is.
DeadlineKeepsStatus(k) ==
    /\ loop[k].pc \in {"waiting", "get"}
    /\ Move(k, "finish")
    /\ UNCHANGED <<cmd, cached, view, wire, connected, restore, clicked, odd, limit>>

\* The deadline passes: the outcome is unknown.
Deadline(k) ==
    /\ loop[k].pc \in {"waiting", "get"}
    /\ Set(k, [loop[k] EXCEPT !.pc = "finish", !.latest = "unknown"])
    /\ UNCHANGED <<cmd, cached, view, wire, connected, restore, clicked, odd, limit>>

Finish(k) ==
    /\ loop[k].pc = "finish"
    /\ Set(k, NoLoop)
    /\ view' = Remembered(view, Reported(k[1], loop[k].latest))
    /\ UNCHANGED <<cmd, cached, wire, connected, restore, clicked, odd, limit>>

\* A request fails.  runCommand makes a result without createdAt: "rejected"
\* for a 4xx, "unknown" otherwise; a restored reconciliation keeps createdAt.
Catch(k, status) ==
    LET r == k[1]
        result == IF k[2] = "run"
                  THEN [req |-> r, status |-> status, at |-> None]
                  ELSE Reported(r, "unknown")
    IN /\ Set(k, NoLoop)
       /\ view' = Remembered(view, result)
       /\ odd' = odd
              \cup (IF result.status = "rejected" /\ cmd[r] # None THEN {"misjudged"} ELSE {})
              \cup (IF result.at = None /\ view # None /\ view.req # r THEN {"mixed"} ELSE {})

RequestFails(k) ==
    /\ \/ loop[k].pc = "refused" /\ Catch(k, "rejected") /\ UNCHANGED limit
       \/ loop[k].pc \in {"posting", "told", "get"} /\ Limited("losses") /\ Catch(k, "unknown")
       \/ loop[k].pc = "get" /\ Limited("refusals") /\ Catch(k, "rejected")
    /\ UNCHANGED <<cmd, cached, wire, connected, restore, clicked>>

-----------------------------------------------------------------------------
(* restoreRecentCommands.                                                  *)

\* GET /api/commands?recent=1.
AskRecent ==
    /\ restore.pc = "asking"
    /\ restore' = [pc |-> "told", told |-> cmd]
    /\ UNCHANGED <<cmd, loop, cached, view, wire, connected, clicked, odd, limit>>

\* Mutant: what has reached the gateway counts as concluded.
NotAccepted(told) == {r \in Requests : told[r] \in Pending \ {"accepted"}}

\* The pending ones of the commands it was told of.
ToReconcile(told) == {r \in Requests : told[r] \in Pending}

\* The listed commands are remembered, oldest first: each is newer than the one
\* before, so the newest is shown once one of them may replace the entry.
Recalls(told, listed) ==
    IF \E n \in listed : CanReplace(view, Reported(n, told[n]))
    THEN \E n \in listed : (\A m \in listed : m <= n) /\ view' = Reported(n, told[n])
    ELSE UNCHANGED view

\* The commands it was told of are remembered - of those with an
\* outcome the recent ones - and the pending ones are reconciled.  An entry whose
\* command ended too long ago is overlooked: it stays pending.
RestoreRecent ==
    LET told == restore.told
        reconciled == ToReconcile(told)
    IN /\ restore.pc = "told"
       /\ \E recent \in SUBSET {r \in Requests : told[r] \in Outcomes} :
              /\ Recalls(told, reconciled \cup recent)
              /\ odd' = odd \cup
                     IF Shows(Pending) /\ view' = view /\ ~Watched(view.req)
                        /\ told[view.req] \notin Pending
                     THEN {"overlooked"} ELSE {}
       /\ loop' = [k \in Loops |->
              IF k[2] = "again" /\ k[1] \in reconciled THEN Settle(k[1], told[k[1]]) ELSE loop[k]]
       /\ restore' = [restore EXCEPT !.pc = "idle"]
       /\ UNCHANGED <<cmd, cached, wire, connected, clicked, limit>>

\* The request fails: the history is not restored.
RestoreFails ==
    /\ restore.pc \in {"asking", "told"}
    /\ Limited("losses")
    /\ restore' = [restore EXCEPT !.pc = "idle"]
    /\ odd' = odd \cup {"unrestored"}
    /\ UNCHANGED <<cmd, loop, cached, view, wire, connected, clicked>>

\* A new runtime session: the effect of the old one is cancelled with its
\* reconciliations, and another one restores.
RenewSession ==
    /\ ~connected
    /\ connected' = TRUE
    /\ loop' = [k \in Loops |-> IF k[2] = "again" THEN NoLoop ELSE loop[k]]
    /\ restore' = [restore EXCEPT !.pc = "asking"]
    /\ UNCHANGED <<cmd, cached, view, wire, clicked, odd, limit>>

-----------------------------------------------------------------------------
(* The end of an entry, of a connection, of the page.                      *)

\* commandResultRetentionMs after an outcome its entry goes.
EntryGoes ==
    /\ view # None
    /\ view.status \notin Pending
    /\ view' = None
    /\ UNCHANGED <<cmd, loop, cached, wire, connected, restore, clicked, odd, limit>>

\* The connection breaks with what was on it.
Break ==
    /\ connected
    /\ Limited("breaks")
    /\ connected' = FALSE
    /\ wire' = <<>>
    /\ UNCHANGED <<cmd, loop, cached, view, restore, clicked, odd>>

\* The page is loaded anew.
Reload ==
    /\ Limited("reloads")
    /\ loop' = [k \in Loops |-> NoLoop]
    /\ cached' = [r \in Requests |-> None]
    /\ view' = None
    /\ connected' = FALSE
    /\ wire' = <<>>
    /\ restore' = [restore EXCEPT !.pc = "idle"]
    /\ odd' = odd \cup {"reloaded"}
    /\ UNCHANGED <<cmd, clicked>>

-----------------------------------------------------------------------------

Waiting(k) == Answered(k) \/ WaitEnds(k) \/ Get(k) \/ Deadline(k) \/ Finish(k)

Restoring == RenewSession \/ AskRecent \/ RestoreRecent

ViewNext ==
    \/ \E r \in Requests : Click(r) \/ Post(r) \/ Progress(r)
    \/ \E k \in Loops : Waiting(k) \/ RequestFails(k)
    \/ ReceivePush \/ Restoring \/ RestoreFails \/ EntryGoes \/ Break \/ Reload

\* The loops and the reconnection run on the page's timers; a deadline is
\* certain to pass.  Neither the worker nor the operator has to act.
ViewFairness ==
    /\ WF_viewVars(\E r \in Requests : Post(r))
    /\ WF_viewVars(\E k \in Loops : Answered(k) \/ Finish(k) \/ RequestFails(k))
    /\ SF_viewVars(\E k \in Loops : Deadline(k))
    /\ WF_viewVars(ReceivePush)
    /\ WF_viewVars(Restoring)

ViewSpec == ViewInit /\ [][ViewNext]_viewVars /\ ViewFairness

-----------------------------------------------------------------------------

ViewTypeOK ==
    /\ \A r \in Requests : cmd[r] \in {None} \cup Pending \cup Outcomes
    /\ \A k \in Loops : loop[k].pc \in {"idle", "posting", "refused", "told", "waiting", "get", "finish"}
    /\ view # None => view.req \in 1..clicked
    /\ restore.pc \in {"idle", "asking", "told"}

\* An outcome that is shown is the command's own, or what the page made of a
\* 4xx.
ShownIsTrue ==
    Shows(Outcomes)
        => \/ cmd[view.req] = view.status
           \/ view.status = "rejected" /\ (cmd[view.req] = None \/ "misjudged" \in odd)

\* What leaves an entry pending: the history was not restored, or did not tell
\* of it, or a push showed a command the page had given up.
LeftPending == odd \cap {"unrestored", "overlooked", "revived"} # {}

\* A result waits for an entry to be shown only while something will tell it.
PendingIsWatched ==
    Shows(Pending)
        => \/ Watched(view.req)
           \/ restore.pc # "idle" \/ ~connected
           \/ LeftPending

ViewInv == ViewTypeOK /\ ShownIsTrue /\ PendingIsWatched

\* The page does not wait forever: in the end no request is under way, and the
\* entry - a pending one disables the button - shows an outcome or is gone,
\* unless it was left pending.
PageConcludes ==
    <>[](LeftPending \/ (~Shows(Pending) /\ \A k \in Loops : loop[k].pc = "idle"))
=============================================================================

-------------------------- MODULE SimulatedCommands --------------------------
(***************************************************************************)
(* The commands of a Simulation project: an operation shifter, the toggle  *)
(* buttons it controls, and the AUTO recipe a page runs one step at a time *)
(* (runCommand, beginSimulationSequence and bootstrap of RuntimeApp.jsx,   *)
(* OperationShifter and control-button of RuntimeCanvas.jsx, the mock      *)
(* branch of api/_handlers/commands.js, api/_handlers/                     *)
(* simulation-sequence.js, shared/simulation-command-state.js).            *)
(*                                                                         *)
(* Nothing but the documents of commands says what a button's value is: a  *)
(* toggle and a reloaded page derive it from them.  A request is one HTTP  *)
(* call; each of its steps ends in a database call.                        *)
(***************************************************************************)
EXTENDS Naturals, Sequences, SequencesExt

CONSTANTS
    ControlPages,   \* runtime pages
    Buttons,        \* the buttons the shifter controls
    Recipe,         \* the steps of AUTO: which button, and the value it gets
    ControlBounds,  \* the instances a run covers: who is signed in at each open
                    \* page, and how often what happens from outside may
    Nobody          \* no one waits for the answer

ASSUME ControlAssumption ==
    /\ Recipe \in Seq([button : Buttons, value : {"on", "off"}])
    /\ Recipe # <<>>
    /\ Nobody \notin ControlPages
    /\ "shifter" \notin Buttons
    /\ \A s \in ControlBounds : "users" \in DOMAIN s /\ DOMAIN s.users \subseteq ControlPages

VARIABLES
    history,    \* the CommandEvents, in the order of createdAt
    calls,      \* the HTTP requests, in the order in which they were sent
    screen,     \* page -> what it shows and waits for
    supply,     \* what may still happen
    crossed,    \* buttons with two calls under way at once, or a step given up
    strayed     \* a page does not know what became of a call

controlVars == <<history, calls, screen, supply, crossed, strayed>>

Modes == {"manual", "auto", "reset"}
NoRun == [op |-> 0, id |-> 0, step |-> 0, waits |-> FALSE]
NoCall == [pc |-> "done", page |-> Nobody, user |-> Nobody, what |-> "none", of |-> "none",
           arg |-> "none", op |-> 0, run |-> 0, step |-> 0, doc |-> 0, value |-> "none", ok |-> FALSE]

OpenPages == DOMAIN supply.users

Acknowledged(j) == history[j].status = "acknowledged"
LatestOf(js) == IF js = {} THEN 0 ELSE Max(js)

\* simulationCommandState: the newest acknowledged command of a button or
\* RESET of its shifter says its value.
Kept(b) ==
    LET j == LatestOf({j \in DOMAIN history :
                       Acknowledged(j) /\ (history[j].of = b \/ history[j].value = "reset")})
    IN IF j = 0 \/ history[j].value = "reset" THEN "off" ELSE history[j].value

KeptMode ==
    LET j == LatestOf({j \in DOMAIN history : Acknowledged(j) /\ history[j].of = "shifter"})
    IN IF j = 0 THEN "manual" ELSE history[j].value

\* What GET /api/runtime lets a page start from.
Restored == [mode |-> KeptMode, lit |-> [b \in Buttons |-> Kept(b)], pending |-> {}, run |-> NoRun]

ControlInit ==
    /\ supply \in ControlBounds
    /\ history = <<>> /\ calls = <<>>
    /\ screen = [p \in ControlPages |-> Restored]
    /\ crossed = {} /\ strayed = FALSE

Spends(what) ==
    /\ supply[what] > 0
    /\ supply' = [supply EXCEPT ![what] = @ - 1]

-----------------------------------------------------------------------------
(* The page.                                                               *)

Underway(i) == calls[i].pc # "done"

\* The buttons whose value a call may change.
Affects(x) ==
    IF x.what \in {"press", "step"} THEN {x.of}
    ELSE IF x.what = "shift" /\ x.arg = "reset" THEN Buttons ELSE {}

\* The page gives up a call; the server does not hear of it.
GivenUp(x) == IF x.pc = "answered" THEN NoCall ELSE [x EXCEPT !.page = Nobody]

\* A request x is sent; the page no longer waits for the calls in js.
Sends(x, js) ==
    /\ calls' = Append([i \in DOMAIN calls |-> IF i \in js THEN GivenUp(calls[i]) ELSE calls[i]], x)
    /\ crossed' = crossed \cup {calls[i].of : i \in js} \cup
           {b \in Affects(x) : \E i \in DOMAIN calls : Underway(i) /\ b \in Affects(calls[i])}

StepsOf(p) == {i \in DOMAIN calls : calls[i].page = p /\ calls[i].what = "step"}
CallsOf(p) == {i \in DOMAIN calls : calls[i].page = p}

Shows(p, s) == screen' = [screen EXCEPT ![p] = s]

\* shift, runCommand, cancelSimulationSequence: a run ends before the mode is
\* asked for.
ShiftMode(p, m) ==
    /\ "shifter" \notin screen[p].pending
    /\ m # screen[p].mode
    /\ Spends("shifts")
    /\ Shows(p, [screen[p] EXCEPT !.run = NoRun, !.pending = @ \cup {"shifter"}])
    /\ Sends([NoCall EXCEPT !.pc = "read", !.page = p, !.user = supply.users[p],
                            !.what = "shift", !.of = "shifter", !.arg = m], StepsOf(p))
    /\ UNCHANGED <<history, strayed>>

\* operationLockFor: a button is locked unless its shifter is in MANUAL.
Press(p, b) ==
    /\ screen[p].mode = "manual"
    /\ b \notin screen[p].pending
    /\ Spends("presses")
    /\ Shows(p, [screen[p] EXCEPT !.pending = @ \cup {b}])
    /\ Sends([NoCall EXCEPT !.pc = "read", !.page = p, !.user = supply.users[p],
                            !.what = "press", !.of = b], {})
    /\ UNCHANGED <<history, strayed>>

\* The delay of a step is over.
PostStep(p) ==
    LET r == screen[p].run IN
    /\ r.waits
    /\ Shows(p, [screen[p] EXCEPT !.run = [r EXCEPT !.waits = FALSE]])
    /\ Sends([NoCall EXCEPT !.pc = "check", !.page = p, !.user = supply.users[p],
                            !.what = "step", !.of = Recipe[r.step].button, !.op = r.op,
                            !.run = r.id, !.step = r.step], {})
    /\ UNCHANGED <<history, supply, strayed>>

\* What the page shows after the answer to its call i.
AfterShift(s, x) ==
    [s EXCEPT !.mode = x.arg, !.pending = @ \ {"shifter"},
              !.lit = IF x.arg = "reset" THEN [b \in Buttons |-> "off"] ELSE @]
AfterStart(s, x, i) ==
    [s EXCEPT !.mode = "auto", !.pending = @ \ {"shifter"},
              !.run = [op |-> x.op, id |-> i, step |-> 1, waits |-> TRUE]]
AfterPress(s, x) ==
    [s EXCEPT !.lit = [s.lit EXCEPT ![x.of] = x.value], !.pending = @ \ {x.of}]
AfterStep(s, x) ==
    [s EXCEPT !.lit = [s.lit EXCEPT ![x.of] = x.value], !.pending = @ \ {x.of},
              !.run = IF x.step = Len(Recipe) THEN NoRun
                      ELSE [s.run EXCEPT !.step = x.step + 1, !.waits = TRUE]]
\* Mutant: a step that is refused leaves its run waiting.
FailureKeepsRun(s, x) ==
    IF x.what = "step" THEN s
    ELSE [s EXCEPT !.pending = @ \ {IF x.what = "start" THEN "shifter" ELSE x.of}]

AfterFailure(s, x) ==
    IF x.what = "step" THEN [s EXCEPT !.run = NoRun]
    ELSE [s EXCEPT !.pending = @ \ {IF x.what = "start" THEN "shifter" ELSE x.of}]

Closed(i) == [calls EXCEPT ![i] = NoCall]

\* An accepted shift to AUTO: the page asks for its run.
AskForRun(i) ==
    LET x == calls[i] IN
    /\ x.what = "shift" /\ x.arg = "auto"
    /\ calls' = Append(Closed(i), [NoCall EXCEPT !.pc = "check", !.page = x.page, !.user = x.user,
                                                 !.what = "start", !.of = "shifter", !.op = x.doc])
    /\ UNCHANGED <<screen, strayed>>

\* Any other answer.
TakeAnswer(i) ==
    LET x == calls[i]  s == screen[x.page] IN
    /\ ~(x.ok /\ x.what = "shift" /\ x.arg = "auto")
    /\ calls' = Closed(i)
    /\ Shows(x.page, IF ~x.ok THEN AfterFailure(s, x)
                     ELSE IF x.what = "shift" THEN AfterShift(s, x)
                     ELSE IF x.what = "start" THEN AfterStart(s, x, i)
                     ELSE IF x.what = "press" THEN AfterPress(s, x) ELSE AfterStep(s, x))
    /\ strayed' = (strayed \/ (~x.ok /\ x.what = "start"))

ReceiveAnswer(i) ==
    /\ calls[i].pc = "answered"
    /\ \/ calls[i].ok /\ AskForRun(i)
       \/ TakeAnswer(i)
    /\ UNCHANGED <<history, supply, crossed>>

\* The connection is lost; what the server does goes on.
LoseCall(i) ==
    LET x == calls[i] IN
    /\ x.pc # "done" /\ x.page # Nobody
    /\ Spends("losses")
    /\ calls' = [calls EXCEPT ![i] = GivenUp(x)]
    /\ Shows(x.page, AfterFailure(screen[x.page], x))
    /\ strayed' = TRUE
    /\ UNCHANGED <<history, crossed>>

\* The page is left and opened again: its run is over.
Reload(p) ==
    /\ Spends("reloads")
    /\ Shows(p, Restored)
    /\ calls' = [i \in DOMAIN calls |-> IF i \in CallsOf(p) THEN GivenUp(calls[i]) ELSE calls[i]]
    /\ strayed' = (strayed \/ CallsOf(p) # {})
    /\ UNCHANGED <<history, crossed>>

-----------------------------------------------------------------------------
(* POST /api/commands.                                                     *)

\* The response; nobody may be left to take it.
Responds(i, ok) ==
    calls' = [calls EXCEPT ![i] = IF @.page = Nobody THEN NoCall
                                  ELSE [calls[i] EXCEPT !.pc = "answered", !.ok = ok]]
Reaches(i, pc) == calls' = [calls EXCEPT ![i] = [calls[i] EXCEPT !.pc = pc]]

Requested(x) ==
    [user |-> x.user, of |-> x.of, status |-> "requested", value |-> x.value,
     op |-> 0, run |-> 0, step |-> 0, audited |-> FALSE, late |-> FALSE]

Unsettled(x) ==
    \E j \in DOMAIN history : /\ history[j].user = x.user /\ history[j].of = x.of
                              /\ history[j].status \in {"requested", "authorized", "dispatched"}

\* previousSimulationCommandValue and executeMockCommand: a shift says its
\* mode, a press toggles what is kept.
Evaluated(x) == IF x.what = "shift" THEN x.arg ELSE IF Kept(x.of) = "on" THEN "off" ELSE "on"

\* pendingCommandQuery: an unsettled command refuses another for 1.5 s; its
\* age is left open.
ReadCommands(i) ==
    LET x == calls[i]  value == Evaluated(x) IN
    /\ x.pc = "read"
    /\ \/ Unsettled(x) /\ Responds(i, FALSE)
       \/ calls' = [calls EXCEPT ![i] = [x EXCEPT !.pc = "create", !.value = value]]
    /\ UNCHANGED <<history, screen, supply, crossed, strayed>>

CreateCommand(i) ==
    LET x == calls[i] IN
    /\ x.pc = "create"
    /\ history' = Append(history, Requested(x))
    /\ calls' = [calls EXCEPT ![i] = [x EXCEPT !.pc = "authorized", !.doc = Len(history) + 1]]
    /\ UNCHANGED <<screen, supply, crossed, strayed>>

\* event.save(): authorized, and after its audit dispatched and acknowledged.
SaveCommand(i) ==
    LET x == calls[i] IN
    /\ x.pc \in {"authorized", "dispatched", "acknowledged"}
    /\ history' = [history EXCEPT ![x.doc].status = x.pc]
    /\ Reaches(i, IF x.pc = "authorized" THEN "audit" ELSE IF x.pc = "dispatched" THEN "acknowledged"
                  ELSE "conclude")
    /\ UNCHANGED <<screen, supply, crossed, strayed>>

AuditAuthorization(i) ==
    LET x == calls[i] IN
    /\ x.pc = "audit"
    /\ history' = [history EXCEPT ![x.doc].audited = TRUE]
    /\ Reaches(i, "dispatched")
    /\ UNCHANGED <<screen, supply, crossed, strayed>>

\* The last audit, of a command, of a run or of a step.
AuditConclusion(i) ==
    /\ calls[i].pc = "conclude"
    /\ Responds(i, TRUE)
    /\ UNCHANGED <<history, screen, supply, crossed, strayed>>

\* A database call fails or the function ends: the page gets an error.
FailCall(i) ==
    /\ calls[i].pc \notin {"answered", "done"}
    /\ Spends("cuts")
    /\ Responds(i, FALSE)
    /\ strayed' = TRUE
    /\ UNCHANGED <<history, screen, crossed>>

-----------------------------------------------------------------------------
(* POST /api/simulation-sequence.                                          *)

\* The newest acknowledged command of the shifter by this user.
ActiveOperation(u) ==
    LatestOf({j \in DOMAIN history :
              Acknowledged(j) /\ history[j].of = "shifter" /\ history[j].user = u})

IsActive(x) == ActiveOperation(x.user) = x.op /\ history[x.op].value = "auto"

\* resolveSimulationSequenceStep: the step of the published recipe.
PlannedStep(x) == Recipe[x.step]

\* Mutant: a step is taken of whatever run.
CheckNothing(i) ==
    /\ calls[i].pc = "check"
    /\ Reaches(i, IF calls[i].what = "start" THEN "conclude" ELSE "record")
    /\ UNCHANGED <<history, screen, supply, crossed, strayed>>

CheckActive(i) ==
    /\ calls[i].pc = "check"
    /\ IF ~IsActive(calls[i]) THEN Responds(i, FALSE)
       ELSE Reaches(i, IF calls[i].what = "start" THEN "conclude" ELSE "record")
    /\ UNCHANGED <<history, screen, supply, crossed, strayed>>

\* The step becomes an acknowledged command of its button.
AcknowledgeStep(i) ==
    LET x == calls[i]
        done == [user |-> x.user, of |-> x.of, status |-> "acknowledged",
                 value |-> PlannedStep(x).value, op |-> x.op, run |-> x.run, step |-> x.step,
                 audited |-> FALSE, late |-> ~IsActive(x)]
    IN
    /\ x.pc = "record"
    /\ history' = Append(history, done)
    /\ calls' = [calls EXCEPT ![i] = [x EXCEPT !.pc = "conclude", !.value = done.value]]
    /\ UNCHANGED <<screen, supply, crossed, strayed>>

-----------------------------------------------------------------------------
\* What goes on by itself.
ControlSteps ==
    \/ \E i \in DOMAIN calls :
          \/ ReceiveAnswer(i) \/ ReadCommands(i) \/ CreateCommand(i) \/ SaveCommand(i)
          \/ AuditAuthorization(i) \/ AuditConclusion(i) \/ CheckActive(i) \/ AcknowledgeStep(i)
    \/ \E p \in OpenPages : PostStep(p)

ControlNext ==
    \/ ControlSteps
    \/ \E i \in DOMAIN calls : LoseCall(i) \/ FailCall(i)
    \/ \E p \in OpenPages :
          \/ Reload(p)
          \/ \E m \in Modes : ShiftMode(p, m)
          \/ \E b \in Buttons : Press(p, b)

\* Requests are answered or fail, timers fire.
ControlFairness == WF_controlVars(ControlSteps)

ControlSpec == ControlInit /\ [][ControlNext]_controlVars /\ ControlFairness

-----------------------------------------------------------------------------
(* Properties.                                                             *)

ControlTypeOK ==
    /\ history \in Seq([user : {supply.users[p] : p \in OpenPages}, of : Buttons \cup {"shifter"},
                        status : {"requested", "authorized", "dispatched", "acknowledged"},
                        value : Modes \cup {"on", "off"}, op : Nat, run : Nat, step : Nat,
                        audited : BOOLEAN, late : BOOLEAN])
    /\ \A p \in ControlPages :
          /\ screen[p].mode \in Modes
          /\ screen[p].lit \in [Buttons -> {"on", "off"}]
          /\ screen[p].pending \subseteq Buttons \cup {"shifter"}
          /\ screen[p].run.step \in 0..Len(Recipe)
    /\ crossed \subseteq Buttons /\ strayed \in BOOLEAN

Steps == {j \in DOMAIN history : history[j].step > 0}

\* Of the recipe of one AUTO command each step is taken once, in order and
\* without a gap, whatever pages and lost answers: beginSimulationSequence
\* sends a step when the one before was answered, and never again.
StepsInOrder ==
    \A j \in Steps :
        LET before == {l \in Steps : l < j /\ history[l].op = history[j].op} IN
        /\ Cardinality(before) = history[j].step - 1
        /\ \A l \in before : history[l].step < history[j].step /\ history[l].run = history[j].run

\* A command that ends AUTO lets at most one more step of its run happen, the
\* one that was checked before; none follows it.
LateStepsAreFew ==
    \A j \in Steps : history[j].late => \A l \in Steps : history[l].run = history[j].run => l <= j

\* A step belongs to an acknowledged AUTO command of the same user.
StepsAreGranted ==
    \A j \in Steps : LET o == history[j].op IN
        /\ o < j /\ Acknowledged(o)
        /\ history[o].of = "shifter" /\ history[o].value = "auto" /\ history[o].user = history[j].user

\* While a page shows another mode than AUTO, or asks for one, it runs no
\* recipe: operationLockFor unlocks no button that a run of this page sets.
RunsAreShown ==
    \A p \in ControlPages :
        screen[p].run # NoRun => screen[p].mode = "auto" /\ "shifter" \notin screen[p].pending

\* What the only page shows when nothing is under way is what it would show
\* after a reload: the documents are an account of the buttons' values, unless
\* a call of the page failed, two calls for one button overlapped, or the step
\* that was under way when AUTO ended is recorded and not shown.
ShownIsRestored ==
    \A p \in OpenPages :
        (OpenPages = {p} /\ ~strayed /\ \A i \in DOMAIN calls : ~Underway(i)) =>
            /\ screen[p].mode = KeptMode
            /\ \A b \in Buttons \ crossed : screen[p].lit[b] = Kept(b)

\* No command counts as acknowledged without the audit of its authorization.
AcknowledgedIsAudited ==
    \A j \in DOMAIN history : Acknowledged(j) /\ history[j].step = 0 => history[j].audited

\* Invariant: recipes are run as granted, in order and once, and pages show
\* what the documents of commands say.
ControlInv ==
    /\ ControlTypeOK
    /\ StepsInOrder /\ LateStepsAreFew /\ StepsAreGranted
    /\ RunsAreShown /\ ShownIsRestored
    /\ AcknowledgedIsAudited

\* Liveness: pages that wait or run a recipe are at rest again when nothing
\* more happens from outside, also when answers are lost or another page ends
\* AUTO.
ControlsRest ==
    []<>(\A p \in ControlPages : screen[p].pending = {} /\ screen[p].run = NoRun)

\* Of RESET, src/platform/RuntimeCanvas.jsx says: "The active sequence will
\* stop and outputs should enter their configured steady state."
ResetIsSteady ==
    \A p \in OpenPages :
        (OpenPages = {p} /\ KeptMode = "reset" /\ screen[p].mode = "reset")
            => \A b \in Buttons : Kept(b) = "off"
=============================================================================

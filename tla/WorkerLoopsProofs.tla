-------------------------- MODULE WorkerLoopsProofs --------------------------
(***************************************************************************)
(* The two loops of the worker together keep what each keeps alone, for    *)
(* any commands, any limits and any audits a former worker has left:       *)
(* a step of the composition is a step or a stutter of the scheduler, and  *)
(* a step or a stutter of the poller but for CloseQueue, which returns     *)
(* canceled commands to a poller that has stopped.  IdleOwesNothing is     *)
(* about both, through the requests of deferred audits.                    *)
(***************************************************************************)
EXTENDS WorkerLoops, FiniteSetTheorems, TLAPS

-----------------------------------------------------------------------------
(* The poller alone, for any set of items: its types, that no accepted     *)
(* wake is lost and that a stopped poller stays quiet.  The conjunction of *)
(* the three is inductive: NoLostWake needs from TypeOK that a rerun is    *)
(* noted only while a poll is in flight, and nothing else.                 *)

PollerInv == TypeOK /\ NoLostWake /\ StopIsQuiet

\* The poller as it is created, at the head of createWakeablePoller.
LEMMA PollerInit == Init => PollerInv
<1>. SUFFICES ASSUME Init PROVE PollerInv
    OBVIOUS
<1>1. TypeOK
    BY DEF Init, TypeOK
<1>2. NoLostWake /\ StopIsQuiet
    BY DEF Init, NoLostWake, StopIsQuiet, CanRun
<1>. QED  BY <1>1, <1>2 DEF PollerInv

\* The items move: a command is stored, or its wake is accepted or refused.
LEMMA ItemSteps ==
    ASSUME PollerInv, NEW i \in Items, Store(i) \/ Request(i)
    PROVE  PollerInv'
<1>1. CASE Store(i)
    <2>1. TypeOK'
        BY <1>1 DEF PollerInv, TypeOK, Store, poller
    <2>2. NoLostWake'
        BY <1>1 DEF PollerInv, TypeOK, NoLostWake, Store, poller
    <2>3. StopIsQuiet'
        BY <1>1 DEF PollerInv, StopIsQuiet, CanRun, Store, poller
    <2>. QED  BY <2>1, <2>2, <2>3 DEF PollerInv
<1>2. CASE Request(i)
    <2>1. TypeOK'
        BY <1>2 DEF PollerInv, TypeOK, Request, CanRun
    <2>2. NoLostWake'
        BY <1>2 DEF PollerInv, TypeOK, NoLostWake, Request, CanRun
    <2>3. StopIsQuiet'
        BY <1>2 DEF PollerInv, TypeOK, StopIsQuiet, Request, CanRun
    <2>. QED  BY <2>1, <2>2, <2>3 DEF PollerInv
<1>. QED  BY <1>1, <1>2

\* A poll is scheduled, by start() or by the interval timer.
LEMMA TimerSteps ==
    ASSUME PollerInv, Start \/ Tick
    PROVE  PollerInv'
<1>1. TypeOK'
    <2>1. CASE Start
        BY <2>1 DEF PollerInv, TypeOK, Start, work
    <2>2. CASE Tick
        BY <2>2 DEF PollerInv, TypeOK, Tick, CanRun, work
    <2>. QED  BY <2>1, <2>2
<1>2. NoLostWake'
    BY DEF PollerInv, NoLostWake, Start, Tick, work
<1>3. StopIsQuiet'
    BY DEF PollerInv, TypeOK, StopIsQuiet, CanRun, Start, Tick, work
<1>. QED  BY <1>1, <1>2, <1>3 DEF PollerInv

\* The poll in flight goes on: only its reading and its failing touch items.
LEMMA PollSteps ==
    ASSUME PollerInv,
           \/ \E available \in Nat : PollBegins(available)
           \/ \E batch \in SUBSET stored : PollReads(batch)
           \/ PollSkips \/ PollFails \/ PollEnds
    PROVE  PollerInv'
<1>1. CASE \E available \in Nat : PollBegins(available)
    BY <1>1 DEF PollerInv, TypeOK, NoLostWake, StopIsQuiet, CanRun, PollBegins, work
<1>2. CASE PollEnds
    BY <1>2 DEF PollerInv, TypeOK, NoLostWake, StopIsQuiet, CanRun, PollEnds, work
<1>3. ASSUME NEW batch \in SUBSET stored, PollReads(batch)
      PROVE  PollerInv'
    <2>1. TypeOK' /\ StopIsQuiet'
        BY <1>3 DEF PollerInv, TypeOK, StopIsQuiet, CanRun, PollReads, Leave
    <2>2. NoLostWake'
        BY <1>3 DEF NoLostWake, PollReads, Leave
    <2>. QED  BY <2>1, <2>2 DEF PollerInv
<1>4. CASE PollSkips \/ PollFails
    <2>1. TypeOK' /\ StopIsQuiet'
        BY <1>4 DEF PollerInv, TypeOK, StopIsQuiet, CanRun, PollSkips, PollFails, Leave
    <2>2. NoLostWake'
        BY <1>4 DEF NoLostWake, PollSkips, PollFails, Leave
    <2>. QED  BY <2>1, <2>2 DEF PollerInv
<1>. QED  BY <1>1, <1>2, <1>3, <1>4

\* The poll settles, starting its rerun, and stop() is called and returns.
LEMMA EndSteps ==
    ASSUME PollerInv, Settle \/ Stop \/ StopReturns
    PROVE  PollerInv'
<1>1. TypeOK'
    <2>1. CASE Settle
        <3>1. stopped => ~rerun
            BY DEF PollerInv, TypeOK
        <3>2. rerun' = FALSE
            BY <2>1, <3>1 DEF Settle, PollerInv, TypeOK
        <3>3. run' \in {"scheduled", "none"} /\ started
            BY <2>1 DEF Settle, PollerInv, TypeOK
        <3>. QED  BY <2>1, <3>2, <3>3 DEF PollerInv, TypeOK, Settle, work
    <2>2. CASE Stop
        BY <2>2 DEF PollerInv, TypeOK, Stop, work
    <2>3. CASE StopReturns
        BY <2>3 DEF PollerInv, TypeOK, StopReturns, work
    <2>. QED  BY <2>1, <2>2, <2>3
<1>2. NoLostWake'
    BY DEF PollerInv, TypeOK, NoLostWake, Settle, Stop, StopReturns, work
<1>3. StopIsQuiet'
    BY DEF PollerInv, TypeOK, StopIsQuiet, CanRun, Settle, Stop, StopReturns, work
<1>. QED  BY <1>1, <1>2, <1>3 DEF PollerInv

LEMMA PollerStep == PollerInv /\ [Next]_vars => PollerInv'
<1>. SUFFICES ASSUME PollerInv, [Next]_vars PROVE PollerInv'
    OBVIOUS
<1>1. ASSUME NEW i \in Items, Store(i) \/ Request(i) PROVE PollerInv'
    BY <1>1, ItemSteps
<1>2. CASE Start \/ Tick
    BY <1>2, TimerSteps
<1>3. CASE \/ \E available \in Nat : PollBegins(available)
           \/ \E batch \in SUBSET stored : PollReads(batch)
           \/ PollSkips \/ PollFails \/ PollEnds
    BY <1>3, PollSteps
<1>4. CASE Settle \/ Stop \/ StopReturns
    BY <1>4, EndSteps
<1>5. CASE UNCHANGED vars
    BY <1>5 DEF PollerInv, TypeOK, NoLostWake, StopIsQuiet, CanRun, vars, poller, work
<1>. QED  BY <1>1, <1>2, <1>3, <1>4, <1>5 DEF Next

\* The variables keep their types, with what relates the flags: a rerun is
\* noted, and a poll runs, only in a started poller.
THEOREM PollerTypes == Spec => []TypeOK
<1>1. PollerInv => TypeOK
    BY DEF PollerInv
<1>. QED  BY PollerInit, PollerStep, <1>1, PTL DEF Spec

\* request() never loses a wake it has accepted, at whatever moment of the
\* poll in flight it is called and however little a poll has room for: a poll
\* that begins after it reads its item, fails, or fills its room with others.
THEOREM WakesAreNotLost == Spec => []NoLostWake
<1>1. PollerInv => NoLostWake
    BY DEF PollerInv
<1>. QED  BY PollerInit, PollerStep, <1>1, PTL DEF Spec

\* Once stop() has returned no poll runs and none can be started.
THEOREM StoppedIsQuiet == Spec => []StopIsQuiet
<1>1. PollerInv => StopIsQuiet
    BY DEF PollerInv
<1>. QED  BY PollerInit, PollerStep, <1>1, PTL DEF Spec

-----------------------------------------------------------------------------
(* The scheduler alone, for any set of audits and any page limit: its      *)
(* types, that it is never left asleep and that no request waits for a     *)
(* delay.  The three are inductive together: a rerun is noted only while a *)
(* pass is in flight, when no timer is armed, so that the end of the pass  *)
(* decides.                                                                *)

RecoveryInv == Recovery!TypeOK /\ Recovery!NeverAsleep /\ Recovery!RequestIsPrompt

\* The scheduler as createAdaptiveRecoveryScheduler makes it.
LEMMA RecoveryInit == Recovery!Init => RecoveryInv
<1>. SUFFICES ASSUME Recovery!Init PROVE RecoveryInv
    OBVIOUS
<1>1. owed \subseteq Items
    BY DEF Recovery!Init
<1>2. Recovery!TypeOK
    BY <1>1 DEF Recovery!Init, Recovery!TypeOK, Recovery!Delays
<1>. QED  BY <1>2 DEF Recovery!Init, RecoveryInv, Recovery!NeverAsleep, Recovery!RequestIsPrompt

\* An audit becomes owed, or is written by the pass in flight.
LEMMA AuditSteps ==
    ASSUME RecoveryInv, NEW a \in Items, Recovery!Owe(a) \/ Recovery!WriteAudit(a)
    PROVE  RecoveryInv'
<1>1. Recovery!TypeOK'
    <2>1. CASE Recovery!Owe(a)
        BY <2>1 DEF RecoveryInv, Recovery!TypeOK, Recovery!Owe, Recovery!scheduler
    <2>2. CASE Recovery!WriteAudit(a)
        <3>1. page' \subseteq owed' /\ owed' \cup written' \subseteq Items
            BY <2>2 DEF RecoveryInv, Recovery!TypeOK, Recovery!WriteAudit
        <3>2. recoveryRun' \in {"settled", "writing"} /\ recoveryRun = "writing"
            BY <2>2 DEF Recovery!WriteAudit
        <3>. QED  BY <2>2, <3>1, <3>2 DEF RecoveryInv, Recovery!TypeOK, Recovery!WriteAudit
    <2>. QED  BY <2>1, <2>2
<1>2. Recovery!NeverAsleep'
    BY DEF RecoveryInv, Recovery!NeverAsleep, Recovery!Owe, Recovery!WriteAudit,
        Recovery!scheduler
<1>3. Recovery!RequestIsPrompt'
    BY DEF RecoveryInv, Recovery!RequestIsPrompt, Recovery!Owe, Recovery!WriteAudit,
        Recovery!scheduler
<1>. QED  BY <1>1, <1>2, <1>3 DEF RecoveryInv

\* A pass begins, with start() or when the timer fires.
LEMMA BeginSteps ==
    ASSUME RecoveryInv, Recovery!Start \/ Recovery!TimerFires
    PROVE  RecoveryInv'
<1>1. Recovery!TypeOK'
    <2>1. CASE Recovery!Start
        BY <2>1 DEF RecoveryInv, Recovery!TypeOK, Recovery!Start, Recovery!BeginPass,
            Recovery!Delays
    <2>2. CASE Recovery!TimerFires
        BY <2>2 DEF RecoveryInv, Recovery!TypeOK, Recovery!TimerFires, Recovery!BeginPass,
            Recovery!Delays
    <2>. QED  BY <2>1, <2>2
<1>2. Recovery!NeverAsleep'
    BY DEF Recovery!NeverAsleep, Recovery!Start, Recovery!TimerFires, Recovery!BeginPass
<1>3. Recovery!RequestIsPrompt'
    BY DEF Recovery!RequestIsPrompt, Recovery!Start, Recovery!TimerFires, Recovery!BeginPass
<1>. QED  BY <1>1, <1>2, <1>3 DEF RecoveryInv

\* request(): at once, or as a rerun of the pass in flight.
LEMMA RequestStep ==
    ASSUME RecoveryInv, Recovery!Request
    PROVE  RecoveryInv'
<1>1. CASE recoveryRun = "none"
    <2>1. Recovery!TypeOK'
        BY <1>1 DEF RecoveryInv, Recovery!TypeOK, Recovery!Request, Recovery!Delays
    <2>2. Recovery!NeverAsleep' /\ Recovery!RequestIsPrompt'
        BY <1>1 DEF RecoveryInv, Recovery!NeverAsleep, Recovery!RequestIsPrompt, Recovery!Request
    <2>. QED  BY <2>1, <2>2 DEF RecoveryInv
<1>2. CASE recoveryRun # "none"
    <2>1. Recovery!TypeOK'
        BY <1>2 DEF RecoveryInv, Recovery!TypeOK, Recovery!Request
    <2>2. Recovery!NeverAsleep' /\ Recovery!RequestIsPrompt'
        BY <1>2 DEF RecoveryInv, Recovery!NeverAsleep, Recovery!RequestIsPrompt, Recovery!Request
    <2>. QED  BY <2>1, <2>2 DEF RecoveryInv
<1>. QED  BY <1>1, <1>2

\* The pass reads its page, or fails.
LEMMA PassSteps ==
    ASSUME RecoveryInv, Recovery!ReadPage \/ Recovery!PassFails
    PROVE  RecoveryInv'
<1>1. Recovery!TypeOK'
    <2>1. CASE Recovery!ReadPage
        <3>1. page' \subseteq owed
            BY <2>1 DEF Recovery!ReadPage
        <3>2. nextDelay' \in Recovery!Delays /\ recoveryRun' \in {"settled",
            "writing"} /\ recoveryRun = "querying"
            BY <2>1 DEF Recovery!ReadPage, Recovery!Delays
        <3>. QED  BY <2>1, <3>1, <3>2 DEF RecoveryInv, Recovery!TypeOK, Recovery!ReadPage
    <2>2. CASE Recovery!PassFails
        BY <2>2 DEF RecoveryInv, Recovery!TypeOK, Recovery!PassFails, Recovery!Delays
    <2>. QED  BY <2>1, <2>2
<1>2. /\ recoveryRun # "none" /\ recoveryRun' # "none"
      /\ UNCHANGED <<recoveryStarted, recoveryStopped, recoveryRerun, timer, asked>>
    BY DEF Recovery!ReadPage, Recovery!PassFails
<1>3. Recovery!NeverAsleep' /\ Recovery!RequestIsPrompt'
    BY <1>2 DEF RecoveryInv, Recovery!NeverAsleep, Recovery!RequestIsPrompt
<1>. QED  BY <1>1, <1>3 DEF RecoveryInv

\* The finally block arms the timer for what has been asked or earned.
LEMMA SettleStep ==
    ASSUME RecoveryInv, Recovery!Settle
    PROVE  RecoveryInv'
<1>1. CASE recoveryStopped
    <2>1. UNCHANGED <<recoveryRerun, timer>> /\ recoveryRun' = "none"
        BY <1>1 DEF Recovery!Settle
    <2>2. ~recoveryRerun
        BY <1>1 DEF RecoveryInv, Recovery!TypeOK
    <2>3. Recovery!TypeOK'
        BY <2>1, <2>2 DEF RecoveryInv, Recovery!TypeOK, Recovery!Settle
    <2>4. Recovery!NeverAsleep' /\ Recovery!RequestIsPrompt'
        BY <1>1, <2>1 DEF RecoveryInv, Recovery!NeverAsleep, Recovery!RequestIsPrompt,
            Recovery!Settle
    <2>. QED  BY <2>3, <2>4 DEF RecoveryInv
<1>2. CASE ~recoveryStopped
    <2>1. recoveryRerun' = FALSE /\ recoveryRun' = "none" /\ timer' = IF recoveryRerun THEN "now" ELSE nextDelay
        BY <1>2 DEF Recovery!Settle
    <2>2. timer' \in Recovery!Delays
        BY <2>1 DEF RecoveryInv, Recovery!TypeOK, Recovery!Delays
    <2>3. Recovery!TypeOK'
        BY <2>1, <2>2 DEF RecoveryInv, Recovery!TypeOK, Recovery!Settle
    <2>4. Recovery!NeverAsleep'
        BY <1>2, <2>2 DEF Recovery!NeverAsleep, Recovery!Settle, Recovery!Delays
    <2>5. asked => recoveryRerun
        BY <1>2 DEF RecoveryInv, Recovery!RequestIsPrompt, Recovery!TypeOK, Recovery!Settle
    <2>6. Recovery!RequestIsPrompt'
        BY <2>1, <2>5 DEF Recovery!RequestIsPrompt, Recovery!Settle
    <2>. QED  BY <2>3, <2>4, <2>6 DEF RecoveryInv
<1>. QED  BY <1>1, <1>2

\* stop() is called and returns.
LEMMA StopSteps ==
    ASSUME RecoveryInv, Recovery!Stop \/ Recovery!StopReturns
    PROVE  RecoveryInv'
<1>1. Recovery!TypeOK'
    <2>1. CASE Recovery!Stop
        <3>1. recoveryStop' \in {"returned", "waiting"}
            BY <2>1 DEF Recovery!Stop
        <3>. QED  BY <2>1, <3>1 DEF RecoveryInv, Recovery!TypeOK, Recovery!Stop
    <2>2. CASE Recovery!StopReturns
        BY <2>2 DEF RecoveryInv, Recovery!TypeOK, Recovery!StopReturns
    <2>. QED  BY <2>1, <2>2
<1>2. Recovery!NeverAsleep' /\ Recovery!RequestIsPrompt'
    BY DEF RecoveryInv, Recovery!NeverAsleep, Recovery!RequestIsPrompt, Recovery!Stop,
        Recovery!StopReturns
<1>. QED  BY <1>1, <1>2 DEF RecoveryInv

LEMMA RecoveryStep == RecoveryInv /\ [Recovery!Next]_(Recovery!vars) => RecoveryInv'
<1>. SUFFICES ASSUME RecoveryInv, [Recovery!Next]_(Recovery!vars) PROVE RecoveryInv'
    OBVIOUS
<1>1. ASSUME NEW a \in Items, Recovery!Owe(a) \/ Recovery!WriteAudit(a) PROVE RecoveryInv'
    BY <1>1, AuditSteps
<1>2. CASE Recovery!Start \/ Recovery!TimerFires
    BY <1>2, BeginSteps
<1>3. CASE Recovery!Request
    BY <1>3, RequestStep
<1>4. CASE Recovery!ReadPage \/ Recovery!PassFails
    BY <1>4, PassSteps
<1>5. CASE Recovery!Settle
    BY <1>5, SettleStep
<1>6. CASE Recovery!Stop \/ Recovery!StopReturns
    BY <1>6, StopSteps
<1>7. CASE UNCHANGED Recovery!vars
    BY <1>7 DEF RecoveryInv, Recovery!TypeOK, Recovery!NeverAsleep, Recovery!RequestIsPrompt,
        Recovery!vars, Recovery!scheduler
<1>. QED  BY <1>1, <1>2, <1>3, <1>4, <1>5, <1>6, <1>7 DEF Recovery!Next

\* The variables keep their types, and a timer and a pass exclude each other.
THEOREM RecoveryTypes == Recovery!Spec => []Recovery!TypeOK
<1>1. RecoveryInv => Recovery!TypeOK
    BY DEF RecoveryInv
<1>. QED  BY RecoveryInit, RecoveryStep, <1>1, PTL DEF Recovery!Spec

\* Outside a pass a running scheduler has its timer armed; a stopped one none.
THEOREM NeverLeftAsleep == Recovery!Spec => []Recovery!NeverAsleep
<1>1. RecoveryInv => Recovery!NeverAsleep
    BY DEF RecoveryInv
<1>. QED  BY RecoveryInit, RecoveryStep, <1>1, PTL DEF Recovery!Spec

\* A request is served by a pass that starts after it, without a delay.
THEOREM RequestsArePrompt == Recovery!Spec => []Recovery!RequestIsPrompt
<1>1. RecoveryInv => Recovery!RequestIsPrompt
    BY DEF RecoveryInv
<1>. QED  BY RecoveryInit, RecoveryStep, <1>1, PTL DEF Recovery!Spec

-----------------------------------------------------------------------------
(* The scheduler.                                                          *)

\* Every step of the composition is a step or a stutter of the scheduler.
LEMMA SchedulerSteps == [LoopsNext]_all => [Recovery!Next]_(Recovery!vars)
<1>. SUFFICES ASSUME [LoopsNext]_all PROVE [Recovery!Next]_(Recovery!vars)
    OBVIOUS
<1>1. UNCHANGED recovery => UNCHANGED Recovery!vars
    BY DEF recovery, Recovery!vars, Recovery!scheduler
<1>2. CASE PollerLoop
    BY <1>1, <1>2 DEF PollerLoop, PollerAlone, BeginPoll, Dispatch
<1>3. CASE RecoveryLoop
    BY <1>3 DEF RecoveryLoop, RecoveryAlone, Recovery!Next
<1>4. CASE Process
    BY <1>1, <1>4 DEF Process, StartRecovery, StopRecovery, StartPoller, Ready, PollerAlone,
        RecoveryAlone, CloseQueue, Exit, Recovery!Next
<1>5. ASSUME NEW i \in Items,
             StoreCommand(i) \/ PollerAlone(Request(i)) \/ Complete(i) \/ Defer(i)
      PROVE  [Recovery!Next]_(Recovery!vars)
    BY <1>1, <1>5 DEF StoreCommand, PollerAlone, Complete, Defer, Recovery!Next
<1>6. CASE Shutdown \/ UNCHANGED all
    BY <1>1, <1>6 DEF Shutdown, all
<1>. QED  BY <1>2, <1>3, <1>4, <1>5, <1>6 DEF LoopsNext

-----------------------------------------------------------------------------
(* The poller.                                                             *)

\* Every step but CloseQueue is a step or a stutter of the poller.
LEMMA PollerSteps ==
    ASSUME IsFiniteSet(executing), [LoopsNext]_all
    PROVE  [Next]_vars \/ CloseQueue
<1>1. CASE PollerLoop
    <2>1. Room > 0 => Room \in Nat
        BY LoopsAssumption, FS_CardinalityType DEF Room
    <2>2. CASE BeginPoll
        BY <2>1, <2>2 DEF BeginPoll, Next
    <2>3. CASE Dispatch
        BY <2>3 DEF Dispatch, Next
    <2>. QED  BY <1>1, <2>2, <2>3 DEF PollerLoop, PollerAlone, Next
<1>2. CASE RecoveryLoop
    BY <1>2 DEF RecoveryLoop, RecoveryAlone
<1>3. CASE Process
    BY <1>3 DEF Process, StartRecovery, StartPoller, Ready, PollerAlone, RecoveryAlone,
        StopRecovery, Exit, Next
<1>4. ASSUME NEW i \in Items, StoreCommand(i) \/ PollerAlone(Request(i))
      PROVE  Next
    BY <1>4 DEF StoreCommand, PollerAlone, Next
<1>5. ASSUME NEW i \in Items, Complete(i) \/ Defer(i)
      PROVE  UNCHANGED vars
    BY <1>5 DEF Complete, Defer
<1>6. CASE Shutdown
    BY <1>6 DEF Shutdown, Next
<1>7. CASE UNCHANGED all
    BY <1>7 DEF all
<1>. QED  BY <1>1, <1>2, <1>3, <1>4, <1>5, <1>6, <1>7 DEF LoopsNext

-----------------------------------------------------------------------------
(* Both.  An idle timer, or a pass about to arm one, has seen nothing owed:*)
(* what has become owed since is still being audited at once.              *)

IdleToCome == recoveryRun = "settled" /\ nextDelay = "idle" /\ ~recoveryRerun

CaughtUp == (timer = "idle" \/ IdleToCome) /\ ~recoveryStopped => owed \subseteq auditing

\* The tasks in the queue leave a poll that is reading the room it counted.
QueueInv ==
    /\ IsFiniteSet(stored) /\ IsFiniteSet(executing)
    /\ RoomIsKept
    /\ run = "querying" => Cardinality(executing) + room <= Capacity

LoopsInv ==
    /\ PollerInv
    /\ RecoveryInv
    /\ QueueInv
    /\ phase \in {"booting", "recovering", "polling", "ready", "stopping poller",
                  "closing queue", "stopping recovery", "exited"}
    /\ executing \subseteq Items
    /\ Apart
    /\ CaughtUp

LEMMA LoopsStart == LoopsInit => LoopsInv
<1>. SUFFICES ASSUME LoopsInit PROVE LoopsInv
    OBVIOUS
<1>1. PollerInv
    BY PollerInit DEF LoopsInit
<1>2. RecoveryInv
    BY RecoveryInit DEF LoopsInit
<1>3. CaughtUp
    BY DEF LoopsInit, Recovery!Init, CaughtUp, IdleToCome
<1>4. Apart
    BY DEF LoopsInit, Init, Recovery!Init, Apart
<1>5. QueueInv
    BY FS_EmptySet, LoopsAssumption DEF LoopsInit, Init, QueueInv, RoomIsKept
<1>. QED  BY <1>1, <1>2, <1>3, <1>4, <1>5 DEF LoopsInv, LoopsInit

\* A step that changes neither the scheduler nor what is being audited.
LEMMA OthersKeepCaughtUp ==
    ASSUME CaughtUp, UNCHANGED <<recovery, auditing>>
    PROVE  CaughtUp'
BY DEF CaughtUp, IdleToCome, recovery

\* A pass that reads an empty page has found nothing owed.
LEMMA EmptyPage ==
    ASSUME Recovery!ReadPage, page' = {}
    PROVE  owed = {}
<1>1. Recovery!Cardinality({}) = Cardinality({})
    BY DEF Recovery!Cardinality, Cardinality
<1>2. Recovery!Cardinality({}) = 0
    BY <1>1, FS_EmptySet
<1>. QED  BY <1>2, LoopsAssumption DEF Recovery!ReadPage

LEMMA PassesKeepCaughtUp ==
    ASSUME LoopsInv, RecoveryLoop
    PROVE  CaughtUp'
<1>1. UNCHANGED auditing
    BY DEF RecoveryLoop, RecoveryAlone, tasks
<1>2. CASE RecoveryAlone(Recovery!TimerFires)
    BY <1>2 DEF RecoveryAlone, Recovery!TimerFires, Recovery!BeginPass, CaughtUp, IdleToCome
<1>3. CASE RecoveryAlone(Recovery!ReadPage)
    <2>1. recoveryRun # "none" /\ UNCHANGED timer
        BY <1>3 DEF RecoveryAlone, Recovery!ReadPage
    <2>2. timer' = "none"
        BY <2>1 DEF LoopsInv, RecoveryInv, Recovery!TypeOK
    <2>3. IdleToCome' => owed' = {}
        BY <1>3, EmptyPage DEF RecoveryAlone, IdleToCome, Recovery!ReadPage
    <2>. QED  BY <2>2, <2>3 DEF CaughtUp
<1>4. CASE RecoveryAlone(Recovery!PassFails)
    <2>1. recoveryRun # "none" /\ UNCHANGED timer /\ nextDelay' = "active"
        BY <1>4 DEF RecoveryAlone, Recovery!PassFails
    <2>2. timer' = "none"
        BY <2>1 DEF LoopsInv, RecoveryInv, Recovery!TypeOK
    <2>. QED  BY <2>1, <2>2 DEF CaughtUp, IdleToCome
<1>5. ASSUME NEW i \in Items, RecoveryAlone(Recovery!WriteAudit(i))
      PROVE  CaughtUp'
    <2>1. recoveryRun = "writing" /\ UNCHANGED <<timer, nextDelay>>
        BY <1>5 DEF RecoveryAlone, Recovery!WriteAudit
    <2>2. timer' = "none" /\ nextDelay' = "active"
        BY <2>1 DEF LoopsInv, RecoveryInv, Recovery!TypeOK
    <2>. QED  BY <2>2 DEF CaughtUp, IdleToCome
<1>6. CASE RecoveryAlone(Recovery!Settle)
    <2>1. recoveryRun = "settled" /\ recoveryRun' = "none" /\ UNCHANGED <<owed, recoveryStopped>>
        BY <1>6 DEF RecoveryAlone, Recovery!Settle
    <2>2. ~recoveryStopped => timer' = IF recoveryRerun THEN "now" ELSE nextDelay
        BY <1>6 DEF RecoveryAlone, Recovery!Settle
    <2>. QED  BY <1>1, <2>1, <2>2 DEF LoopsInv, CaughtUp, IdleToCome
<1>. QED  BY <1>2, <1>3, <1>4, <1>5, <1>6 DEF RecoveryLoop

\* A deferred audit is no longer audited at once; it asks for a pass.
LEMMA DeferKeepsCaughtUp ==
    ASSUME LoopsInv, NEW i \in Items, Defer(i)
    PROVE  CaughtUp'
<1>1. CASE recoveryStarted /\ ~recoveryStopped
    <2>1. Recovery!Request
        BY <1>1 DEF Defer
    <2>2. CASE recoveryRun = "none"
        BY <2>1, <2>2 DEF Recovery!Request, CaughtUp, IdleToCome
    <2>3. CASE recoveryRun # "none"
        <3>1. timer = "none"
            BY <2>3 DEF LoopsInv, RecoveryInv, Recovery!TypeOK
        <3>. QED  BY <2>1, <2>3, <3>1 DEF Recovery!Request, CaughtUp, IdleToCome
    <2>. QED  BY <2>2, <2>3
<1>2. CASE ~(recoveryStarted /\ ~recoveryStopped)
    <2>1. UNCHANGED recovery
        BY <1>2 DEF Defer
    <2>2. ~recoveryStopped => timer = "none" /\ recoveryRun = "none"
        BY <1>2 DEF LoopsInv, RecoveryInv, Recovery!TypeOK
    <2>. QED  BY <2>1, <2>2 DEF recovery, CaughtUp, IdleToCome
<1>. QED  BY <1>1, <1>2

LEMMA KeepsCaughtUp == LoopsInv /\ [LoopsNext]_all => CaughtUp'
<1>. SUFFICES ASSUME LoopsInv, [LoopsNext]_all PROVE CaughtUp'
    OBVIOUS
<1>. CaughtUp
    BY DEF LoopsInv
<1>1. CASE PollerLoop
    BY <1>1, OthersKeepCaughtUp DEF PollerLoop, PollerAlone, BeginPoll, Dispatch, tasks
<1>2. CASE RecoveryLoop
    BY <1>2, PassesKeepCaughtUp
<1>3. CASE Process
    <2>1. CASE StartRecovery
        BY <2>1 DEF StartRecovery, Recovery!Start, Recovery!BeginPass, CaughtUp, IdleToCome
    <2>2. CASE StopRecovery
        BY <2>2 DEF StopRecovery, Recovery!Stop, CaughtUp
    <2>3. CASE RecoveryAlone(Recovery!StopReturns)
        BY <2>3 DEF RecoveryAlone, Recovery!StopReturns, tasks, CaughtUp, IdleToCome
    <2>4. CASE StartPoller \/ Ready \/ PollerAlone(StopReturns) \/ CloseQueue \/ Exit
        BY <2>4, OthersKeepCaughtUp
        DEF StartPoller, Ready, PollerAlone, CloseQueue, Exit, tasks
    <2>. QED  BY <1>3, <2>1, <2>2, <2>3, <2>4 DEF Process
<1>4. ASSUME NEW i \in Items, StoreCommand(i) \/ PollerAlone(Request(i))
      PROVE  CaughtUp'
    BY <1>4, OthersKeepCaughtUp DEF StoreCommand, PollerAlone, tasks
<1>5. ASSUME NEW i \in Items, Complete(i)
      PROVE  CaughtUp'
    BY <1>5 DEF Complete, Recovery!Owe, Recovery!scheduler, CaughtUp, IdleToCome
<1>6. ASSUME NEW i \in Items, Defer(i)
      PROVE  CaughtUp'
    BY <1>6, DeferKeepsCaughtUp
<1>7. CASE Shutdown
    BY <1>7, OthersKeepCaughtUp DEF Shutdown, tasks
<1>8. CASE UNCHANGED all
    BY <1>8, OthersKeepCaughtUp DEF all, tasks
<1>. QED  BY <1>1, <1>2, <1>3, <1>4, <1>5, <1>6, <1>7, <1>8 DEF LoopsNext

-----------------------------------------------------------------------------
(* The step, and the theorems.                                             *)

\* The canceled commands are stored again behind a poller that has stopped.
LEMMA CloseQueueKeepsPoller ==
    ASSUME PollerInv, executing \subseteq Items, CloseQueue
    PROVE  PollerInv'
<1>1. stored' \subseteq Items
    BY DEF CloseQueue, PollerInv, TypeOK
<1>2. stopped /\ UNCHANGED <<poller, waking, woken, excused>>
    BY DEF CloseQueue, PollerInv, TypeOK
<1>3. TypeOK'
    BY <1>1, <1>2 DEF PollerInv, TypeOK, poller
<1>4. NoLostWake' /\ StopIsQuiet'
    BY <1>2 DEF PollerInv, NoLostWake, StopIsQuiet, CanRun, poller
<1>. QED  BY <1>3, <1>4 DEF PollerInv

LEMMA TasksAreItems ==
    ASSUME TypeOK, executing \subseteq Items, [LoopsNext]_all
    PROVE  executing' \subseteq Items
<1>1. CASE Dispatch
    BY <1>1 DEF Dispatch, TypeOK
<1>2. CASE CloseQueue
    BY <1>2 DEF CloseQueue
<1>3. ASSUME NEW i \in Items, Complete(i)
      PROVE  executing' \subseteq Items
    BY <1>3 DEF Complete
<1>4. CASE ~Dispatch /\ ~CloseQueue /\ \A i \in Items : ~Complete(i)
    <2>1. UNCHANGED executing
        BY <1>4 DEF LoopsNext, PollerLoop, RecoveryLoop, Process, PollerAlone, RecoveryAlone,
            BeginPoll, StartRecovery, StartPoller, Ready, StopRecovery, Exit, Shutdown, StoreCommand,
            Defer, tasks, all
    <2>. QED  BY <2>1
<1>. QED  BY <1>1, <1>2, <1>3, <1>4

LEMMA PhasesAdvance ==
    ASSUME LoopsInv, [LoopsNext]_all
    PROVE  phase' \in {"booting", "recovering", "polling", "ready", "stopping poller",
                      "closing queue", "stopping recovery", "exited"}
<1>1. CASE Process
    BY <1>1 DEF LoopsInv, Process, StartRecovery, StartPoller, Ready, PollerAlone, CloseQueue,
        StopRecovery, RecoveryAlone, Exit
<1>2. CASE ~Process
    BY <1>2 DEF LoopsInv, LoopsNext, PollerLoop, RecoveryLoop, PollerAlone, RecoveryAlone,
        BeginPoll, Dispatch, StoreCommand, Complete, Defer, Shutdown, all
<1>. QED  BY <1>1, <1>2

\* A step of the scheduler alone moves audits from owed to written at most.
LEMMA PassesKeepApart ==
    ASSUME LoopsInv, RecoveryLoop
    PROVE  Apart'
<1>1. UNCHANGED <<stored, executing, auditing>>
    BY DEF RecoveryLoop, RecoveryAlone, tasks, vars, work
<1>2. ASSUME NEW i \in Items, RecoveryAlone(Recovery!WriteAudit(i))
      PROVE  owed' \cup written' = owed \cup written
    <2>1. i \in owed
        BY <1>2 DEF RecoveryAlone, Recovery!WriteAudit, LoopsInv, RecoveryInv, Recovery!TypeOK
    <2>. QED  BY <1>2, <2>1 DEF RecoveryAlone, Recovery!WriteAudit
<1>3. owed' \cup written' = owed \cup written
    BY <1>2 DEF RecoveryLoop, RecoveryAlone, Recovery!TimerFires, Recovery!ReadPage,
        Recovery!PassFails, Recovery!Settle
<1>. QED  BY <1>1, <1>3 DEF LoopsInv, Apart

LEMMA KeepsApart == LoopsInv /\ [LoopsNext]_all => Apart'
<1>. SUFFICES ASSUME LoopsInv, [LoopsNext]_all PROVE Apart'
    OBVIOUS
<1>. Apart
    BY DEF LoopsInv
<1>1. CASE UNCHANGED <<stored, executing, auditing, owed, written>>
    BY <1>1 DEF Apart
<1>2. CASE PollerLoop
    <2>1. CASE Dispatch
        BY <2>1 DEF Dispatch, PollReads, recovery, Apart
    <2>2. CASE ~Dispatch
        BY <1>1, <1>2, <2>2 DEF PollerLoop, PollerAlone, Tick, BeginPoll, PollBegins, PollSkips,
            PollFails, PollEnds, Settle, work, recovery, tasks
    <2>. QED  BY <2>1, <2>2
<1>3. CASE RecoveryLoop
    BY <1>3, PassesKeepApart
<1>4. CASE Process
    <2>1. CASE CloseQueue
        BY <2>1 DEF CloseQueue, recovery, Apart
    <2>2. CASE StartRecovery \/ StopRecovery \/ RecoveryAlone(Recovery!StopReturns)
        BY <1>1, <2>2 DEF StartRecovery, Recovery!Start, StopRecovery, Recovery!Stop,
            RecoveryAlone, Recovery!StopReturns, vars, work, tasks
    <2>3. CASE StartPoller \/ Ready \/ PollerAlone(StopReturns) \/ Exit
        BY <1>1, <2>3 DEF StartPoller, Start, Ready, PollerAlone, StopReturns, Exit, vars, work,
            recovery, tasks
    <2>. QED  BY <1>4, <2>1, <2>2, <2>3 DEF Process
<1>5. ASSUME NEW i \in Items, StoreCommand(i)
      PROVE  Apart'
    BY <1>5 DEF StoreCommand, Store, recovery, tasks, Apart
<1>6. ASSUME NEW i \in Items, PollerAlone(Request(i))
      PROVE  Apart'
    BY <1>1, <1>6 DEF PollerAlone, Request, recovery, tasks
<1>7. ASSUME NEW i \in Items, Complete(i)
      PROVE  Apart'
    BY <1>7 DEF Complete, Recovery!Owe, vars, work, Apart
<1>8. ASSUME NEW i \in Items, Defer(i)
      PROVE  Apart'
    <2>1. UNCHANGED <<stored, executing, owed, written>>
        BY <1>8 DEF Defer, Recovery!Request, recovery, vars, work
    <2>. QED  BY <1>8, <2>1 DEF Defer, Apart
<1>9. CASE Shutdown
    BY <1>1, <1>9 DEF Shutdown, Stop, work, recovery, tasks
<1>10. CASE UNCHANGED all
    BY <1>1, <1>10 DEF all, vars, work, recovery, tasks
<1>. QED  BY <1>2, <1>3, <1>4, <1>5, <1>6, <1>7, <1>8, <1>9, <1>10 DEF LoopsNext

\* Tasks leave the queue at any time, but join it only with a poll, which has
\* counted the room before.
LEMMA KeepsQueue == LoopsInv /\ [LoopsNext]_all => QueueInv'
<1>. SUFFICES ASSUME LoopsInv, [LoopsNext]_all PROVE QueueInv'
    OBVIOUS
<1>1. /\ IsFiniteSet(stored) /\ IsFiniteSet(executing)
      /\ Cardinality(executing) \in Nat /\ Cardinality(executing) <= Capacity
      /\ room \in Nat /\ Capacity \in Nat /\ PollLimit \in Nat
      /\ run = "querying" => Cardinality(executing) + room <= Capacity
    BY FS_CardinalityType, LoopsAssumption DEF LoopsInv, QueueInv, RoomIsKept, PollerInv, TypeOK
<1>2. ASSUME IsFiniteSet(stored'), executing' \subseteq executing,
             run' = "querying" => run = "querying" /\ room' = room
      PROVE  QueueInv'
    <2>1. IsFiniteSet(executing') /\ Cardinality(executing') <= Cardinality(executing)
        BY <1>1, <1>2, FS_Subset
    <2>2. Cardinality(executing') \in Nat
        BY <2>1, FS_CardinalityType
    <2>. QED  BY <1>1, <1>2, <2>1, <2>2 DEF QueueInv, RoomIsKept
<1>3. CASE BeginPoll
    <2>1. UNCHANGED <<stored, executing>>
        BY <1>3 DEF BeginPoll, PollBegins, PollSkips, work, tasks
    <2>2. CASE Room > 0
        <3>1. room' = Room /\ Room + Cardinality(executing) <= Capacity
            BY <1>1, <1>3, <2>2 DEF BeginPoll, PollBegins, Room
        <3>2. Cardinality(executing') + room' <= Capacity
            BY <2>1, <3>1, <1>1 DEF Room
        <3>. QED  BY <1>1, <2>1, <3>2 DEF QueueInv, RoomIsKept
    <2>3. CASE ~(Room > 0)
        <3>1. run' = "settled"
            BY <1>3, <2>3 DEF BeginPoll, PollSkips
        <3>. QED  BY <1>1, <1>2, <2>1, <3>1
    <2>. QED  BY <2>2, <2>3
<1>4. CASE Dispatch
    <2>1. PICK batch \in SUBSET stored :
            PollReads(batch) /\ executing' \subseteq executing \cup batch
        BY <1>4 DEF Dispatch
    <2>2. IsFiniteSet(batch) /\ Cardinality(batch) \in Nat /\ Cardinality(batch) <= room
        BY <1>1, <2>1, FS_Subset, FS_CardinalityType DEF PollReads
    <2>3. /\ IsFiniteSet(executing \cup batch)
          /\ Cardinality(executing \cup batch) <= Cardinality(executing) + Cardinality(batch)
        <3>1. IsFiniteSet(executing \cap batch) /\ Cardinality(executing \cap batch) \in Nat
            BY <1>1, FS_Intersection, FS_CardinalityType
        <3>. QED  BY <1>1, <2>2, <3>1, FS_Union
    <2>4. /\ IsFiniteSet(executing') /\ Cardinality(executing') \in Nat
          /\ Cardinality(executing') <= Cardinality(executing \cup batch)
        BY <2>1, <2>3, FS_Subset, FS_CardinalityType
    <2>5. Cardinality(executing \cup batch) \in Nat
        BY <2>3, FS_CardinalityType
    <2>6. run = "querying" /\ run' = "dispatching" /\ stored' \subseteq stored
        BY <2>1 DEF PollReads
    <2>7. IsFiniteSet(stored')
        BY <1>1, <2>6, FS_Subset
    <2>. QED  BY <1>1, <2>2, <2>3, <2>4, <2>5, <2>6, <2>7 DEF QueueInv, RoomIsKept
<1>5. CASE CloseQueue
    <2>1. PICK canceled \in SUBSET executing : stored' = stored \cup canceled
        BY <1>5 DEF CloseQueue
    <2>2. IsFiniteSet(stored')
        BY <1>1, <2>1, FS_Subset, FS_Union
    <2>. QED  BY <1>2, <1>5, <2>2 DEF CloseQueue, poller
<1>6. ASSUME NEW i \in Items, StoreCommand(i)
      PROVE  QueueInv'
    <2>1. IsFiniteSet(stored')
        BY <1>1, <1>6, FS_AddElement DEF StoreCommand, Store
    <2>. QED  BY <1>2, <1>6, <2>1 DEF StoreCommand, Store, poller, tasks
<1>7. ASSUME NEW i \in Items, PollerAlone(Request(i))
      PROVE  QueueInv'
    BY <1>1, <1>2, <1>7 DEF PollerAlone, Request, tasks
<1>8. ASSUME NEW i \in Items, Complete(i) \/ Defer(i)
      PROVE  QueueInv'
    BY <1>1, <1>2, <1>8 DEF Complete, Defer, vars, poller, work
<1>9. CASE \/ PollerAlone(Tick) \/ PollerAlone(PollFails) \/ PollerAlone(PollEnds)
           \/ PollerAlone(Settle) \/ PollerAlone(StopReturns) \/ Shutdown
    BY <1>1, <1>2, <1>9 DEF PollerAlone, Tick, PollFails, PollEnds, Settle, StopReturns, Shutdown,
        Stop, work, tasks
<1>10. CASE StartPoller
    BY <1>1, <1>2, <1>10 DEF StartPoller, Start, work, tasks
<1>11. CASE UNCHANGED <<vars, executing>>
    BY <1>1, <1>2, <1>11 DEF vars, poller, work
<1>12. CASE \/ StartRecovery \/ Ready \/ StopRecovery \/ RecoveryAlone(Recovery!StopReturns)
            \/ Exit \/ RecoveryLoop \/ UNCHANGED all
    BY <1>11, <1>12 DEF StartRecovery, Ready, StopRecovery, RecoveryAlone, Exit, RecoveryLoop,
        tasks, all
<1>. QED  BY <1>3, <1>4, <1>5, <1>6, <1>7, <1>8, <1>9, <1>10, <1>12
          DEF LoopsNext, PollerLoop, Process

LEMMA LoopsStep == LoopsInv /\ [LoopsNext]_all => LoopsInv'
<1>. SUFFICES ASSUME LoopsInv, [LoopsNext]_all PROVE LoopsInv'
    OBVIOUS
<1>1. RecoveryInv'
    BY SchedulerSteps, RecoveryStep DEF LoopsInv
<1>2. PollerInv'
    <2>1. CASE [Next]_vars
        BY <2>1, PollerStep DEF LoopsInv
    <2>2. CASE CloseQueue
        BY <2>2, CloseQueueKeepsPoller DEF LoopsInv
    <2>3. IsFiniteSet(executing)
        BY DEF LoopsInv, QueueInv
    <2>. QED  BY <2>1, <2>2, <2>3, PollerSteps
<1>3. executing' \subseteq Items
    BY TasksAreItems DEF LoopsInv, PollerInv
<1>4. CaughtUp'
    BY KeepsCaughtUp
<1>. QED  BY <1>1, <1>2, <1>3, <1>4, KeepsApart, KeepsQueue, PhasesAdvance DEF LoopsInv

THEOREM LoopsInvariant == LoopsSpec => []LoopsInv
BY LoopsStart, LoopsStep, PTL DEF LoopsSpec

\* In the worker as it runs, from start to shutdown: no accepted wake is
\* lost, a poller whose stop() has returned is quiet, the recovery of audits
\* is never left asleep, a request, such as that of a deferred audit, never
\* waits for a delay, and the queue has room for every command that is read.
THEOREM WorkerLoopsAreSafe == LoopsSpec => []LoopsSafety
<1>1. LoopsInv => NeverAsleep /\ RequestIsPrompt /\ Recovery!TypeOK
    BY DEF LoopsInv, RecoveryInv, NeverAsleep, RequestIsPrompt
<1>2. LoopsInv => TypeOK /\ NoLostWake /\ StopIsQuiet
    BY DEF LoopsInv, PollerInv
<1>3. LoopsInv => RoomIsKept
    BY DEF LoopsInv, QueueInv
<1>4. LoopsInv => LoopsSafety
    BY <1>1, <1>2, <1>3 DEF LoopsInv, LoopsTypeOK, LoopsSafety
<1>. QED  BY LoopsInvariant, <1>4, PTL

\* The idle delay, thirty seconds, is kept only by a worker that owes no
\* audit but those it is writing at once.
THEOREM IdleWorkerOwesNothing == LoopsSpec => []IdleOwesNothing
<1>1. LoopsInv => IdleOwesNothing
    <2>1. Recovery!NeverAsleep /\ CaughtUp => IdleOwesNothing
        BY DEF Recovery!NeverAsleep, CaughtUp, IdleOwesNothing
    <2>. QED  BY <2>1 DEF LoopsInv, RecoveryInv
<1>. QED  BY LoopsInvariant, <1>1, PTL
=============================================================================

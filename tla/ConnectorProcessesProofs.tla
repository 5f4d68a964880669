---------------------- MODULE ConnectorProcessesProofs ----------------------
(***************************************************************************)
(* Theorems about the processes around the connectors, for any tags,       *)
(* connectors and overlapping reloads.                                     *)
(***************************************************************************)
EXTENDS ConnectorProcesses, FiniteSetTheorems, SequenceTheorems, WellFoundedInduction, TLAPS

-----------------------------------------------------------------------------
(***************************************************************************)
(* The runtime of a connector.  That a stopped runtime holds no connection *)
(* needs where the loop may stand after stop(): a socket that is up is one *)
(* the driver refers to, so stop() closes it, and a loop that stop() did   *)
(* not find before its socket never gets to open another.                  *)
(***************************************************************************)

UpIsHeld == Up => held

StoppedIsDown == aborted /\ ~late => ~Up /\ pc \notin {"connecting", "validating"}

ReturnedIsOver == stop = "returned" => ~Running

RuntimeIInv == RuntimeTypeOK /\ ReconnectingIsNotGood /\ UpIsHeld /\ StoppedIsDown /\ ReturnedIsOver

LEMMA RuntimeStarts == RuntimeInit => RuntimeIInv
<1> SUFFICES ASSUME RuntimeInit PROVE RuntimeIInv
    OBVIOUS
<1>1. RuntimeTypeOK
  <2>1. {held, listening, aborted, late} \subseteq BOOLEAN
      BY DEF RuntimeInit
  <2>2. queue \in Seq(Tags)
      BY DEF RuntimeInit
  <2>3. shown \in [Tags -> {"none", "good", "stale", "disconnected"}]
      BY DEF RuntimeInit
  <2>4. stop # "no" <=> aborted
      BY DEF RuntimeInit
  <2> QED
      BY <2>1, <2>2, <2>3, <2>4 DEF RuntimeInit, RuntimeTypeOK
<1>2. ReconnectingIsNotGood /\ UpIsHeld /\ StoppedIsDown /\ ReturnedIsOver
    BY DEF RuntimeInit, ReconnectingIsNotGood, UpIsHeld, StoppedIsDown, ReturnedIsOver, Up
<1> QED
    BY <1>1, <1>2 DEF RuntimeIInv

LEMMA RuntimeIsEnough == RuntimeIInv => RuntimeInv
  BY DEF RuntimeInv, RuntimeIInv, RuntimeTypeOK, StopReleases, StoppedIsDown, ReturnedIsOver, Running

LEMMA RuntimeStutters == RuntimeIInv /\ UNCHANGED runtimeVars => RuntimeIInv'
  BY DEF runtimeVars, driver, RuntimeIInv, RuntimeTypeOK, ReconnectingIsNotGood, UpIsHeld, StoppedIsDown, ReturnedIsOver, Up,
         Running

\* Steps that take neither a sample into the queue nor one out of it.
LEMMA RuntimeTypes == RuntimeAssumption /\ RuntimeTypeOK /\ RuntimeNext => RuntimeTypeOK'
<1> SUFFICES ASSUME RuntimeAssumption, RuntimeTypeOK, RuntimeNext PROVE RuntimeTypeOK'
    OBVIOUS
<1> USE DEF RuntimeTypeOK
<1>1. CASE ConnectingStored
  <2>1. queue' \in Seq(Tags)
      BY <1>1 DEF ConnectingStored
  <2>2. {held', listening', aborted', late'} \subseteq BOOLEAN
      BY <1>1 DEF ConnectingStored
  <2> QED
      BY <1>1, <2>1, <2>2 DEF ConnectingStored
<1>2a. CASE TargetAccepted
    BY <1>2a DEF TargetAccepted
<1>2. CASE TargetRefused
  BY <1>2 DEF TargetRefused, Caught, driver
<1>3a. CASE SocketOpens
    BY <1>3a DEF SocketOpens
<1>3. CASE SocketFails
    BY <1>3 DEF SocketFails, Caught
<1>4. CASE OnlineStored
    BY <1>4 DEF OnlineStored, Caught
<1>5. CASE Consume
  BY <1>5 DEF Consume
<1>6. CASE SubscriptionEnds \/ BackoffEnds
    BY <1>6 DEF SubscriptionEnds, BackoffEnds, LoopTop, Caught, driver
<1>7. CASE OfflineStored
    BY <1>7 DEF OfflineStored, Disconnect
<1>8. CASE HealthFails
    BY <1>8 DEF HealthFails, Caught, driver
<1>9. ASSUME NEW t \in Tags, SampleArrives(t) PROVE RuntimeTypeOK'
    BY <1>9 DEF SampleArrives
<1>10. ASSUME NEW t \in Tags, DetectStale(t) PROVE RuntimeTypeOK'
    BY <1>10 DEF DetectStale, driver
<1>11. CASE LinkCloses
    BY <1>11 DEF LinkCloses
<1>12. CASE Stop
  <2>1. late' \in BOOLEAN /\ held' = FALSE /\ aborted' = TRUE /\ listening' = listening
      BY <1>12 DEF Stop, Disconnect
  <2>2. {held', listening', aborted', late'} \subseteq BOOLEAN
      BY <2>1
  <2>3. stop' # "no" <=> aborted'
      BY <1>12 DEF Stop
  <2> QED
      BY <1>12, <2>2, <2>3 DEF Stop, Disconnect
<1>13. CASE StopReturns
    BY <1>13 DEF StopReturns, driver
<1> HIDE DEF RuntimeTypeOK
<1> QED
    BY <1>1, <1>2a, <1>2, <1>3a, <1>3, <1>4, <1>5, <1>6, <1>7, <1>8, <1>9, <1>10, <1>11, <1>12, <1>13
    DEF RuntimeNext, RuntimeLoop

LEMMA RuntimeKeeps == RuntimeAssumption /\ RuntimeIInv /\ RuntimeNext => RuntimeIInv'
<1> SUFFICES ASSUME RuntimeAssumption, RuntimeIInv, RuntimeNext PROVE RuntimeIInv'
    OBVIOUS
<1>1. RuntimeTypeOK /\ RuntimeTypeOK'
    BY RuntimeTypes DEF RuntimeIInv
<1>2. ReconnectingIsNotGood'
  <2> SUFFICES ASSUME NEW t \in Tags,
                      pc' \in {"backoff", "connecting", "validating", "opening", "online"}
               PROVE  shown'[t] # "good"
      BY DEF ReconnectingIsNotGood
  <2> USE <1>1 DEF RuntimeIInv, RuntimeTypeOK, ReconnectingIsNotGood
  <2>1. CASE RuntimeLoop
      BY <2>1 DEF RuntimeLoop, ConnectingStored, TargetAccepted, TargetRefused, SocketOpens, SocketFails, OnlineStored,
                  Consume, SubscriptionEnds, OfflineStored, BackoffEnds, HealthFails, Caught, LoopTop, driver
  <2>2. ASSUME NEW u \in Tags, DetectStale(u) PROVE shown'[t] # "good"
      BY <2>2 DEF DetectStale
  <2>3. ASSUME NEW u \in Tags, SampleArrives(u) PROVE shown'[t] # "good"
      BY <2>3 DEF SampleArrives
  <2>4. CASE LinkCloses \/ Stop \/ StopReturns
      BY <2>4 DEF LinkCloses, Stop, StopReturns
  <2> QED
      BY <2>1, <2>2, <2>3, <2>4 DEF RuntimeNext
<1>3. UpIsHeld'
  <2> USE <1>1 DEF RuntimeIInv, RuntimeTypeOK, UpIsHeld, Up
  <2>1. CASE RuntimeLoop
      BY <2>1 DEF RuntimeLoop, ConnectingStored, TargetAccepted, TargetRefused, SocketOpens, SocketFails, OnlineStored,
                  Consume, SubscriptionEnds, OfflineStored, Disconnect, BackoffEnds, HealthFails, driver
  <2>2. ASSUME NEW u \in Tags, SampleArrives(u) \/ DetectStale(u) PROVE UpIsHeld'
      BY <2>2 DEF SampleArrives, DetectStale, driver
  <2>3. CASE LinkCloses \/ Stop \/ StopReturns
      BY <2>3 DEF LinkCloses, Stop, Disconnect, StopReturns, driver
  <2> QED
      BY <2>1, <2>2, <2>3 DEF RuntimeNext
<1>4. StoppedIsDown'
  <2> USE <1>1 DEF RuntimeIInv, RuntimeTypeOK, UpIsHeld, StoppedIsDown, Up
  <2>1. CASE RuntimeLoop
      BY <2>1 DEF RuntimeLoop, ConnectingStored, TargetAccepted, TargetRefused, SocketOpens, SocketFails, OnlineStored,
                  Consume, SubscriptionEnds, OfflineStored, Disconnect, BackoffEnds, HealthFails, Caught, LoopTop, driver
  <2>2. ASSUME NEW u \in Tags, SampleArrives(u) \/ DetectStale(u) PROVE StoppedIsDown'
      BY <2>2 DEF SampleArrives, DetectStale, driver
  <2>3. CASE LinkCloses \/ Stop \/ StopReturns
      BY <2>3 DEF LinkCloses, Stop, Disconnect, StopReturns, driver
  <2> QED
      BY <2>1, <2>2, <2>3 DEF RuntimeNext
<1>5. ReturnedIsOver'
  <2> USE <1>1 DEF RuntimeIInv, RuntimeTypeOK, ReturnedIsOver, Running
  <2>1. CASE RuntimeLoop
      BY <2>1 DEF RuntimeLoop, ConnectingStored, TargetAccepted, TargetRefused, SocketOpens, SocketFails, OnlineStored,
                  Consume, SubscriptionEnds, OfflineStored, BackoffEnds, HealthFails
  <2>2. ASSUME NEW u \in Tags, SampleArrives(u) \/ DetectStale(u) PROVE ReturnedIsOver'
      BY <2>2 DEF SampleArrives, DetectStale
  <2>3. CASE LinkCloses \/ Stop \/ StopReturns
      BY <2>3 DEF LinkCloses, Stop, StopReturns
  <2> QED
      BY <2>1, <2>2, <2>3 DEF RuntimeNext
<1> QED
    BY <1>1, <1>2, <1>3, <1>4, <1>5 DEF RuntimeIInv

-----------------------------------------------------------------------------
(***************************************************************************)
(* The reload.  A new runtime always finds a slot that nothing refers to:  *)
(* the Map refers to one for each connector at most, the reloads that wait *)
(* for a runtime to stop to one each.  What a reload stops belongs, or has *)
(* belonged, to the connector it is at, so that no other connector loses   *)
(* its runtime by it.  And as long as no two reloads were in flight, the   *)
(* runtime that is being stopped is still the one in the Map.              *)
(***************************************************************************)

Entry == [slot : Slots, version : 1..MaxEdits + 1]

Standing == [ pc : {"idle", "next", "authenticating", "replacing", "sweeping"},
              todo : SUBSET Connectors, wanted : SUBSET Connectors, connector : Connectors \cup {None},
              version : 0..MaxEdits + 1, victim : Slots \cup {None} ]

ReloadTyped ==
    /\ config \in [Connectors -> 0..MaxEdits + 1]
    /\ edits \in 0..MaxEdits
    /\ faults \in 0..MaxFaults
    /\ runtimes \in [Connectors -> Entry \cup {None}]
    /\ live \subseteq Slots
    /\ stray \subseteq Connectors
    /\ reload \in [Reloads -> Standing]
    /\ overlapped \in BOOLEAN

\* What a reload knows at the await it has reached.
Sound(s) ==
    /\ s.pc \notin {"idle", "next"} => s.connector \in Connectors
    /\ s.pc \in {"authenticating", "replacing"} => s.version # 0
    /\ s.victim # None <=> s.pc \in {"replacing", "sweeping"}
    /\ s.todo \cap s.wanted = {}
    /\ s.pc = "authenticating" => s.connector \notin s.todo

ReloadsAreSound == \A r \in Reloads : Sound(reload[r])

\* A runtime that is being stopped is in the Map for its own connector at most.
VictimIsOwn(s) ==
    s.victim # None =>
        \A d \in Connectors : d # s.connector /\ runtimes[d] # None => runtimes[d].slot # s.victim

VictimsAreOwn == \A r \in Reloads : VictimIsOwn(reload[r])

\* As long as reloads have not overlapped, at most one is in flight, and what
\* it stops is still in the Map.
OneAtATime ==
    ~overlapped => \A r, q \in Reloads : InFlight(r) /\ InFlight(q) => r = q

VictimIsCurrent(s) ==
    s.victim # None => runtimes[s.connector] # None /\ runtimes[s.connector].slot = s.victim

VictimsAreCurrent == ~overlapped => \A r \in Reloads : VictimIsCurrent(reload[r])

ReloadIInv ==
    /\ ReloadTyped /\ ReloadsAreSound
    /\ VictimsAreOwn /\ EntriesRun
    /\ OneAtATime /\ VictimsAreCurrent /\ OneRuntimeEach

\* An image of a finite set is as large as the set at most.
LEMMA ImageIsSmaller ==
  ASSUME NEW S, IsFiniteSet(S), NEW f, NEW T, T = {f[x] : x \in S}
  PROVE  IsFiniteSet(T) /\ Cardinality(T) <= Cardinality(S)
<1> DEFINE g == [x \in S |-> f[x]]
<1>1. g \in Surjection(S, T)
    BY DEF Surjection
<1> QED
    BY <1>1, FS_Surjection

LEMMA SlotIsFree ==
  ASSUME ReloadAssumption, NEW map \in [Connectors -> Entry \cup {None}], NEW rel \in [Reloads -> Standing]
  PROVE  \E s \in Slots : s \notin ReferredTo(map, rel)
<1> DEFINE Present == {c \in Connectors : map[c] # None}
           slots   == [c \in Present |-> map[c].slot]
           victims == [r \in Reloads |-> rel[r].victim]
           A == {slots[c] : c \in Present}
           B == {victims[r] : r \in Reloads}
           n == Cardinality(Connectors)
           m == Cardinality(Reloads)
<1>1. IsFiniteSet(Present) /\ Cardinality(Present) <= n
    BY FS_Subset DEF ReloadAssumption
<1>2. IsFiniteSet(A) /\ Cardinality(A) <= Cardinality(Present)
    BY <1>1, ImageIsSmaller
<1>3. IsFiniteSet(B) /\ Cardinality(B) <= m
    BY ImageIsSmaller DEF ReloadAssumption
<1>4. IsFiniteSet(B \ {None}) /\ Cardinality(B \ {None}) <= Cardinality(B)
    BY <1>3, FS_Subset
<1>5. n \in Nat /\ m \in Nat
    BY FS_CardinalityType DEF ReloadAssumption
<1> DEFINE R == A \cup (B \ {None})
<1>6. IsFiniteSet(R) /\ Cardinality(R) = Cardinality(A) + Cardinality(B \ {None}) - Cardinality(A \cap (B \ {None}))
    BY <1>2, <1>4, FS_Union
<1>7. IsFiniteSet(A \cap (B \ {None}))
    BY <1>2, FS_Subset
<1>8. Cardinality(R) <= n + m
    BY <1>1, <1>2, <1>3, <1>4, <1>5, <1>6, <1>7, FS_CardinalityType
<1>9. Slots = 1..(n + m + 1)
    BY DEF Slots
<1>10. ~(Slots \subseteq R)
  <2> HIDE DEF n, m, R
  <2>1. IsFiniteSet(1..(n + m + 1)) /\ Cardinality(1..(n + m + 1)) = n + m + 1
      BY <1>5, FS_Interval
  <2>2. Slots \subseteq R => Cardinality(1..(n + m + 1)) <= Cardinality(R)
      BY <1>6, <1>9, FS_Subset
  <2>3. Cardinality(R) \in Nat
      BY <1>6, FS_CardinalityType
  <2> QED
      BY <1>5, <1>8, <2>1, <2>2, <2>3
<1>11. ReferredTo(map, rel) = R
    BY DEF ReferredTo
<1> QED
    BY <1>10, <1>11

\* What is launched is a proper entry, in a slot that nothing refers to.
LEMMA LaunchIsFree ==
  ASSUME ReloadAssumption, ReloadTyped, NEW c, NEW v \in 1..MaxEdits + 1
  PROVE  /\ Launched(c, v) \in Entry
         /\ Launched(c, v) # None
         /\ Launched(c, v).slot \notin ReferredTo(runtimes, reload)
         /\ Launched(c, v).version = v
<1> DEFINE s == CHOOSE s \in Slots : s \notin ReferredTo(runtimes, reload)
<1>1. s \in Slots /\ s \notin ReferredTo(runtimes, reload)
    BY SlotIsFree DEF ReloadTyped
<1> HIDE DEF s
<1>2. Launched(c, v) = [slot |-> s, version |-> v]
    BY DEF Launched, s
<1>3. Launched(c, v) \in Entry
    BY <1>1, <1>2 DEF Entry
<1>4. s \in Nat /\ v \in Nat
    BY <1>1, FS_CardinalityType DEF Slots, ReloadAssumption
<1>5. Launched(c, v) # None
    BY <1>2, <1>4 DEF ReloadAssumption
<1> QED
    BY <1>1, <1>2, <1>3, <1>5

\* A step of reload r leaves the others where they stand.
Only(r, s) == /\ s \in Standing
              /\ reload' = [reload EXCEPT ![r] = s]


LEMMA BeginMoves ==
  ASSUME ReloadTyped, NEW r \in Reloads, Begin(r)
  PROVE  \E s : /\ Only(r, s)
                /\ s.pc = "next" /\ s.wanted = {}
                /\ s.connector = reload[r].connector /\ s.version = reload[r].version
                /\ s.victim = reload[r].victim
<1> DEFINE todo == {c \in Connectors : config[c] # 0}
           s == [reload[r] EXCEPT !.pc = "next", !.todo = todo, !.wanted = {}]
<1>1. todo \subseteq Connectors
    OBVIOUS
<1> HIDE DEF todo
<1>2. s \in Standing
    BY <1>1 DEF ReloadTyped, Standing
<1>3. reload' = [reload EXCEPT ![r] = s]
    BY DEF Begin, todo, ReloadTyped, Standing
<1>4. /\ s.pc = "next" /\ s.wanted = {}
      /\ s.connector = reload[r].connector /\ s.version = reload[r].version
      /\ s.victim = reload[r].victim
    BY DEF ReloadTyped, Standing
<1> QED
    BY <1>2, <1>3, <1>4 DEF Only

LEMMA SelectMoves ==
  ASSUME ReloadTyped, ReloadsAreSound, NEW r \in Reloads, NEW c \in Connectors, Select(r, c)
  PROVE  \E s : /\ Only(r, s)
                /\ s.todo = reload[r].todo \ {c} /\ s.pc = (IF config[c] = 0 THEN "next" ELSE "authenticating") /\ s.connector = c /\ s.version = config[c]
                /\ s.wanted = reload[r].wanted /\ s.victim = reload[r].victim
<1> DEFINE s == [reload[r] EXCEPT !.todo = reload[r].todo \ {c}, !.pc = IF config[c] = 0 THEN "next" ELSE "authenticating", !.connector = c, !.version = config[c]]
<1>1. s \in Standing
    BY DEF Select, ReloadTyped, Standing, ReloadsAreSound, Sound
<1>2. reload' = [reload EXCEPT ![r] = s]
    BY DEF Select, ReloadTyped, Standing
<1>3. /\ s.todo = reload[r].todo \ {c} /\ s.pc = (IF config[c] = 0 THEN "next" ELSE "authenticating") /\ s.connector = c /\ s.version = config[c]
      /\ s.wanted = reload[r].wanted /\ s.victim = reload[r].victim
    BY DEF ReloadTyped, Standing
<1> QED
    BY <1>1, <1>2, <1>3 DEF Only

LEMMA SweepMoves ==
  ASSUME ReloadTyped, ReloadsAreSound, NEW r \in Reloads, NEW c \in Connectors, SweepNext(r, c)
  PROVE  \E s : /\ Only(r, s)
                /\ s.pc = "sweeping" /\ s.connector = c /\ s.victim = runtimes[c].slot
                /\ s.todo = reload[r].todo /\ s.wanted = reload[r].wanted /\ s.version = reload[r].version
<1> DEFINE s == [reload[r] EXCEPT !.pc = "sweeping", !.connector = c, !.victim = runtimes[c].slot]
<1>1. s \in Standing
    BY DEF SweepNext, ReloadTyped, Standing, ReloadsAreSound, Sound, Unwanted, Entry
<1>2. reload' = [reload EXCEPT ![r] = s]
    BY DEF SweepNext, ReloadTyped, Standing, Unwanted, Entry
<1>3. /\ s.pc = "sweeping" /\ s.connector = c /\ s.victim = runtimes[c].slot
      /\ s.todo = reload[r].todo /\ s.wanted = reload[r].wanted /\ s.version = reload[r].version
    BY DEF ReloadTyped, Standing
<1> QED
    BY <1>1, <1>2, <1>3 DEF Only

LEMMA AuthenticationFailsMoves ==
  ASSUME ReloadTyped, ReloadsAreSound, NEW r \in Reloads, AuthenticationFails(r)
  PROVE  \E s : /\ Only(r, s)
                /\ s.pc = "next"
                /\ s.todo = reload[r].todo /\ s.wanted = reload[r].wanted /\ s.connector = reload[r].connector /\ s.version = reload[r].version /\ s.victim = reload[r].victim
<1> DEFINE s == [reload[r] EXCEPT !.pc = "next"]
<1>1. s \in Standing
    BY DEF AuthenticationFails, ReloadTyped, Standing, ReloadsAreSound, Sound
<1>2. reload' = [reload EXCEPT ![r] = s]
    BY DEF AuthenticationFails, ReloadTyped, Standing
<1>3. /\ s.pc = "next"
      /\ s.todo = reload[r].todo /\ s.wanted = reload[r].wanted /\ s.connector = reload[r].connector /\ s.version = reload[r].version /\ s.victim = reload[r].victim
    BY DEF ReloadTyped, Standing
<1> QED
    BY <1>1, <1>2, <1>3 DEF Only

LEMMA LeaveMoves ==
  ASSUME ReloadTyped, ReloadsAreSound, NEW r \in Reloads, End(r) \/ Fail(r)
  PROVE  \E s : /\ Only(r, s)
                /\ s.pc = "idle"
                /\ s.todo = reload[r].todo /\ s.wanted = reload[r].wanted /\ s.connector = reload[r].connector /\ s.version = reload[r].version /\ s.victim = reload[r].victim
<1> DEFINE s == [reload[r] EXCEPT !.pc = "idle"]
<1>1. s \in Standing
    BY DEF End, Fail, ReloadTyped, Standing, ReloadsAreSound, Sound
<1>2. reload' = [reload EXCEPT ![r] = s]
    BY DEF End, Fail, ReloadTyped, Standing
<1>3. /\ s.pc = "idle"
      /\ s.todo = reload[r].todo /\ s.wanted = reload[r].wanted /\ s.connector = reload[r].connector /\ s.version = reload[r].version /\ s.victim = reload[r].victim
    BY DEF ReloadTyped, Standing
<1> QED
    BY <1>1, <1>2, <1>3 DEF Only

LEMMA StopMoves ==
  ASSUME ReloadTyped, ReloadsAreSound, NEW r \in Reloads, Replace(r) \/ Swept(r)
  PROVE  \E s : /\ Only(r, s)
                /\ s.pc = "next" /\ s.victim = None
                /\ s.todo = reload[r].todo /\ s.wanted = reload[r].wanted /\ s.connector = reload[r].connector /\ s.version = reload[r].version
<1> DEFINE s == [reload[r] EXCEPT !.pc = "next", !.victim = None]
<1>1. s \in Standing
    BY DEF Replace, Swept, ReloadTyped, Standing, ReloadsAreSound, Sound
<1>2. reload' = [reload EXCEPT ![r] = s]
    BY DEF Replace, Swept, ReloadTyped, Standing
<1>3. /\ s.pc = "next" /\ s.victim = None
      /\ s.todo = reload[r].todo /\ s.wanted = reload[r].wanted /\ s.connector = reload[r].connector /\ s.version = reload[r].version
    BY DEF ReloadTyped, Standing
<1> QED
    BY <1>1, <1>2, <1>3 DEF Only

LEMMA KeepMoves ==
  ASSUME ReloadTyped, ReloadsAreSound, NEW r \in Reloads, reload[r].pc = "authenticating",
         reload' = [reload EXCEPT ![r].pc = "next", ![r].wanted = @ \cup {reload[r].connector}]
  PROVE  \E s : /\ Only(r, s)
                /\ s.pc = "next" /\ s.wanted = reload[r].wanted \cup {reload[r].connector}
                /\ s.todo = reload[r].todo /\ s.connector = reload[r].connector /\ s.version = reload[r].version /\ s.victim = reload[r].victim
<1> DEFINE s == [reload[r] EXCEPT !.pc = "next", !.wanted = reload[r].wanted \cup {reload[r].connector}]
<1>1. s \in Standing
    BY DEF ReloadTyped, Standing, ReloadsAreSound, Sound
<1>2. reload' = [reload EXCEPT ![r] = s]
    BY DEF ReloadTyped, Standing
<1>3. /\ s.pc = "next" /\ s.wanted = reload[r].wanted \cup {reload[r].connector}
      /\ s.todo = reload[r].todo /\ s.connector = reload[r].connector /\ s.version = reload[r].version /\ s.victim = reload[r].victim
    BY DEF ReloadTyped, Standing
<1> QED
    BY <1>1, <1>2, <1>3 DEF Only

LEMMA ReplaceMoves ==
  ASSUME ReloadTyped, ReloadsAreSound, NEW r \in Reloads, reload[r].pc = "authenticating", runtimes[reload[r].connector] # None,
         reload' = [reload EXCEPT ![r].pc = "replacing", ![r].wanted = @ \cup {reload[r].connector},
                                  ![r].victim = runtimes[reload[r].connector].slot]
  PROVE  \E s : /\ Only(r, s)
                /\ s.pc = "replacing" /\ s.wanted = reload[r].wanted \cup {reload[r].connector} /\ s.victim = runtimes[reload[r].connector].slot
                /\ s.todo = reload[r].todo /\ s.connector = reload[r].connector /\ s.version = reload[r].version
<1> DEFINE s == [reload[r] EXCEPT !.pc = "replacing", !.wanted = reload[r].wanted \cup {reload[r].connector}, !.victim = runtimes[reload[r].connector].slot]
<1>1. s \in Standing
    BY DEF ReloadTyped, Standing, ReloadsAreSound, Sound, Entry
<1>2. reload' = [reload EXCEPT ![r] = s]
    BY DEF ReloadTyped, Standing, Entry
<1>3. /\ s.pc = "replacing" /\ s.wanted = reload[r].wanted \cup {reload[r].connector} /\ s.victim = runtimes[reload[r].connector].slot
      /\ s.todo = reload[r].todo /\ s.connector = reload[r].connector /\ s.version = reload[r].version
    BY DEF ReloadTyped, Standing
<1> QED
    BY <1>1, <1>2, <1>3 DEF Only

\* A step that leaves the Map and the runtimes alone: what remains to be shown
\* of it is about the reload that takes it.
LEMMA QuietStep ==
  ASSUME ReloadIInv, NEW r \in Reloads, NEW s, Only(r, s), UNCHANGED workers,
         config' \in [Connectors -> 0..MaxEdits + 1], edits' \in 0..MaxEdits, faults' \in 0..MaxFaults,
         overlapped' \in BOOLEAN, overlapped => overlapped',
         Sound(s), VictimIsOwn(s), ~overlapped' => VictimIsCurrent(s),
         ~overlapped' /\ s.pc # "idle" => \A q \in Reloads \ {r} : ~InFlight(q)
  PROVE  ReloadIInv'
<1> USE DEF ReloadIInv, workers
<1>1. /\ reload' \in [Reloads -> Standing]
      /\ reload'[r] = s
      /\ \A q \in Reloads \ {r} : reload'[q] = reload[q]
    BY DEF Only, ReloadTyped
<1>2. ReloadTyped'
    BY <1>1 DEF ReloadTyped
<1>3. ReloadsAreSound'
    BY <1>1 DEF ReloadsAreSound, Sound
<1>4. VictimsAreOwn'
    BY <1>1 DEF VictimsAreOwn, VictimIsOwn
<1>5. EntriesRun' /\ OneRuntimeEach'
    BY DEF EntriesRun, OneRuntimeEach, Entries
<1>6. OneAtATime'
  <2> SUFFICES ASSUME ~overlapped', NEW p \in Reloads, NEW q \in Reloads, InFlight(p)', InFlight(q)'
               PROVE  p = q
      BY DEF OneAtATime
  <2>1. \A o \in Reloads \ {r} : InFlight(o)' => InFlight(o)
      BY <1>1 DEF InFlight
  <2>2. InFlight(r)' => s.pc # "idle"
      BY <1>1 DEF InFlight
  <2> QED
      BY <2>1, <2>2 DEF OneAtATime
<1>7. VictimsAreCurrent'
    BY <1>1 DEF VictimsAreCurrent, VictimIsCurrent
<1> QED
    BY <1>2, <1>3, <1>4, <1>5, <1>6, <1>7

\* A step that takes the connector's place in the Map for a new runtime, or
\* leaves it empty, and ends what the reload was about.
Places(r, s, c, new) ==
    /\ Only(r, s) /\ s.pc = "next" /\ s.victim = None
    /\ InFlight(r)
    /\ new # None => new.slot \notin ReferredTo(runtimes, reload)
    /\ runtimes' = [runtimes EXCEPT ![c] = new]
    /\ UNCHANGED <<config, edits, faults, overlapped>>

LEMMA Referred ==
  ASSUME NEW x, x \notin ReferredTo(runtimes, reload)
  PROVE  /\ \A d \in Connectors : runtimes[d] # None => runtimes[d].slot # x
         /\ \A q \in Reloads : reload[q].victim # None => reload[q].victim # x
  BY DEF ReferredTo

LEMMA PlacingKeeps ==
  ASSUME ReloadIInv, NEW r \in Reloads, NEW s, NEW c \in Connectors, NEW new \in Entry \cup {None},
         Places(r, s, c, new), Sound(s), live' \subseteq Slots, stray' \subseteq Connectors
  PROVE  /\ ReloadTyped' /\ ReloadsAreSound' /\ VictimsAreOwn'
         /\ OneAtATime' /\ VictimsAreCurrent'
         /\ \A b, d \in Connectors : b # d /\ runtimes'[b] # None /\ runtimes'[d] # None
                                         => runtimes'[b].slot # runtimes'[d].slot
         /\ \A e : e \in Entries' <=> \/ new # None /\ e = new.slot
                                      \/ \E d \in Connectors \ {c} : runtimes[d] # None /\ e = runtimes[d].slot
<1> USE DEF ReloadIInv
<1>1. /\ reload' \in [Reloads -> Standing]
      /\ reload'[r] = s
      /\ \A q \in Reloads \ {r} : reload'[q] = reload[q]
    BY DEF Places, Only, ReloadTyped
<1>2. /\ runtimes' \in [Connectors -> Entry \cup {None}]
      /\ runtimes'[c] = new
      /\ \A d \in Connectors \ {c} : runtimes'[d] = runtimes[d]
    BY DEF Places, ReloadTyped
<1>3. ReloadTyped'
    BY <1>1, <1>2 DEF ReloadTyped, Places
<1>4. ReloadsAreSound'
    BY <1>1 DEF ReloadsAreSound, Sound
<1>5. new # None => /\ \A d \in Connectors : runtimes[d] # None => runtimes[d].slot # new.slot
                    /\ \A q \in Reloads : reload[q].victim # None => reload[q].victim # new.slot
    BY Referred DEF Places
<1>6. VictimsAreOwn'
  <2> SUFFICES ASSUME NEW q \in Reloads, reload'[q].victim # None, NEW d \in Connectors,
                      d # reload'[q].connector, runtimes'[d] # None
               PROVE  runtimes'[d].slot # reload'[q].victim
      BY DEF VictimsAreOwn, VictimIsOwn
  <2>1. q # r /\ reload'[q] = reload[q]
      BY <1>1 DEF Places
  <2>2. CASE d = c
      BY <1>2, <1>5, <2>1, <2>2
  <2>3. CASE d # c
      BY <1>2, <2>1, <2>3 DEF VictimsAreOwn, VictimIsOwn
  <2> QED
      BY <2>2, <2>3
<1>7. OneAtATime'
  BY <1>1 DEF InFlight, Places, OneAtATime
<1>8. VictimsAreCurrent'
  <2> SUFFICES ASSUME ~overlapped', NEW q \in Reloads, reload'[q].victim # None
               PROVE  FALSE
      BY DEF VictimsAreCurrent, VictimIsCurrent
  <2>1. q # r /\ reload'[q] = reload[q]
      BY <1>1 DEF Places
  <2>2. InFlight(q)
      BY <2>1 DEF ReloadsAreSound, Sound, InFlight
  <2> QED
      BY <2>1, <2>2 DEF OneAtATime, Places
<1>9. \A b, d \in Connectors : b # d /\ runtimes'[b] # None /\ runtimes'[d] # None
                                  => runtimes'[b].slot # runtimes'[d].slot
    BY <1>2, <1>5 DEF EntriesRun
<1>10. \A e : e \in Entries' <=> \/ new # None /\ e = new.slot
                                 \/ \E d \in Connectors \ {c} : runtimes[d] # None /\ e = runtimes[d].slot
    BY <1>2 DEF Entries
<1> QED
    BY <1>3, <1>4, <1>6, <1>7, <1>8, <1>9, <1>10

\* What is in the Map afterwards runs on, and nothing else if nothing else did.
LEMMA RunsOn ==
  ASSUME NEW running, NEW c \in Connectors, RunOn(running, c),
         running \subseteq Slots, stray \subseteq Connectors
  PROVE  /\ live' \subseteq Slots /\ stray' \subseteq Connectors
         /\ Entries' \subseteq running => Entries' \subseteq live'
         /\ running \subseteq Entries' => live' \subseteq Entries' /\ stray' = stray
BY DEF Entries, ReferredTo, RunOn

LEMMA LaunchKeeps ==
  ASSUME ReloadAssumption, ReloadIInv, NEW r \in Reloads,
         LET c == reload[r].connector
             new == Launched(c, reload[r].version)
         IN  /\ reload[r].pc = "authenticating"
             /\ runtimes[c] = None
             /\ runtimes' = [runtimes EXCEPT ![c] = new]
             /\ live' = live \cup {new.slot}
             /\ reload' = [reload EXCEPT ![r].pc = "next", ![r].wanted = @ \cup {c}],
         UNCHANGED <<config, edits, faults, stray, overlapped>>
  PROVE  ReloadIInv'
<1> DEFINE c == reload[r].connector
           new == Launched(c, reload[r].version)
<1>1. Sound(reload[r]) /\ reload[r] \in Standing
    BY DEF ReloadIInv, ReloadsAreSound, ReloadTyped
<1>2. c \in Connectors /\ reload[r].version \in 1..MaxEdits + 1
    BY <1>1 DEF Sound, Standing, ReloadAssumption
<1>3. new \in Entry /\ new # None /\ new.slot \notin ReferredTo(runtimes, reload)
    BY <1>2, LaunchIsFree DEF ReloadIInv
<1>4. PICK s : /\ Only(r, s)
               /\ s.pc = "next" /\ s.wanted = reload[r].wanted \cup {reload[r].connector}
               /\ s.todo = reload[r].todo /\ s.connector = reload[r].connector
               /\ s.version = reload[r].version /\ s.victim = reload[r].victim
    BY KeepMoves DEF ReloadIInv
<1>5. Sound(s) /\ s.victim = None
    BY <1>1, <1>4 DEF Sound
<1> HIDE DEF new
<1>6. Places(r, s, c, new)
    BY <1>3, <1>4, <1>5 DEF Places, InFlight, new
<1>7. live' = live \cup {new.slot} /\ live' \subseteq Slots /\ stray' \subseteq Connectors
    BY <1>3 DEF ReloadIInv, ReloadTyped, Entry, new
<1>8. /\ ReloadTyped' /\ ReloadsAreSound' /\ VictimsAreOwn'
      /\ OneAtATime' /\ VictimsAreCurrent'
      /\ \A b, d \in Connectors : b # d /\ runtimes'[b] # None /\ runtimes'[d] # None
                                      => runtimes'[b].slot # runtimes'[d].slot
      /\ \A e : e \in Entries' <=> \/ new # None /\ e = new.slot
                                   \/ \E d \in Connectors \ {c} : runtimes[d] # None /\ e = runtimes[d].slot
    BY <1>2, <1>3, <1>5, <1>6, <1>7, PlacingKeeps
<1>9. Entries' = Entries \cup {new.slot}
    BY <1>3, <1>8 DEF Entries
<1>10. EntriesRun'
    BY <1>7, <1>8, <1>9 DEF ReloadIInv, EntriesRun
<1>11. OneRuntimeEach'
    BY <1>7, <1>9 DEF ReloadIInv, OneRuntimeEach
<1> QED
    BY <1>8, <1>10, <1>11 DEF ReloadIInv

LEMMA StopKeeps ==
  ASSUME ReloadAssumption, ReloadIInv, NEW r \in Reloads, Replace(r) \/ Swept(r)
  PROVE  ReloadIInv'
<1> DEFINE c == reload[r].connector
           v == reload[r].victim
<1>1. Sound(reload[r]) /\ reload[r] \in Standing
    BY DEF ReloadIInv, ReloadsAreSound, ReloadTyped
<1>2. c \in Connectors /\ v # None
    BY <1>1 DEF Sound, Replace, Swept
<1>3. PICK new \in Entry \cup {None} :
          /\ new # None => new.slot \notin ReferredTo(runtimes, reload)
          /\ runtimes' = [runtimes EXCEPT ![c] = new]
          /\ RunOn((live \ {v}) \cup (IF new = None THEN {} ELSE {new.slot}), c)
  <2>1. CASE Replace(r)
    <3>1. reload[r].version \in 1..MaxEdits + 1
        BY <1>1, <2>1 DEF Sound, Standing, Replace, ReloadAssumption
    <3> DEFINE l == Launched(c, reload[r].version)
    <3>2. l \in Entry /\ l # None /\ l.slot \notin ReferredTo(runtimes, reload)
        BY <3>1, LaunchIsFree DEF ReloadIInv
    <3>3. runtimes' = [runtimes EXCEPT ![c] = l] /\ RunOn((live \ {v}) \cup {l.slot}, c)
        BY <2>1 DEF Replace
    <3> HIDE DEF l
    <3> QED
        BY <3>2, <3>3
  <2>2. CASE Swept(r)
    BY <2>2 DEF Swept
  <2> QED
      BY <2>1, <2>2
<1>4. PICK s : /\ Only(r, s)
               /\ s.pc = "next" /\ s.victim = None
               /\ s.todo = reload[r].todo /\ s.wanted = reload[r].wanted
               /\ s.connector = reload[r].connector /\ s.version = reload[r].version
    BY StopMoves DEF ReloadIInv
<1>5. Sound(s)
    BY <1>1, <1>4 DEF Sound
<1>6. Places(r, s, c, new)
    BY <1>3, <1>4 DEF Places, InFlight, Replace, Swept
<1> DEFINE running == (live \ {v}) \cup (IF new = None THEN {} ELSE {new.slot})
<1>7. running \subseteq Slots /\ stray \subseteq Connectors
    BY DEF ReloadIInv, ReloadTyped, Entry
<1>8. /\ live' \subseteq Slots /\ stray' \subseteq Connectors
      /\ Entries' \subseteq running => Entries' \subseteq live'
      /\ running \subseteq Entries' => live' \subseteq Entries' /\ stray' = stray
  <2> HIDE DEF running
  <2> QED
      BY <1>2, <1>3, <1>7, RunsOn DEF running
<1>9. /\ ReloadTyped' /\ ReloadsAreSound' /\ VictimsAreOwn'
      /\ OneAtATime' /\ VictimsAreCurrent'
      /\ \A b, d \in Connectors : b # d /\ runtimes'[b] # None /\ runtimes'[d] # None
                                      => runtimes'[b].slot # runtimes'[d].slot
      /\ \A e : e \in Entries' <=> \/ new # None /\ e = new.slot
                                   \/ \E d \in Connectors \ {c} : runtimes[d] # None /\ e = runtimes[d].slot
    BY <1>2, <1>5, <1>6, <1>8, PlacingKeeps
<1>10. Entries' \subseteq running
  <2> SUFFICES ASSUME NEW d \in Connectors \ {c}, runtimes[d] # None
               PROVE  runtimes[d].slot \in live \ {v}
      BY <1>9
  <2> QED
      BY <1>2 DEF ReloadIInv, VictimsAreOwn, VictimIsOwn, EntriesRun, Entries
<1>11. EntriesRun'
    BY <1>8, <1>9, <1>10 DEF EntriesRun
<1>12. ~overlapped => running \subseteq Entries'
  <2> SUFFICES ASSUME ~overlapped, NEW e \in live, e # v PROVE e \in Entries'
      BY <1>9
  <2>1. runtimes[c] # None /\ runtimes[c].slot = v
      BY <1>2 DEF ReloadIInv, VictimsAreCurrent, VictimIsCurrent
  <2>2. PICK d \in Connectors : runtimes[d] # None /\ e = runtimes[d].slot
      BY DEF ReloadIInv, OneRuntimeEach, Entries
  <2> QED
      BY <1>9, <2>1, <2>2
<1>13. OneRuntimeEach'
    BY <1>6, <1>8, <1>10, <1>12 DEF ReloadIInv, OneRuntimeEach, Places
<1> QED
    BY <1>9, <1>11, <1>13 DEF ReloadIInv

LEMMA EditKeeps ==
  ASSUME ReloadAssumption, ReloadIInv, NEW c \in Connectors, Edit(c)
  PROVE  ReloadIInv'
<1>1. config' \in [Connectors -> 0..MaxEdits + 1] /\ edits' \in 0..MaxEdits
    BY DEF Edit, ReloadIInv, ReloadTyped, ReloadAssumption
<1>2. ReloadTyped'
    BY <1>1 DEF Edit, workers, ReloadIInv, ReloadTyped
<1>3. /\ ReloadsAreSound' /\ VictimsAreOwn' /\ EntriesRun'
      /\ OneAtATime' /\ VictimsAreCurrent' /\ OneRuntimeEach'
    BY DEF Edit, workers, ReloadIInv, ReloadsAreSound, VictimsAreOwn, VictimIsOwn, EntriesRun, Entries,
           OneAtATime, InFlight, VictimsAreCurrent, VictimIsCurrent, OneRuntimeEach
<1> QED
    BY <1>2, <1>3 DEF ReloadIInv

\* A reload in flight is alone until reloads overlap.
LEMMA IsAlone ==
  ASSUME OneAtATime, NEW r \in Reloads, InFlight(r), overlapped' = overlapped
  PROVE  ~overlapped' => \A q \in Reloads \ {r} : ~InFlight(q)
  BY DEF OneAtATime

LEMMA QuietKeeps ==
  ASSUME ReloadAssumption, ReloadIInv, NEW r \in Reloads,
         \/ Begin(r) \/ AuthenticationFails(r) \/ End(r) \/ Fail(r)
         \/ \E c \in Connectors : Select(r, c) \/ SweepNext(r, c)
  PROVE  ReloadIInv'
<1> USE DEF ReloadIInv
<1>1. /\ Sound(reload[r]) /\ reload[r] \in Standing /\ VictimIsOwn(reload[r])
      /\ ~overlapped => VictimIsCurrent(reload[r])
      /\ config \in [Connectors -> 0..MaxEdits + 1] /\ edits \in 0..MaxEdits
      /\ faults \in 0..MaxFaults /\ overlapped \in BOOLEAN
    BY DEF ReloadsAreSound, ReloadTyped, VictimsAreOwn, VictimsAreCurrent
<1>2. CASE Begin(r)
  <2>1. PICK s : /\ Only(r, s)
                 /\ s.pc = "next" /\ s.wanted = {}
                 /\ s.connector = reload[r].connector /\ s.version = reload[r].version
                 /\ s.victim = reload[r].victim
      BY <1>2, BeginMoves
  <2>2. s.victim = None
      BY <1>1, <1>2, <2>1 DEF Sound, Begin, InFlight
  <2>3. Sound(s) /\ VictimIsOwn(s) /\ VictimIsCurrent(s)
      BY <2>1, <2>2 DEF Sound, VictimIsOwn, VictimIsCurrent
  <2>4. overlapped' = (overlapped \/ \E q \in Reloads : InFlight(q))
      BY <1>2 DEF Begin
  <2>5. /\ overlapped' \in BOOLEAN
        /\ overlapped => overlapped'
        /\ ~overlapped' => \A q \in Reloads \ {r} : ~InFlight(q)
      BY <2>4
  <2> QED
      BY <1>1, <1>2, <2>1, <2>3, <2>5, QuietStep DEF Begin
<1>3. CASE AuthenticationFails(r)
  <2>1. PICK s : /\ Only(r, s)
                 /\ s.pc = "next"
                 /\ s.todo = reload[r].todo /\ s.wanted = reload[r].wanted
                 /\ s.connector = reload[r].connector /\ s.version = reload[r].version
                 /\ s.victim = reload[r].victim
      BY <1>3, AuthenticationFailsMoves
  <2>2. s.victim = None
      BY <1>1, <1>3, <2>1 DEF Sound, AuthenticationFails
  <2>3. Sound(s) /\ VictimIsOwn(s) /\ VictimIsCurrent(s)
      BY <1>1, <2>1, <2>2 DEF Sound, VictimIsOwn, VictimIsCurrent
  <2>4. ~overlapped' => \A q \in Reloads \ {r} : ~InFlight(q)
      BY <1>3, IsAlone DEF AuthenticationFails, InFlight
  <2>5. faults' \in 0..MaxFaults
      BY <1>1, <1>3 DEF AuthenticationFails, ReloadAssumption
  <2> QED
      BY <1>1, <1>3, <2>1, <2>3, <2>4, <2>5, QuietStep DEF AuthenticationFails
<1>4. CASE End(r) \/ Fail(r)
  <2>1. PICK s : /\ Only(r, s)
                 /\ s.pc = "idle"
                 /\ s.todo = reload[r].todo /\ s.wanted = reload[r].wanted
                 /\ s.connector = reload[r].connector /\ s.version = reload[r].version
                 /\ s.victim = reload[r].victim
      BY <1>4, LeaveMoves
  <2>2. s.victim = None
      BY <1>1, <1>4, <2>1 DEF Sound, End, Fail
  <2>3. Sound(s) /\ VictimIsOwn(s) /\ VictimIsCurrent(s)
      BY <1>1, <2>1, <2>2 DEF Sound, VictimIsOwn, VictimIsCurrent
  <2>4. faults' \in 0..MaxFaults /\ UNCHANGED <<config, edits, workers, overlapped>>
      BY <1>1, <1>4 DEF End, Fail, ReloadAssumption
  <2> QED
      BY <1>1, <2>1, <2>3, <2>4, QuietStep
<1>5. ASSUME NEW c \in Connectors, Select(r, c)
      PROVE  ReloadIInv'
  <2>1. PICK s : /\ Only(r, s)
                 /\ s.todo = reload[r].todo \ {c}
                 /\ s.pc = (IF config[c] = 0 THEN "next" ELSE "authenticating")
                 /\ s.connector = c /\ s.version = config[c]
                 /\ s.wanted = reload[r].wanted /\ s.victim = reload[r].victim
      BY <1>5, SelectMoves
  <2>2. s.victim = None
      BY <1>1, <1>5, <2>1 DEF Sound, Select
  <2>3. Sound(s) /\ VictimIsOwn(s) /\ VictimIsCurrent(s)
      BY <1>1, <2>1, <2>2 DEF Sound, VictimIsOwn, VictimIsCurrent
  <2>4. ~overlapped' => \A q \in Reloads \ {r} : ~InFlight(q)
      BY <1>5, IsAlone DEF Select, InFlight
  <2> QED
      BY <1>1, <1>5, <2>1, <2>3, <2>4, QuietStep DEF Select
<1>6. ASSUME NEW c \in Connectors, SweepNext(r, c)
      PROVE  ReloadIInv'
  <2>1. PICK s : /\ Only(r, s)
                 /\ s.pc = "sweeping" /\ s.connector = c /\ s.victim = runtimes[c].slot
                 /\ s.todo = reload[r].todo /\ s.wanted = reload[r].wanted /\ s.version = reload[r].version
      BY <1>6, SweepMoves
  <2>2. runtimes[c] # None /\ runtimes[c].slot \in Slots
      BY <1>6 DEF SweepNext, Unwanted, ReloadTyped, Entry
  <2>3. runtimes[c].slot # None
      BY <2>2, FS_CardinalityType DEF Slots, ReloadAssumption
  <2>4. Sound(s) /\ VictimIsCurrent(s)
      BY <1>1, <2>1, <2>2, <2>3 DEF Sound, VictimIsCurrent
  <2>5. VictimIsOwn(s)
      BY <2>1, <2>2 DEF VictimIsOwn, EntriesRun
  <2>6. ~overlapped' => \A q \in Reloads \ {r} : ~InFlight(q)
      BY <1>6, IsAlone DEF SweepNext, InFlight
  <2> QED
      BY <1>1, <1>6, <2>1, <2>4, <2>5, <2>6, QuietStep DEF SweepNext
<1> QED
    BY <1>2, <1>3, <1>4, <1>5, <1>6

LEMMA AuthenticatedKeeps ==
  ASSUME ReloadAssumption, ReloadIInv, NEW r \in Reloads, Authenticated(r)
  PROVE  ReloadIInv'
<1> DEFINE c == reload[r].connector
<1>1. /\ Sound(reload[r]) /\ reload[r] \in Standing
      /\ config \in [Connectors -> 0..MaxEdits + 1] /\ edits \in 0..MaxEdits
      /\ faults \in 0..MaxFaults /\ overlapped \in BOOLEAN
    BY DEF ReloadIInv, ReloadsAreSound, ReloadTyped
<1>2. c \in Connectors /\ reload[r].pc = "authenticating" /\ reload[r].victim = None
    BY <1>1 DEF Sound, Authenticated
<1>3. ~overlapped' => \A q \in Reloads \ {r} : ~InFlight(q)
    BY <1>2, IsAlone DEF ReloadIInv, Authenticated, InFlight
<1>4. CASE runtimes[c] # None /\ runtimes[c].version = reload[r].version
  <2>1. PICK s : /\ Only(r, s)
                 /\ s.pc = "next" /\ s.wanted = reload[r].wanted \cup {reload[r].connector}
                 /\ s.todo = reload[r].todo /\ s.connector = reload[r].connector
                 /\ s.version = reload[r].version /\ s.victim = reload[r].victim
      BY <1>2, <1>4, KeepMoves DEF ReloadIInv, Authenticated
  <2>2. Sound(s) /\ VictimIsOwn(s) /\ VictimIsCurrent(s)
      BY <1>1, <1>2, <2>1 DEF Sound, VictimIsOwn, VictimIsCurrent
  <2>3. UNCHANGED workers /\ UNCHANGED <<config, edits, faults, overlapped>>
      BY <1>4 DEF Authenticated, workers
  <2> QED
      BY <1>1, <1>3, <2>1, <2>2, <2>3, QuietStep
<1>5. CASE runtimes[c] # None /\ runtimes[c].version # reload[r].version
  <2>1. PICK s : /\ Only(r, s)
                 /\ s.pc = "replacing" /\ s.wanted = reload[r].wanted \cup {reload[r].connector}
                 /\ s.victim = runtimes[reload[r].connector].slot
                 /\ s.todo = reload[r].todo /\ s.connector = reload[r].connector
                 /\ s.version = reload[r].version
      BY <1>2, <1>5, ReplaceMoves DEF ReloadIInv, Authenticated
  <2>2. runtimes[c].slot \in Slots
      BY <1>2, <1>5 DEF ReloadIInv, ReloadTyped, Entry
  <2>3. runtimes[c].slot # None
      BY <2>2, FS_CardinalityType DEF Slots, ReloadAssumption
  <2>4. Sound(s) /\ VictimIsCurrent(s)
      BY <1>1, <1>2, <1>5, <2>1, <2>3 DEF Sound, VictimIsCurrent
  <2>5. VictimIsOwn(s)
      BY <1>2, <1>5, <2>1 DEF VictimIsOwn, ReloadIInv, EntriesRun
  <2>6. UNCHANGED workers /\ UNCHANGED <<config, edits, faults, overlapped>>
      BY <1>5 DEF Authenticated, workers
  <2> QED
      BY <1>1, <1>3, <2>1, <2>4, <2>5, <2>6, QuietStep
<1>6. CASE runtimes[c] = None
    BY <1>6, LaunchKeeps DEF Authenticated
<1> QED
    BY <1>4, <1>5, <1>6

LEMMA ReloadStarts == ReloadAssumption /\ ReloadInit => ReloadIInv
<1> SUFFICES ASSUME ReloadAssumption, ReloadInit PROVE ReloadIInv
    OBVIOUS
<1>1. Idle \in Standing /\ Idle.pc = "idle" /\ Idle.victim = None /\ Sound(Idle)
    BY DEF Idle, Standing, Sound
<1> HIDE DEF Idle
<1>2. ReloadTyped
  <2>1. config \in [Connectors -> 0..MaxEdits + 1] /\ edits \in 0..MaxEdits /\ faults \in 0..MaxFaults
      BY DEF ReloadInit, ReloadAssumption
  <2>2. runtimes \in [Connectors -> Entry \cup {None}] /\ reload \in [Reloads -> Standing]
      BY <1>1 DEF ReloadInit
  <2> QED
      BY <2>1, <2>2 DEF ReloadInit, ReloadTyped
<1>3. ReloadsAreSound /\ VictimsAreOwn /\ VictimsAreCurrent
    BY <1>1 DEF ReloadInit, ReloadsAreSound, VictimsAreOwn, VictimIsOwn, VictimsAreCurrent, VictimIsCurrent
<1>4. OneAtATime
    BY <1>1 DEF ReloadInit, OneAtATime, InFlight
<1>5. Entries = {}
    BY DEF ReloadInit, Entries
<1>6. EntriesRun /\ OneRuntimeEach
    BY <1>5 DEF ReloadInit, EntriesRun, OneRuntimeEach
<1> QED
    BY <1>2, <1>3, <1>4, <1>6 DEF ReloadIInv

LEMMA ReloadStutters == ReloadIInv /\ UNCHANGED reloadVars => ReloadIInv'
  BY DEF reloadVars, workers, ReloadIInv, ReloadTyped, ReloadsAreSound, VictimsAreOwn, VictimIsOwn, EntriesRun,
         Entries, OneAtATime, InFlight, VictimsAreCurrent, VictimIsCurrent, OneRuntimeEach

LEMMA ReloadKeeps == ReloadAssumption /\ ReloadIInv /\ ReloadNext => ReloadIInv'
  BY EditKeeps, QuietKeeps, AuthenticatedKeeps, StopKeeps DEF ReloadNext, ReloadStep

LEMMA ReloadIsEnough == ReloadIInv => ReloadInv
<1> SUFFICES ASSUME ReloadIInv PROVE ReloadInv
    OBVIOUS
<1>1. ASSUME NEW r \in Reloads
      PROVE  /\ reload[r].pc \in {"idle", "next", "authenticating", "replacing", "sweeping"}
             /\ reload[r].todo \cup reload[r].wanted \subseteq Connectors
             /\ reload[r].todo \cap reload[r].wanted = {}
             /\ reload[r].connector \in Connectors \cup {None}
             /\ reload[r].version \in 0..MaxEdits + 1
             /\ reload[r].victim \in Slots \cup {None}
    BY DEF ReloadIInv, ReloadTyped, ReloadsAreSound, Sound, Standing
<1>2. ReloadTypeOK
    BY <1>1 DEF ReloadTypeOK, ReloadIInv, ReloadTyped, Entry
<1> QED
    BY <1>2 DEF ReloadIInv, ReloadInv

-----------------------------------------------------------------------------
(***************************************************************************)
(* The data plane.  Health on the wire is that of the process which runs   *)
(* or has just gone, because the wire is empty when the next is started.   *)
(* A mirror that is to be started has no frames left, so its pipe need not *)
(* be blocked.  Once the shutdown has begun no restart is scheduled.       *)
(***************************************************************************)

MirrorFields ==
    {"child", "restart", "pending", "flush", "dropped", "outbound", "blocked", "accepted", "stopping"}

WorkerFields == {"child", "run", "health", "restart", "stopping"}

IsSequence(s) == \E S : s \in Seq(S)

\* The messages of a worker, and the health in them that of the given run.
Bears(f, run) == f.kind \in {"health", "command", "telemetry"} /\ (f.kind = "health" => f.about = run)

Carries(w, run) == \E S : w \in Seq(S) /\ \A f \in S : Bears(f, run)

\* A mirror that is about to write its frames, and one that has done so.
Writable(m) ==
    /\ DOMAIN m = MirrorFields
    /\ IsSequence(m.outbound)
    /\ m.pending # <<>> => m.flush
    /\ m.restart => m.child = "none" /\ m.outbound = <<>>

MirrorIsSound(m) == Writable(m) /\ (m.child = "running" /\ m.outbound # <<>> => m.blocked)

WorkerIsSound ==
    /\ DOMAIN worker = WorkerFields
    /\ worker.health \in {0, worker.run}
    /\ worker.restart => worker.child = "none"

\* Before the server listens nothing has happened.
StartsEmpty ==
    server = "starting" => /\ mirror = EmptyMirror /\ wire = <<>>
                           /\ worker.child = "none" /\ ~worker.restart

\* The shutdown schedules no restart, and leaves no worker behind.
Winds ==
    /\ server \in {"closing worker", "close mirror", "closing mirror", "done"} => worker.stopping /\ ~worker.restart
    /\ server \in {"close mirror", "closing mirror", "done"} => worker.child = "none"

PlaneIInv ==
    /\ WorkerIsSound
    /\ Carries(wire, worker.run)
    /\ sink.pending # <<>> => sink.timer
    /\ MirrorIsSound(mirror)
    /\ StartsEmpty
    /\ Winds


\* Sequences of anything, and what is carried.
LEMMA EmptyCarries == ASSUME NEW run PROVE Carries(<<>>, run)
<1> DEFINE Nothing == {}
<1>1. <<>> \in Seq(Nothing) /\ \A f \in Nothing : Bears(f, run)
    OBVIOUS
<1> HIDE DEF Nothing
<1> QED
    BY <1>1, Zenon DEF Carries

LEMMA AppendCarries ==
  ASSUME NEW w, NEW run, Carries(w, run), NEW f, Bears(f, run)
  PROVE  Carries(Append(w, f), run)
<1> PICK S : w \in Seq(S) /\ \A g \in S : Bears(g, run)
    BY DEF Carries
<1>1. Append(w, f) \in Seq(S \cup {f})
  <2>1. w \in Seq(S \cup {f})
      BY SeqMonotonic, Zenon
  <2> QED
      BY <2>1
<1>2. \A g \in S \cup {f} : Bears(g, run)
    BY Zenon
<1> QED
    BY <1>1, <1>2, Zenon DEF Carries

LEMMA PrefixCarries ==
  ASSUME NEW w, NEW run, Carries(w, run), NEW n \in 0..Len(w)
  PROVE  Carries(SubSeq(w, 1, n), run)
<1> PICK S : w \in Seq(S) /\ \A g \in S : Bears(g, run)
    BY DEF Carries
<1>1. SubSeq(w, 1, n) \in Seq(S)
    OBVIOUS
<1> QED
    BY <1>1, Zenon DEF Carries

LEMMA TailCarries ==
  ASSUME NEW w, NEW run, Carries(w, run), w # <<>>
  PROVE  Carries(Tail(w), run) /\ Bears(Head(w), run)
<1> PICK S : w \in Seq(S) /\ \A g \in S : Bears(g, run)
    BY DEF Carries
<1>1. Tail(w) \in Seq(S) /\ Head(w) \in S
    OBVIOUS
<1> QED
    BY <1>1, Zenon DEF Carries

LEMMA EmptyIsSequence == IsSequence(<<>>)
<1>1. <<>> \in Seq({})
    OBVIOUS
<1> QED
    BY <1>1, Zenon DEF IsSequence

LEMMA AppendIsSequence ==
  ASSUME NEW s, IsSequence(s), NEW f PROVE IsSequence(Append(s, f))
<1> PICK S : s \in Seq(S)
    BY DEF IsSequence
<1>1. s \in Seq(S \cup {f})
    BY SeqMonotonic, Zenon
<1>2. Append(s, f) \in Seq(S \cup {f})
    BY <1>1
<1> QED
    BY <1>2, Zenon DEF IsSequence

\* What is left after the first n: nothing, if these were all.
LEMMA RestIsSequence ==
  ASSUME NEW s, IsSequence(s), NEW n \in DOMAIN s
  PROVE  /\ IsSequence(SubSeq(s, n + 1, Len(s)))
         /\ n < Len(s) \/ SubSeq(s, n + 1, Len(s)) = <<>>
<1> PICK S : s \in Seq(S)
    BY DEF IsSequence
<1>1. n \in 1..Len(s) /\ Len(s) \in Nat
    OBVIOUS
<1>2. SubSeq(s, n + 1, Len(s)) \in Seq(S)
    BY <1>1
<1>3. n < Len(s) \/ SubSeq(s, n + 1, Len(s)) = <<>>
    BY <1>1
<1> QED
    BY <1>2, <1>3, Zenon DEF IsSequence

LEMMA RemovedIsSequence ==
  ASSUME NEW s, IsSequence(s), NEW i \in DOMAIN s
  PROVE  IsSequence(RemoveAt(s, i))
<1> PICK S : s \in Seq(S)
    BY DEF IsSequence
<1>1. i \in 1..Len(s) /\ Len(s) \in Nat
    OBVIOUS
<1>2. SubSeq(s, 1, i - 1) \in Seq(S) /\ SubSeq(s, i + 1, Len(s)) \in Seq(S)
    BY <1>1
<1>3. RemoveAt(s, i) \in Seq(S)
    BY <1>2 DEF RemoveAt
<1> QED
    BY <1>3, Zenon DEF IsSequence

\* The oldest of some frames.
LEMMA OldestExists ==
  ASSUME NEW T, T \subseteq Nat, T # {}
  PROVE  (CHOOSE i \in T : \A j \in T : i <= j) \in T
<1>1. PICK i \in T : \A j \in T : ~(<<j, i>> \in OpToRel(<, Nat))
    BY NatLessThanWellFounded, WFMin, Zenon
<1>2. \A j \in T : ~(j < i)
    BY <1>1 DEF OpToRel
<1>3. \A j \in T : i <= j
    BY <1>2
<1> QED
    BY <1>3

LEMMA PlaneStarts == PlaneInit => PlaneIInv
<1> SUFFICES ASSUME PlaneInit PROVE PlaneIInv
    OBVIOUS
<1>1. MirrorIsSound(EmptyMirror)
    BY EmptyIsSequence DEF MirrorIsSound, Writable, EmptyMirror, MirrorFields
<1>2. WorkerIsSound
    BY DEF PlaneInit, WorkerIsSound, WorkerFields
<1>3. Carries(wire, worker.run)
    BY EmptyCarries DEF PlaneInit
<1>4. sink.pending = <<>>
    BY DEF PlaneInit, EmptySink
<1>5. StartsEmpty /\ Winds
    BY DEF PlaneInit, StartsEmpty, Winds
<1>6. mirror = EmptyMirror
    BY DEF PlaneInit
<1> QED
    BY <1>1, <1>2, <1>3, <1>4, <1>5, <1>6 DEF PlaneIInv

LEMMA PlaneStutters == PlaneIInv /\ UNCHANGED planeVars => PlaneIInv'
  BY DEF planeVars, PlaneIInv, WorkerIsSound, StartsEmpty, Winds

LEMMA PlaneIsEnough == PlaneIInv => PlaneInv
  BY DEF PlaneIInv, PlaneInv, WorkerIsSound, MirrorIsSound, Writable, Winds,
         HealthIsOfThisRun, NothingIsForgotten, NothingLeft

\* #drainOutbound stops at a full pipe or at the end of the queue.
LEMMA DrainedIsSound ==
  ASSUME NEW m, Writable(m), Drained(m)
  PROVE  MirrorIsSound(mirror')
<1>1. CASE m.blocked \/ m.outbound = <<>>
    BY <1>1 DEF Drained, MirrorIsSound
<1>2. CASE ~(m.blocked \/ m.outbound = <<>>)
  <2>1. PICK n \in DOMAIN m.outbound, full \in BOOLEAN :
            /\ n < Len(m.outbound) => full
            /\ mirror' = [m EXCEPT !.outbound = SubSeq(m.outbound, n + 1, Len(m.outbound)), !.blocked = full]
      BY <1>2 DEF Drained
  <2> DEFINE rest == SubSeq(m.outbound, n + 1, Len(m.outbound))
  <2>2. IsSequence(rest) /\ (n < Len(m.outbound) \/ rest = <<>>)
      BY RestIsSequence DEF Writable
  <2> HIDE DEF rest
  <2>3. mirror' = [m EXCEPT !.outbound = rest, !.blocked = full]
      BY <2>1 DEF rest
  <2>4. /\ DOMAIN mirror' = MirrorFields
        /\ mirror'.outbound = rest /\ mirror'.blocked = full
        /\ mirror'.child = m.child /\ mirror'.restart = m.restart
        /\ mirror'.pending = m.pending /\ mirror'.flush = m.flush
      BY <2>3 DEF Writable, MirrorFields
  <2>5. m.child = "running"
      BY DEF Drained
  <2> QED
      BY <2>1, <2>2, <2>4, <2>5 DEF MirrorIsSound, Writable
<1> QED
    BY <1>1, <1>2

\* A frame gives way, and the others stay a sequence.
LEMMA RoomIsSound ==
  ASSUME NEW m, Writable(m)
  PROVE  /\ DOMAIN Room(m) = MirrorFields
         /\ IsSequence(Room(m).outbound)
         /\ Room(m).child = m.child /\ Room(m).restart = m.restart
         /\ Room(m).pending = m.pending /\ Room(m).flush = m.flush
<1> DEFINE telemetry == {i \in DOMAIN m.outbound : m.outbound[i].kind = "telemetry"}
           i == CHOOSE i \in telemetry : \A j \in telemetry : i <= j
<1>1. CASE Len(m.outbound) < MaxOutbound \/ telemetry = {}
    BY <1>1 DEF Room, Writable
<1>2. CASE ~(Len(m.outbound) < MaxOutbound \/ telemetry = {})
  <2>1. DOMAIN m.outbound \subseteq Nat
    BY DEF Writable, IsSequence
  <2>2. telemetry \subseteq Nat /\ telemetry # {}
      BY <1>2, <2>1
  <2> HIDE DEF telemetry
  <2>3. i \in telemetry
      BY <2>2, OldestExists
  <2> HIDE DEF i
  <2>4. IsSequence(RemoveAt(m.outbound, i))
      BY <2>3, RemovedIsSequence DEF Writable, telemetry
  <2> DEFINE out == RemoveAt(m.outbound, i)
  <2>5. Room(m) = [m EXCEPT !.outbound = out]
      BY <1>2 DEF Room, telemetry, i
  <2> HIDE DEF out
  <2>6. IsSequence(out)
      BY <2>4 DEF out
  <2> QED
      BY <2>5, <2>6 DEF Writable, MirrorFields
<1> QED
    BY <1>1, <1>2

LEMMA EnqueueIsSound ==
  ASSUME NEW m, MirrorIsSound(m), NEW frame, Enqueue(m, frame)
  PROVE  MirrorIsSound(mirror')
<1> DEFINE room == Room(m)
<1>1. /\ DOMAIN room = MirrorFields
      /\ IsSequence(room.outbound)
      /\ room.child = m.child /\ room.restart = m.restart
      /\ room.pending = m.pending /\ room.flush = m.flush
    BY RoomIsSound DEF MirrorIsSound
<1>2. CASE m.child # "running" \/ Len(room.outbound) >= MaxOutbound
    BY <1>2 DEF Enqueue
<1>3. CASE ~(m.child # "running" \/ Len(room.outbound) >= MaxOutbound)
  <2> DEFINE out == Append(room.outbound, frame)
             acc == IF frame.kind = "command" THEN Append(room.accepted, frame.about) ELSE room.accepted
             next == [room EXCEPT !.outbound = out, !.accepted = acc]
  <2>1. Drained(next)
      BY <1>3 DEF Enqueue
  <2>2. IsSequence(out)
      BY <1>1, AppendIsSequence
  <2> HIDE DEF out, acc, room
  <2>3. Writable(next)
      BY <1>1, <1>3, <2>2 DEF Writable, MirrorFields, MirrorIsSound
  <2> HIDE DEF next
  <2> QED
      BY <2>1, <2>3, DrainedIsSound
<1> QED
    BY <1>2, <1>3

LEMMA FlushIsSound ==
  ASSUME NEW m, MirrorIsSound(m), Flush(m)
  PROVE  MirrorIsSound(mirror')
<1>1. CASE m.pending = <<>>
  BY <1>1 DEF Flush, MirrorIsSound, Writable, MirrorFields
<1>2. CASE m.pending # <<>>
  <2> DEFINE rest == [m EXCEPT !.flush = FALSE, !.pending = <<>>, !.dropped = 0]
  <2>1. Enqueue(rest, Telemetry(m.pending, m.dropped))
      BY <1>2 DEF Flush
  <2>2. MirrorIsSound(rest)
      BY DEF MirrorIsSound, Writable, MirrorFields
  <2> HIDE DEF rest
  <2> QED
      BY <2>1, <2>2, EnqueueIsSound
<1> QED
    BY <1>1, <1>2

\* A batch is a telemetry frame or nothing.
LEMMA BatchCarries ==
  ASSUME NEW run, Carries(wire, run)
  PROVE  Carries(wire \o Batch, run)
<1>1. CASE sink.pending = <<>>
  BY <1>1 DEF Carries, Batch
<1>2. CASE sink.pending # <<>>
  <2> DEFINE f == Telemetry(sink.pending, sink.dropped)
  <2>1. Bears(f, run)
      BY DEF Bears, Telemetry, Frame
  <2> HIDE DEF f
  <2>2. Batch = <<f>>
      BY <1>2 DEF Batch, f
  <2>3. PICK S : wire \in Seq(S)
      BY DEF Carries
  <2>4. wire \in Seq(S \cup {f})
      BY <2>3, SeqMonotonic, Zenon
  <2>5. wire \o <<f>> = Append(wire, f)
      BY <2>4
  <2> QED
      BY <2>1, <2>2, <2>5, AppendCarries
<1> QED
    BY <1>1, <1>2

\* The worker process: nothing of the server changes.
LEMMA WorkerProcessKeeps ==
  ASSUME PlaneIInv,
         \/ \E t \in PlaneTags : Publish(t)
         \/ SinkFlush \/ SendCommand \/ SendHealth \/ WorkerExits
  PROVE  PlaneIInv'
<1> USE DEF PlaneIInv
<1>1. mirror' = mirror /\ server' = server
    BY DEF Publish, SinkFlush, SendCommand, SendHealth, WorkerExits
<1>2. WorkerRuns
    BY DEF Publish, SinkFlush, SendCommand, SendHealth, WorkerExits
<1>3. server # "starting" /\ server \notin {"close mirror", "closing mirror", "done"}
    BY <1>2 DEF StartsEmpty, Winds, WorkerRuns
<1>4. StartsEmpty' /\ MirrorIsSound(mirror)'
    BY <1>1, <1>3 DEF StartsEmpty
<1>5. /\ DOMAIN worker' = WorkerFields
      /\ worker'.run = worker.run
      /\ worker'.stopping = worker.stopping
      /\ worker'.health \in {0, worker.run}
      /\ worker'.restart => worker'.child = "none" /\ ~worker.stopping
  <2>1. CASE WorkerExits
    <3> DEFINE b == ~worker.stopping
    <3>1. worker' = [worker EXCEPT !.child = "none", !.health = 0, !.restart = b]
        BY <2>1 DEF WorkerExits
    <3>2. b => ~worker.stopping
        OBVIOUS
    <3> HIDE DEF b
    <3>3. /\ DOMAIN worker' = WorkerFields /\ worker'.run = worker.run /\ worker'.stopping = worker.stopping
          /\ worker'.health = 0 /\ worker'.restart = b /\ worker'.child = "none"
        BY <3>1 DEF WorkerIsSound, WorkerFields
    <3> QED
        BY <3>2, <3>3
  <2>2. CASE ~WorkerExits
    BY <2>2, <1>2 DEF Publish, SinkFlush, SendCommand, SendHealth, WorkerIsSound, WorkerRuns
  <2> QED
      BY <2>1, <2>2
<1>6. WorkerIsSound' /\ Winds'
    BY <1>1, <1>3, <1>5 DEF WorkerIsSound, Winds
<1>7. Carries(wire', worker.run)
  <2>1. CASE \E t \in PlaneTags : Publish(t)
      BY <2>1 DEF Publish
  <2>2. CASE SinkFlush
      BY <2>2, BatchCarries DEF SinkFlush
  <2>3. CASE SendCommand
    BY <2>3, AppendCarries DEF Bears, Frame, SendCommand
  <2>4. CASE SendHealth
    BY <2>4, AppendCarries DEF Bears, Frame, SendHealth
  <2>5. CASE WorkerExits
    BY PrefixCarries, BatchCarries, <2>5 DEF WorkerExits
  <2> QED
      BY <2>1, <2>2, <2>3, <2>4, <2>5
<1>8. (sink.pending # <<>> => sink.timer)'
  <2>1. CASE \E t \in PlaneTags : Publish(t)
    BY <2>1 DEF Publish
  <2>2. CASE SendCommand \/ SendHealth
      BY <2>2 DEF SendCommand, SendHealth
  <2>3. CASE SinkFlush \/ WorkerExits
      BY <2>3 DEF SinkFlush, WorkerExits, EmptySink
  <2> QED
      BY <2>1, <2>2, <2>3
<1> QED
    BY <1>4, <1>5, <1>6, <1>7, <1>8

\* A process that is started or cannot be started knows no health yet.
LEMMA SpawnedIsSound ==
  ASSUME DOMAIN worker = WorkerFields, SpawnWorker \/ SpawnFails
  PROVE  WorkerIsSound' /\ ~worker'.restart /\ worker'.stopping = worker.stopping
<1>1. PICK child \in {"running", "error"} :
          worker' = [worker EXCEPT !.child = child, !.run = worker.run + 1, !.restart = FALSE, !.health = 0]
    BY DEF SpawnWorker, SpawnFails
<1> DEFINE run == worker.run + 1
<1> HIDE DEF run
<1>2. worker' = [worker EXCEPT !.child = child, !.run = run, !.restart = FALSE, !.health = 0]
    BY <1>1 DEF run
<1> QED
    BY <1>2 DEF WorkerIsSound, WorkerFields

LEMMA SpawnedMirrorIsSound ==
  ASSUME MirrorIsSound(mirror), mirror.outbound = <<>>, SpawnMirror
  PROVE  MirrorIsSound(mirror')
<1>1. PICK full \in BOOLEAN :
          mirror' = [mirror EXCEPT !.child = "running", !.restart = FALSE, !.blocked = full, !.accepted = <<>>]
  BY DEF SpawnMirror
<1> QED
    BY <1>1 DEF MirrorIsSound, Writable, MirrorFields

LEMMA ServerKeeps ==
  ASSUME PlaneIInv, Listen \/ RestartWorker
  PROVE  PlaneIInv'
<1> USE DEF PlaneIInv
<1>1. WorkerIsSound' /\ ~worker'.restart /\ worker'.stopping = worker.stopping
    BY SpawnedIsSound DEF Listen, RestartWorker, WorkerIsSound
<1>2. wire' = <<>> /\ sink' = sink /\ server' # "starting" /\ server' \notin {"closing worker", "close mirror", "closing mirror", "done"}
    BY DEF Listen, RestartWorker, StartsEmpty, Winds
<1>3. MirrorIsSound(mirror')
  <2>1. CASE Listen
    BY <2>1, SpawnedMirrorIsSound DEF Listen, StartsEmpty, EmptyMirror
  <2>2. CASE RestartWorker
      BY <2>2 DEF RestartWorker
  <2> QED
      BY <2>1, <2>2
<1>4. Carries(wire', worker'.run)
    BY <1>2, EmptyCarries
<1> QED
    BY <1>1, <1>2, <1>3, <1>4 DEF StartsEmpty, Winds

\* A message arrives: the health of the worker's run, or something to mirror.
LEMMA ReceiveKeeps ==
  ASSUME PlaneIInv, Receive
  PROVE  PlaneIInv'
<1> USE DEF PlaneIInv
<1> DEFINE f == Head(wire)
<1>1. sink' = sink /\ server' = server /\ wire # <<>> /\ wire' = Tail(wire)
    BY DEF Receive
<1>2. Carries(wire', worker.run) /\ Bears(f, worker.run)
    BY <1>1, TailCarries
<1>3. server # "starting"
    BY <1>1 DEF StartsEmpty
<1>4. \/ f.kind = "health" /\ worker' = [worker EXCEPT !.health = f.about] /\ mirror' = mirror
      \/ worker' = worker /\ (mirror' = mirror \/ Enqueue(mirror, f))
      \/ worker' = worker /\ \E p, d : mirror' = [mirror EXCEPT !.pending = p, !.flush = TRUE, !.dropped = d]
  <2> DEFINE put == PutAll(mirror.pending, f.samples)
             total == mirror.dropped + put.out + f.dropped
  <2>1. CASE f.kind = "health"
      BY <2>1 DEF Receive
  <2>2. CASE f.kind = "command"
      BY <2>2 DEF Receive
  <2>3. CASE f.kind = "telemetry"
    <3>1. \/ mirror' = mirror
          \/ mirror' = [mirror EXCEPT !.pending = put.pending, !.flush = TRUE, !.dropped = total]
        BY <2>3 DEF Receive
    <3>2. worker' = worker
        BY <2>3 DEF Receive
    <3> HIDE DEF put, total
    <3> QED
        BY <3>1, <3>2
  <2> QED
      BY <2>1, <2>2, <2>3, <1>2 DEF Bears
<1> HIDE DEF f
<1>5. MirrorIsSound(mirror')
  BY <1>4, EnqueueIsSound DEF MirrorIsSound, Writable, MirrorFields
<1>6. /\ WorkerIsSound' /\ worker'.run = worker.run /\ worker'.child = worker.child
      /\ worker'.restart = worker.restart /\ worker'.stopping = worker.stopping
    BY <1>2, <1>4 DEF WorkerIsSound, WorkerFields, Bears
<1> QED
    BY <1>1, <1>2, <1>3, <1>5, <1>6 DEF StartsEmpty, Winds

LEMMA MirrorKeeps ==
  ASSUME PlaneIInv, MirrorFlush \/ PipeDrains \/ PipeBreaks \/ MirrorExits \/ RestartMirror
  PROVE  PlaneIInv'
<1> USE DEF PlaneIInv
<1>1. sink' = sink /\ wire' = wire /\ worker' = worker /\ server' = server
    BY DEF MirrorFlush, PipeDrains, PipeBreaks, MirrorExits, RestartMirror
<1>2. server # "starting"
    BY DEF MirrorFlush, PipeDrains, PipeBreaks, MirrorExits, RestartMirror, StartsEmpty, EmptyMirror
<1>3. MirrorIsSound(mirror')
  <2>1. CASE MirrorFlush
      BY <2>1, FlushIsSound DEF MirrorFlush
  <2>2. CASE PipeDrains
    <3> DEFINE m == [mirror EXCEPT !.blocked = FALSE]
    <3>1. Drained(m)
        BY <2>2 DEF PipeDrains
    <3>2. Writable(m)
        BY DEF MirrorIsSound, Writable, MirrorFields
    <3> HIDE DEF m
    <3> QED
        BY <3>1, <3>2, DrainedIsSound
  <2>3. CASE PipeBreaks
      BY <2>3 DEF PipeBreaks, MirrorIsSound, Writable, MirrorFields
  <2>4. CASE MirrorExits
    <3> DEFINE again == ~mirror.stopping
               flush == mirror.flush
               blocked == mirror.blocked
               stopping == mirror.stopping
    <3>1. mirror' = [EmptyMirror EXCEPT !.flush = flush, !.blocked = blocked, !.restart = again, !.stopping = stopping]
        BY <2>4 DEF MirrorExits
    <3> HIDE DEF again, flush, blocked, stopping
    <3>2. /\ DOMAIN mirror' = MirrorFields
          /\ mirror'.outbound = <<>> /\ mirror'.pending = <<>> /\ mirror'.child = "none"
        BY <3>1 DEF EmptyMirror, MirrorFields
    <3> QED
        BY <3>2, EmptyIsSequence DEF MirrorIsSound, Writable
  <2>5. CASE RestartMirror
    BY <2>5, SpawnedMirrorIsSound DEF RestartMirror, MirrorIsSound, Writable, MirrorFields
  <2> QED
      BY <2>1, <2>2, <2>3, <2>4, <2>5
<1> QED
    BY <1>1, <1>2, <1>3 DEF StartsEmpty, Winds, WorkerIsSound

LEMMA ShutdownKeeps ==
  ASSUME PlaneIInv, CloseWorker \/ CloseWorkerReturns \/ CloseMirror \/ CloseMirrorReturns
  PROVE  PlaneIInv'
<1> USE DEF PlaneIInv
<1>1. CASE CloseWorker
    BY <1>1 DEF CloseWorker, WorkerIsSound, WorkerFields, StartsEmpty, Winds
<1>2. CASE CloseWorkerReturns
  <2>1. mirror' = mirror /\ server' = "close mirror" /\ server = "closing worker"
      BY <1>2 DEF CloseWorkerReturns
  <2>2. CASE worker.child = "none"
      BY <1>2, <2>1, <2>2 DEF CloseWorkerReturns, WorkerIsSound, StartsEmpty, Winds
  <2>3. CASE worker.child # "none"
    <3>1. worker' = [worker EXCEPT !.child = "none"] /\ sink' = EmptySink /\ wire' = <<>>
        BY <1>2, <2>3 DEF CloseWorkerReturns
    <3>2. sink'.pending = <<>>
        BY <3>1 DEF EmptySink
    <3>3. Carries(wire', worker'.run)
        BY <3>1, EmptyCarries
    <3> QED
        BY <2>1, <3>1, <3>2, <3>3 DEF WorkerIsSound, WorkerFields, StartsEmpty, Winds
  <2> QED
      BY <2>2, <2>3
<1>3. CASE CloseMirror
  <2>1. sink' = sink /\ wire' = wire /\ worker' = worker /\ server' = "closing mirror" /\ server = "close mirror"
      BY <1>3 DEF CloseMirror
  <2> DEFINE m == [mirror EXCEPT !.stopping = TRUE, !.restart = FALSE]
  <2>2. Flush(m)
      BY <1>3 DEF CloseMirror
  <2>3. MirrorIsSound(m)
      BY DEF MirrorIsSound, Writable, MirrorFields
  <2> HIDE DEF m
  <2>4. MirrorIsSound(mirror')
      BY <2>2, <2>3, FlushIsSound
  <2> QED
      BY <2>1, <2>4 DEF StartsEmpty, Winds, WorkerIsSound
<1>4. CASE CloseMirrorReturns
  BY <1>4 DEF CloseMirrorReturns, MirrorIsSound, Writable, MirrorFields, StartsEmpty, Winds,
     WorkerIsSound
<1> QED
    BY <1>1, <1>2, <1>3, <1>4

LEMMA PlaneKeeps == PlaneIInv /\ PlaneNext => PlaneIInv'
  BY WorkerProcessKeeps, ServerKeeps, ReceiveKeeps, MirrorKeeps, ShutdownKeeps DEF PlaneNext

-----------------------------------------------------------------------------
(* The three at once, in the composition.                                  *)

ProcessIInv == RuntimeIInv /\ ReloadIInv /\ PlaneIInv

LEMMA ProcessInduction ==
  /\ Init => ProcessIInv
  /\ ProcessIInv /\ [Next]_processVars => ProcessIInv'
<1>1. Init => ProcessIInv
    BY RuntimeStarts, ReloadStarts, PlaneStarts, ReloadAssumption DEF Init, ProcessIInv
<1>2. ASSUME ProcessIInv, [Next]_processVars PROVE ProcessIInv'
  <2>1. RuntimeIInv'
      BY <1>2, RuntimeKeeps, RuntimeStutters, RuntimeAssumption DEF ProcessIInv, Next, processVars
  <2>2. ReloadIInv'
      BY <1>2, ReloadKeeps, ReloadStutters, ReloadAssumption DEF ProcessIInv, Next, processVars
  <2>3. PlaneIInv'
      BY <1>2, PlaneKeeps, PlaneStutters DEF ProcessIInv, Next, processVars
  <2> QED
      BY <2>1, <2>2, <2>3 DEF ProcessIInv
<1> QED
    BY <1>1, <1>2

\* While a runtime reconnects no tag is shown as good, and a runtime that has
\* stopped holds no connection but one opened too late for stop(); no two
\* connectors ever share a runtime, the Map names only runtimes that run, and
\* until two reloads overlap it names all of them; the health of a worker is
\* never that of its predecessor, nothing waits without its timer, and after
\* a shutdown no worker runs or is about to.
THEOREM ProcessesAreSafe == Spec => []ProcessInv
<1>1. Init => ProcessIInv
    BY ProcessInduction
<1>2. ProcessIInv /\ [Next]_processVars => ProcessIInv'
    BY ProcessInduction
<1>3. ProcessIInv => ProcessInv
    BY RuntimeIsEnough, ReloadIsEnough, PlaneIsEnough DEF ProcessIInv, ProcessInv
<1> QED
    BY <1>1, <1>2, <1>3, PTL DEF Spec

-----------------------------------------------------------------------------
(***************************************************************************)
(* Samples, statuses and counts on their way (FlowInv).  What is computed  *)
(* along a sequence (PutAll, Commands, Drops) is a function of the numbers *)
(* up to its length; such functions exist, agree and join by climbing from *)
(* 0, for a set of numbers that misses one misses a least one.             *)
(***************************************************************************)

\* Of numbers there is a least.
LEMMA Least ==
    ASSUME NEW T, T \subseteq Nat, T # {}
    PROVE  \E n \in T : \A m \in T : n <= m
<1>1. IsWellFoundedOn(OpToRel(<, Nat), Nat)
  BY NatLessThanWellFounded
<1>2. \E n \in T : \A m \in T : ~(<<m, n>> \in OpToRel(<, Nat))
  BY <1>1, WFMin, Zenon
<1>3. \A m, n \in Nat : m < n => <<m, n>> \in OpToRel(<, Nat)
  BY DEF OpToRel
<1>4. PICK n \in T : \A m \in T : ~(<<m, n>> \in OpToRel(<, Nat))
  BY <1>2
<1>5. \A m \in T : ~(m < n) /\ m \in Nat /\ n \in Nat
  BY <1>3, <1>4
<1>6. \A m \in T : n <= m
  BY <1>5
<1> QED BY <1>4, <1>6

\* What holds of 0, and of n when it holds of n - 1, holds up to L: the form in
\* which induction is used below, for a set T of the numbers it holds of.
LEMMA Climb ==
    ASSUME NEW L \in Nat, NEW T, 0 \in T, \A n \in 1..L : n - 1 \in T => n \in T
    PROVE  0..L \subseteq T
<1>. DEFINE Bad == {n \in 0..L : n \notin T}
<1>1. Bad \subseteq Nat
  OBVIOUS
<1>. SUFFICES ASSUME Bad # {} PROVE FALSE
  OBVIOUS
<1>2. PICK n \in Bad : \A m \in Bad : n <= m
  BY <1>1, Least
<1>3. n \in 1..L /\ n - 1 \in 0..L
  BY <1>2
<1>4. n - 1 \notin Bad
  BY <1>2, <1>3
<1>5. n - 1 \in T
  BY <1>3, <1>4
<1> QED BY <1>2, <1>3, <1>5

\* The last element of a set of places.
LEMMA LastPlace ==
    ASSUME NEW L \in Nat, NEW S, S \subseteq 1..L, S # {}
    PROVE  Max(S) \in S /\ \A i \in S : i <= Max(S)
<1>. DEFINE T == {L - i : i \in S}
<1>1. T \subseteq Nat /\ T # {}
  <2>1. \A i \in S : L - i \in Nat
    OBVIOUS
  <2>2. PICK i \in S : TRUE
    OBVIOUS
  <2>3. L - i \in T
    OBVIOUS
  <2> QED BY <2>1, <2>3
<1>2. PICK n \in T : \A m \in T : n <= m
  BY <1>1, Least
<1>3. PICK k \in S : n = L - k
  BY <1>2
<1>4. \A i \in S : i <= k
  <2>. TAKE i \in S
  <2>1. L - k <= L - i
    BY <1>2, <1>3
  <2> QED BY <2>1
<1>5. \E x \in S : \A y \in S : x >= y
  BY <1>4
<1>6. Max(S) \in S /\ \A y \in S : Max(S) >= y
  BY <1>5 DEF Max
<1> QED BY <1>6

\* A run of op over a sequence, from base.
Runs(f, base, op, s) ==
    /\ DOMAIN f = 0..Len(s)
    /\ f[0] = base
    /\ \A n \in 1..Len(s) : f[n] = op[<<f[n - 1], s[n]>>]

LEMMA RunExists ==
    ASSUME NEW A, NEW B, NEW base \in A, NEW op \in [A \X B -> A], NEW s \in Seq(B)
    PROVE  \E f \in [0..Len(s) -> A] : Runs(f, base, op, s)
<1>. DEFINE Part(n, f) == f \in [0..n -> A] /\ f[0] = base /\ \A i \in 1..n : f[i] = op[<<f[i - 1], s[i]>>]
            T == {n \in Nat : \E f : Part(n, f)}
<1>1. Len(s) \in Nat /\ \A i \in 1..Len(s) : s[i] \in B
  OBVIOUS
<1>2. 0 \in T
  <2>1. Part(0, [i \in 0..0 |-> base])
    OBVIOUS
  <2> QED BY <2>1
<1>3. ASSUME NEW n \in 1..Len(s), n - 1 \in T PROVE n \in T
  <2>1. PICK f : Part(n - 1, f)
    BY <1>3
  <2>. DEFINE g == [i \in 0..n |-> IF i = n THEN op[<<f[n - 1], s[n]>>] ELSE f[i]]
  <2>2. n \in Nat /\ n - 1 \in 0..(n - 1) /\ 0 \in 0..(n - 1) /\ n # 0
    BY <1>1
  <2>3. op[<<f[n - 1], s[n]>>] \in A
    BY <1>1, <2>1, <2>2
  <2>4. \A i \in 0..n : i # n => i \in 0..(n - 1)
    BY <2>2
  <2>5. g \in [0..n -> A]
    BY <2>1, <2>3, <2>4
  <2>6. \A i \in 0..(n - 1) : g[i] = f[i]
    BY <2>2
  <2>7. g[n] = op[<<f[n - 1], s[n]>>]
    BY <2>2
  <2>. HIDE DEF g
  <2>8. \A i \in 1..n : g[i] = op[<<g[i - 1], s[i]>>]
    <3>. TAKE i \in 1..n
    <3>1. i - 1 \in 0..(n - 1) /\ g[i - 1] = f[i - 1]
      BY <2>2, <2>6
    <3>2. CASE i = n
      BY <2>7, <3>1, <3>2
    <3>3. CASE i # n
      BY <2>2, <3>3, <2>1, <2>6, <3>1
    <3> QED BY <3>2, <3>3
  <2>9. g[0] = base
    BY <2>1, <2>2, <2>6
  <2>10. Part(n, g)
    BY <2>5, <2>8, <2>9
  <2> QED BY <2>2, <2>10
<1>. HIDE DEF T
<1>4. Len(s) \in T
  <2>1. 0..Len(s) \subseteq T
    BY <1>1, <1>2, <1>3, Climb
  <2> QED BY <1>1, <2>1
<1>5. PICK f : Part(Len(s), f)
  BY <1>4 DEF T
<1> QED BY <1>5 DEF Runs

\* Two runs agree as long as what they run over agrees.
LEMMA RunsAgree ==
    ASSUME NEW base, NEW op, NEW s, NEW t, Len(s) \in Nat, Len(t) \in Nat, NEW f, NEW g,
           Runs(f, base, op, s), Runs(g, base, op, t),
           NEW n \in Nat, n <= Len(s), n <= Len(t), \A i \in 1..n : s[i] = t[i]
    PROVE  f[n] = g[n]
<1>. DEFINE T == {i \in 0..n : f[i] = g[i]}
<1>1. 0 \in T
  BY DEF Runs
<1>2. ASSUME NEW i \in 1..n, i - 1 \in T PROVE i \in T
  <2>1. i \in 1..Len(s) /\ i \in 1..Len(t)
    OBVIOUS
  <2>2. f[i] = op[<<f[i - 1], s[i]>>] /\ g[i] = op[<<g[i - 1], t[i]>>]
    BY <2>1 DEF Runs
  <2>3. f[i - 1] = g[i - 1] /\ s[i] = t[i]
    BY <1>2
  <2> QED BY <2>2, <2>3
<1>. HIDE DEF T
<1>3. 0..n \subseteq T
  BY <1>1, <1>2, Climb
<1> QED BY <1>3 DEF T

LEMMA RunsMeet ==
    ASSUME NEW base, NEW op, NEW s, NEW w, Len(s) \in Nat, Len(w) \in Nat, NEW f, NEW h,
           Runs(f, base, op, w), Runs(h, base, op, s),
           Len(s) <= Len(w), \A i \in 1..Len(s) : w[i] = s[i]
    PROVE  f[Len(s)] = h[Len(s)]
<1>. DEFINE n == Len(s)
<1>1. n \in Nat /\ n <= Len(w) /\ n <= Len(s) /\ \A i \in 1..n : w[i] = s[i]
  OBVIOUS
<1>. HIDE DEF n
<1>2. f[n] = h[n]
  BY <1>1, RunsAgree
<1> QED BY <1>2 DEF n

-----------------------------------------------------------------------------
Numbers == Nat     \* a name, so that sequences of numbers are like any others

Sample == [tag : PlaneTags, seq : Nat]

\* A map of pending samples has one of a tag.
OnePerTag(p) == \A i, j \in DOMAIN p : p[i].tag = p[j].tag => i = j
Maps == {p \in Seq(Sample) : OnePerTag(p) /\ Len(p) <= MaxPending}

Frames ==
    {f \in [kind : {"telemetry", "command", "health"}, samples : Maps, dropped : Nat, about : Numbers] :
        /\ f.kind = "telemetry" => f.samples # <<>>
        /\ f.kind # "telemetry" => f.samples = <<>> /\ f.dropped = 0}

LEMMA NumbersOnto ==
    ASSUME NEW a \in Seq(Numbers), NEW b \in Seq(Numbers), NEW x \in Numbers
    PROVE  Append(a \o b, x) = a \o Append(b, x)
OBVIOUS

CommandStep == [p \in Seq(Numbers) \X Frames |->
                   IF p[2].kind = "command" THEN Append(p[1], p[2].about) ELSE p[1]]
DropStep == [p \in Nat \X Frames |-> p[1] + p[2].dropped]

LEMMA StepTypes == CommandStep \in [Seq(Numbers) \X Frames -> Seq(Numbers)] /\ DropStep \in [Nat \X Frames -> Nat]
BY DEF CommandStep, DropStep, Frames

\* Commands(frames) is the end of a run.
LEMMA CommandsRun ==
    ASSUME NEW s \in Seq(Frames)
    PROVE  \E f \in [0..Len(s) -> Seq(Numbers)] : Runs(f, <<>>, CommandStep, s) /\ Commands(s) = f[Len(s)]
<1>. DEFINE Body(g, n) == IF n = 0 THEN <<>> ELSE IF s[n].kind = "command" THEN Append(g[n - 1], s[n].about) ELSE g[n - 1]
            g == CHOOSE f : f = [n \in 0..Len(s) |-> Body(f, n)]
<1>0. Len(s) \in Nat /\ \A n \in 1..Len(s) : s[n] \in Frames /\ n # 0 /\ n - 1 \in 0..Len(s) /\ n \in 0..Len(s)
  OBVIOUS
<1>1. PICK f \in [0..Len(s) -> Seq(Numbers)] : Runs(f, <<>>, CommandStep, s)
  <2>1. <<>> \in Seq(Numbers)
    OBVIOUS
  <2> QED BY <2>1, StepTypes, RunExists, Zenon
<1>2. \A q \in Seq(Numbers), n \in 1..Len(s) :
         CommandStep[<<q, s[n]>>] = IF s[n].kind = "command" THEN Append(q, s[n].about) ELSE q
  BY <1>0 DEF CommandStep
<1>3. f = [n \in 0..Len(s) |-> Body(f, n)]
  <2>1. \A n \in 1..Len(s) : f[n] = Body(f, n)
    BY <1>0, <1>1, <1>2 DEF Runs
  <2>2. f[0] = Body(f, 0)
    BY <1>1 DEF Runs
  <2>. HIDE DEF Body
  <2>3. \A n \in 0..Len(s) : f[n] = Body(f, n)
    BY <1>0, <2>1, <2>2
  <2> QED BY <2>3
<1>4. g = [n \in 0..Len(s) |-> Body(g, n)]
  BY <1>3
<1>5. Commands(s) = g[Len(s)]
  BY DEF Commands
<1>. HIDE DEF g
<1>6. \A n \in 1..Len(s) : g[n] = Body(g, n)
  BY <1>0, <1>4
<1>7. g[0] = <<>> /\ DOMAIN g = 0..Len(s)
  BY <1>0, <1>4
<1>. DEFINE T == {n \in 0..Len(s) : g[n] = f[n]}
<1>8. 0 \in T
  BY <1>0, <1>1, <1>7 DEF Runs
<1>9. ASSUME NEW n \in 1..Len(s), n - 1 \in T PROVE n \in T
  <2>1. f[n - 1] \in Seq(Numbers) /\ g[n - 1] = f[n - 1]
    BY <1>0, <1>9
  <2>2. f[n] = CommandStep[<<f[n - 1], s[n]>>]
    BY <1>1 DEF Runs
  <2>3. f[n] = g[n]
    BY <1>2, <1>6, <1>0, <2>1, <2>2
  <2> QED BY <1>0, <2>3
<1>. HIDE DEF T
<1>10. 0..Len(s) \subseteq T
  BY <1>0, <1>8, <1>9, Climb
<1>11. Commands(s) = f[Len(s)]
  BY <1>0, <1>5, <1>10 DEF T
<1> QED BY <1>1, <1>11

LEMMA CommandsJoin ==
    ASSUME NEW s \in Seq(Frames), NEW t \in Seq(Frames)
    PROVE  Commands(s) \in Seq(Numbers) /\ Commands(s \o t) = Commands(s) \o Commands(t)
<1>. DEFINE w == s \o t
<1>0. Len(s) \in Nat /\ Len(t) \in Nat
  OBVIOUS
<1>w. w \in Seq(Frames) /\ Len(w) = Len(s) + Len(t)
  OBVIOUS
<1>1. PICK h : h \in [0..Len(s) -> Seq(Numbers)] /\ Runs(h, <<>>, CommandStep, s) /\ Commands(s) = h[Len(s)]
  BY CommandsRun
<1>2. PICK g : g \in [0..Len(t) -> Seq(Numbers)] /\ Runs(g, <<>>, CommandStep, t) /\ Commands(t) = g[Len(t)]
  BY CommandsRun
<1>3. PICK f : f \in [0..Len(w) -> Seq(Numbers)] /\ Runs(f, <<>>, CommandStep, w) /\ Commands(w) = f[Len(w)]
  BY <1>w, CommandsRun
<1>4. \A i \in 1..Len(s) : w[i] = s[i]
  OBVIOUS
<1>5. \A i \in 1..Len(t) : w[Len(s) + i] = t[i]
  OBVIOUS
<1>. DEFINE first == h[Len(s)]
            T == {n \in 0..Len(t) : f[Len(s) + n] = first \o g[n]}
<1>. HIDE DEF w
<1>6. first \in Seq(Numbers)
  BY <1>0, <1>1
<1>7. f[Len(s)] = first
  <2>0. Runs(f, <<>>, CommandStep, w) /\ Runs(h, <<>>, CommandStep, s)
    BY <1>1, <1>3
  <2>1. Len(w) \in Nat /\ Len(s) <= Len(w) /\ Len(s) <= Len(s)
    BY <1>0, <1>w
  <2>2. \A i \in 1..Len(s) : w[i] = s[i]
    BY <1>4
  <2>3. f[Len(s)] = h[Len(s)]
    BY <1>0, <2>0, <2>1, <2>2, RunsMeet
  <2> QED BY <2>3
<1>. HIDE DEF first
<1>8. 0 \in T
  BY <1>2, <1>6, ConcatEmptySeq, <1>0, <1>7 DEF Runs
<1>9. ASSUME NEW n \in 1..Len(t), n - 1 \in T PROVE n \in T
  <2>1. f[Len(s) + (n - 1)] = first \o g[n - 1]
    BY <1>9
  <2>2. Len(s) + n \in 1..Len(w) /\ (Len(s) + n) - 1 = Len(s) + (n - 1) /\ n - 1 \in 0..Len(t) /\ n \in 0..Len(t)
    BY <1>0, <1>w
  <2>3. f[Len(s) + n] = CommandStep[<<f[Len(s) + (n - 1)], t[n]>>]
    BY <1>3, <1>5, <2>2 DEF Runs
  <2>4. g[n] = CommandStep[<<g[n - 1], t[n]>>]
    BY <1>2 DEF Runs
  <2>5. t[n] \in Frames /\ g[n - 1] \in Seq(Numbers)
    <3>1. t[n] \in Frames
      BY <1>0, <1>9
    <3> QED BY <1>2, <2>2, <3>1
  <2>6. f[Len(s) + (n - 1)] \in Seq(Numbers)
    BY <1>6, <2>1, <2>5
  <2>7. f[Len(s) + n] = IF t[n].kind = "command" THEN Append(first \o g[n - 1], t[n].about) ELSE first \o g[n - 1]
    BY <2>1, <2>3, <2>5, <2>6 DEF CommandStep
  <2>8. g[n] = IF t[n].kind = "command" THEN Append(g[n - 1], t[n].about) ELSE g[n - 1]
    BY <2>4, <2>5 DEF CommandStep
  <2>9. t[n].about \in Numbers
    BY <2>5 DEF Frames
  <2>10. Append(first \o g[n - 1], t[n].about) = first \o Append(g[n - 1], t[n].about)
    <3>. DEFINE q == g[n - 1]
                x == t[n].about
    <3>1. q \in Seq(Numbers) /\ x \in Numbers
      BY <2>5, <2>9
    <3>. HIDE DEF q, x
    <3>2. Append(first \o q, x) = first \o Append(q, x)
      BY <1>6, <3>1, NumbersOnto
    <3> QED BY <3>2 DEF q, x
  <2>11. f[Len(s) + n] = first \o g[n]
    BY <2>7, <2>8, <2>10
  <2> QED BY <2>2, <2>11
<1>. HIDE DEF T
<1>10. Len(t) \in T
  <2>1. 0..Len(t) \subseteq T
    BY <1>0, <1>8, <1>9, Climb
  <2>2. Len(t) \in 0..Len(t)
    BY <1>0
  <2> QED BY <2>1, <2>2
<1>11. f[Len(s) + Len(t)] = first \o g[Len(t)]
  BY <1>10 DEF T
<1> QED BY <1>0, <1>w, <1>1, <1>2, <1>3, <1>6, <1>11 DEF first, w

\* Drops(frames) is the end of a run.
LEMMA DropsRun ==
    ASSUME NEW s \in Seq(Frames)
    PROVE  \E f \in [0..Len(s) -> Nat] : Runs(f, 0, DropStep, s) /\ Drops(s) = f[Len(s)]
<1>. DEFINE Body(g, n) == IF n = 0 THEN 0 ELSE g[n - 1] + s[n].dropped
            g == CHOOSE f : f = [n \in 0..Len(s) |-> Body(f, n)]
<1>0. Len(s) \in Nat /\ \A n \in 1..Len(s) : s[n] \in Frames /\ n # 0 /\ n - 1 \in 0..Len(s) /\ n \in 0..Len(s)
  OBVIOUS
<1>1. PICK f \in [0..Len(s) -> Nat] : Runs(f, 0, DropStep, s)
  <2>1. 0 \in Nat
    OBVIOUS
  <2> QED BY <2>1, StepTypes, RunExists, Zenon
<1>2. \A q \in Nat, n \in 1..Len(s) :
         DropStep[<<q, s[n]>>] = q + s[n].dropped
  BY <1>0 DEF DropStep
<1>3. f = [n \in 0..Len(s) |-> Body(f, n)]
  <2>1. \A n \in 1..Len(s) : f[n] = Body(f, n)
    BY <1>0, <1>1, <1>2 DEF Runs
  <2>2. f[0] = Body(f, 0)
    BY <1>1 DEF Runs
  <2>. HIDE DEF Body
  <2>3. \A n \in 0..Len(s) : f[n] = Body(f, n)
    BY <1>0, <2>1, <2>2
  <2> QED BY <2>3
<1>4. g = [n \in 0..Len(s) |-> Body(g, n)]
  BY <1>3
<1>5. Drops(s) = g[Len(s)]
  BY DEF Drops
<1>. HIDE DEF g
<1>6. \A n \in 1..Len(s) : g[n] = Body(g, n)
  BY <1>0, <1>4
<1>7. g[0] = 0 /\ DOMAIN g = 0..Len(s)
  BY <1>0, <1>4
<1>. DEFINE T == {n \in 0..Len(s) : g[n] = f[n]}
<1>8. 0 \in T
  BY <1>0, <1>1, <1>7 DEF Runs
<1>9. ASSUME NEW n \in 1..Len(s), n - 1 \in T PROVE n \in T
  <2>1. f[n - 1] \in Nat /\ g[n - 1] = f[n - 1]
    BY <1>0, <1>9
  <2>2. f[n] = DropStep[<<f[n - 1], s[n]>>]
    BY <1>1 DEF Runs
  <2>3. f[n] = g[n]
    BY <1>2, <1>6, <1>0, <2>1, <2>2
  <2> QED BY <1>0, <2>3
<1>. HIDE DEF T
<1>10. 0..Len(s) \subseteq T
  BY <1>0, <1>8, <1>9, Climb
<1>11. Drops(s) = f[Len(s)]
  BY <1>0, <1>5, <1>10 DEF T
<1> QED BY <1>1, <1>11

LEMMA DropsJoin ==
    ASSUME NEW s \in Seq(Frames), NEW t \in Seq(Frames)
    PROVE  Drops(s) \in Nat /\ Drops(s \o t) = Drops(s) + Drops(t)
<1>. DEFINE w == s \o t
<1>0. Len(s) \in Nat /\ Len(t) \in Nat
  OBVIOUS
<1>w. w \in Seq(Frames) /\ Len(w) = Len(s) + Len(t)
  OBVIOUS
<1>1. PICK h : h \in [0..Len(s) -> Nat] /\ Runs(h, 0, DropStep, s) /\ Drops(s) = h[Len(s)]
  BY DropsRun
<1>2. PICK g : g \in [0..Len(t) -> Nat] /\ Runs(g, 0, DropStep, t) /\ Drops(t) = g[Len(t)]
  BY DropsRun
<1>3. PICK f : f \in [0..Len(w) -> Nat] /\ Runs(f, 0, DropStep, w) /\ Drops(w) = f[Len(w)]
  BY <1>w, DropsRun
<1>4. \A i \in 1..Len(s) : w[i] = s[i]
  OBVIOUS
<1>5. \A i \in 1..Len(t) : w[Len(s) + i] = t[i]
  OBVIOUS
<1>. DEFINE first == h[Len(s)]
            T == {n \in 0..Len(t) : f[Len(s) + n] = first + g[n]}
<1>. HIDE DEF w
<1>6. first \in Nat
  BY <1>0, <1>1
<1>7. f[Len(s)] = first
  <2>0. Runs(f, 0, DropStep, w) /\ Runs(h, 0, DropStep, s)
    BY <1>1, <1>3
  <2>1. Len(w) \in Nat /\ Len(s) <= Len(w) /\ Len(s) <= Len(s)
    BY <1>0, <1>w
  <2>2. \A i \in 1..Len(s) : w[i] = s[i]
    BY <1>4
  <2>3. f[Len(s)] = h[Len(s)]
    BY <1>0, <2>0, <2>1, <2>2, RunsMeet
  <2> QED BY <2>3
<1>. HIDE DEF first
<1>8. 0 \in T
  BY <1>2, <1>0, <1>6, <1>7 DEF Runs
<1>9. ASSUME NEW n \in 1..Len(t), n - 1 \in T PROVE n \in T
  <2>1. f[Len(s) + (n - 1)] = first + g[n - 1]
    BY <1>9
  <2>2. Len(s) + n \in 1..Len(w) /\ (Len(s) + n) - 1 = Len(s) + (n - 1) /\ n - 1 \in 0..Len(t) /\ n \in 0..Len(t)
    BY <1>0, <1>w
  <2>3. f[Len(s) + n] = DropStep[<<f[Len(s) + (n - 1)], t[n]>>]
    BY <1>3, <1>5, <2>2 DEF Runs
  <2>4. g[n] = DropStep[<<g[n - 1], t[n]>>]
    BY <1>2 DEF Runs
  <2>5. t[n] \in Frames /\ g[n - 1] \in Nat
    <3>1. t[n] \in Frames
      BY <1>0, <1>9
    <3> QED BY <1>2, <2>2, <3>1
  <2>6. t[n].dropped \in Nat
    BY <2>5 DEF Frames
  <2>7. f[Len(s) + n] = (first + g[n - 1]) + t[n].dropped
    BY <1>6, <2>1, <2>3, <2>5 DEF DropStep
  <2>8. g[n] = g[n - 1] + t[n].dropped
    BY <2>4, <2>5 DEF DropStep
  <2>9. f[Len(s) + n] = first + g[n]
    BY <1>6, <2>5, <2>6, <2>7, <2>8
  <2> QED BY <2>2, <2>9
<1>. HIDE DEF T
<1>10. Len(t) \in T
  <2>1. 0..Len(t) \subseteq T
    BY <1>0, <1>8, <1>9, Climb
  <2>2. Len(t) \in 0..Len(t)
    BY <1>0
  <2> QED BY <2>1, <2>2
<1>11. f[Len(s) + Len(t)] = first + g[Len(t)]
  BY <1>10 DEF T
<1> QED BY <1>0, <1>w, <1>1, <1>2, <1>3, <1>6, <1>11 DEF first, w

LEMMA EmptyFrames == Commands(<<>>) = <<>> /\ Drops(<<>>) = 0
<1>1. <<>> \in Seq(Frames) /\ Len(<<>>) = 0
  OBVIOUS
<1>2. PICK f : Runs(f, <<>>, CommandStep, <<>>) /\ Commands(<<>>) = f[Len(<<>>)]
  BY <1>1, CommandsRun
<1>3. PICK g : Runs(g, 0, DropStep, <<>>) /\ Drops(<<>>) = g[Len(<<>>)]
  BY <1>1, DropsRun
<1> QED BY <1>1, <1>2, <1>3 DEF Runs

\* The frames with one more at the end.
LEMMA OneMore ==
    ASSUME NEW s \in Seq(Frames), NEW x \in Frames
    PROVE  /\ Append(s, x) \in Seq(Frames)
           /\ Commands(Append(s, x)) = IF x.kind = "command" THEN Append(Commands(s), x.about) ELSE Commands(s)
           /\ Drops(Append(s, x)) = Drops(s) + x.dropped
<1>1. <<x>> \in Seq(Frames) /\ Len(<<x>>) = 1 /\ <<x>>[1] = x
  OBVIOUS
<1>2. Append(s, x) = s \o <<x>>
  BY AppendIsConcat
<1>3. x.about \in Numbers /\ x.dropped \in Nat
  BY DEF Frames
<1>4. Commands(<<x>>) = IF x.kind = "command" THEN <<x.about>> ELSE <<>>
  <2>1. PICK f : Runs(f, <<>>, CommandStep, <<x>>) /\ Commands(<<x>>) = f[Len(<<x>>)]
    BY <1>1, CommandsRun
  <2>2. 1 \in 1..Len(<<x>>) /\ 1 - 1 = 0
    BY <1>1
  <2>3. f[1] = CommandStep[<<f[0], x>>] /\ f[0] = <<>>
    BY <1>1, <2>1, <2>2 DEF Runs
  <2>4. <<>> \in Seq(Numbers) /\ Append(<<>>, x.about) = <<x.about>>
    BY <1>3
  <2> QED BY <1>1, <2>1, <2>3, <2>4 DEF CommandStep
<1>5. Drops(<<x>>) = x.dropped
  BY <1>1, DropsRun, <1>3 DEF Runs, DropStep
<1>6. Commands(s) \in Seq(Numbers) /\ Commands(s \o <<x>>) = Commands(s) \o Commands(<<x>>)
  BY <1>1, CommandsJoin
<1>7. Drops(s \o <<x>>) = Drops(s) + Drops(<<x>>)
  BY <1>1, DropsJoin
<1>8. Commands(s) \o <<>> = Commands(s)
  BY <1>6, ConcatEmptySeq
<1>9. Commands(s) \o <<x.about>> = Append(Commands(s), x.about)
  BY <1>3, <1>6, AppendIsConcat
<1>10. Commands(Append(s, x)) = IF x.kind = "command" THEN Append(Commands(s), x.about) ELSE Commands(s)
  BY <1>2, <1>4, <1>6, <1>8, <1>9
<1>11. Drops(Append(s, x)) = Drops(s) + x.dropped
  BY <1>2, <1>5, <1>7
<1> QED BY <1>10, <1>11

\* Frames cut in two.
LEMMA CutInTwo ==
    ASSUME NEW s \in Seq(Frames), NEW n \in 0..Len(s)
    PROVE  /\ SubSeq(s, 1, n) \in Seq(Frames) /\ SubSeq(s, n + 1, Len(s)) \in Seq(Frames)
           /\ Commands(s) = Commands(SubSeq(s, 1, n)) \o Commands(SubSeq(s, n + 1, Len(s)))
           /\ Drops(s) = Drops(SubSeq(s, 1, n)) + Drops(SubSeq(s, n + 1, Len(s)))
<1>1. Len(s) \in Nat
  OBVIOUS
<1>2. SubSeq(s, 1, n) \in Seq(Frames) /\ SubSeq(s, n + 1, Len(s)) \in Seq(Frames)
  OBVIOUS
<1>3. s = SubSeq(s, 1, n) \o SubSeq(s, n + 1, Len(s))
  <2>1. 1 \in 1..(Len(s) + 1) /\ n \in (1 - 1)..Len(s) /\ Len(s) \in n..Len(s)
    BY <1>1
  <2>2. SubSeq(s, 1, n) \o SubSeq(s, n + 1, Len(s)) = SubSeq(s, 1, Len(s))
    BY <2>1, ConcatAdjacentSubSeq
  <2>3. SubSeq(s, 1, Len(s)) = s
    BY SubSeqFull
  <2> QED BY <2>2, <2>3
<1> QED BY <1>2, <1>3, CommandsJoin, DropsJoin

\* Telemetry that is given up says nothing of a command.
LEMMA GivenUp ==
    ASSUME NEW s \in Seq(Frames), NEW k \in DOMAIN s, s[k].kind = "telemetry"
    PROVE  RemoveAt(s, k) \in Seq(Frames) /\ Commands(RemoveAt(s, k)) = Commands(s)
<1>. DEFINE a == SubSeq(s, 1, k - 1)
            b == SubSeq(s, k + 1, Len(s))
            c == SubSeq(s, 1, k)
<1>1. k \in 1..Len(s) /\ Len(s) \in Nat /\ k \in 0..Len(s) /\ s[k] \in Frames
  OBVIOUS
<1>2. a \in Seq(Frames)
  OBVIOUS
<1>3. b \in Seq(Frames) /\ c \in Seq(Frames) /\ Commands(s) = Commands(c) \o Commands(b)
  BY <1>1, CutInTwo
<1>4. c = Append(a, s[k])
  OBVIOUS
<1>5. Commands(c) = Commands(a)
  <2>. HIDE DEF a, c
  <2> QED BY <1>1, <1>2, <1>4, OneMore
<1>6. RemoveAt(s, k) = a \o b
  BY <1>1 DEF RemoveAt
<1>. HIDE DEF a, b, c
<1>7. Commands(a \o b) = Commands(a) \o Commands(b) /\ a \o b \in Seq(Frames)
  BY <1>2, <1>3, ConcatProperties, CommandsJoin
<1> QED BY <1>3, <1>5, <1>6, <1>7
-----------------------------------------------------------------------------
(* The order of samples on their way: batches above what has been seen and  *)
(* below what there is, each before the next.                               *)

Levels == [PlaneTags -> Nat]

Within(lo, p, hi) == \A a \in DOMAIN p : lo[p[a].tag] < p[a].seq /\ p[a].seq <= hi[p[a].tag]

Precedes(p, q) == \A a \in DOMAIN p, b \in DOMAIN q : p[a].tag = q[b].tag => p[a].seq < q[b].seq

Orderly(lo, frames, pending, hi) ==
    /\ Within(lo, pending, hi)
    /\ \A i \in DOMAIN frames : Within(lo, frames[i].samples, hi) /\ Precedes(frames[i].samples, pending)
    /\ \A i, j \in DOMAIN frames : i < j => Precedes(frames[i].samples, frames[j].samples)

LEMMA FrameTypes ==
    ASSUME NEW f \in Seq(Frames), NEW i \in DOMAIN f
    PROVE  f[i] \in Frames /\ f[i].samples \in Maps
BY DEF Frames

LEMMA MapTypes ==
    ASSUME NEW p \in Maps, NEW a \in DOMAIN p
    PROVE  p[a] \in Sample /\ p[a].tag \in PlaneTags /\ p[a].seq \in Nat
<1>1. p \in Seq(Sample)
  BY DEF Maps
<1>2. p[a] \in Sample
  BY <1>1
<1> QED BY <1>2 DEF Sample

LEMMA EmptyMap == <<>> \in Maps
BY PlaneAssumption DEF Maps, OnePerTag

LEMMA OrderlyAscends ==
    ASSUME NEW lo, NEW f \in Seq(Frames), NEW p \in Maps, NEW hi, lo \in Levels, Orderly(lo, f, p, hi)
    PROVE  Ascending(lo, Way(f, p))
<1>. DEFINE v == [i \in DOMAIN f |-> f[i].samples]
            w == Way(f, p)
<1>1. Len(f) \in Nat /\ DOMAIN f = 1..Len(f)
  OBVIOUS
<1>2. v \in Seq(Maps) /\ Len(v) = Len(f) /\ \A i \in 1..Len(f) : v[i] = f[i].samples
  BY <1>1, FrameTypes
<1>3. w = Append(v, p)
  BY DEF Way
<1>. HIDE DEF v, w
<1>4. /\ DOMAIN w = 1..(Len(f) + 1)
      /\ \A i \in 1..Len(f) : w[i] = f[i].samples
      /\ w[Len(f) + 1] = p
  BY <1>1, <1>2, <1>3
<1>5. \A i \in DOMAIN w : i \in DOMAIN f \/ i = Len(f) + 1
  BY <1>1, <1>4
<1>6. \A i \in DOMAIN w : w[i] \in Maps /\ Within(lo, w[i], hi)
  BY <1>1, <1>4, <1>5, FrameTypes DEF Orderly
<1>7. ASSUME NEW i \in DOMAIN w, NEW j \in DOMAIN w, j < i PROVE Precedes(w[j], w[i])
  BY <1>1, <1>4, <1>7, <1>5 DEF Orderly
<1>8. ASSUME NEW i \in DOMAIN w, NEW a \in DOMAIN w[i]
      PROVE  /\ w[i][a].seq > lo[w[i][a].tag]
             /\ \A j \in 1..i : \A b \in DOMAIN w[j] :
                    (j < i \/ b < a) /\ w[j][b].tag = w[i][a].tag => w[j][b].seq < w[i][a].seq
  <2>1. w[i] \in Maps /\ w[i][a].tag \in PlaneTags /\ w[i][a].seq \in Nat
    BY <1>6, MapTypes
  <2>2. lo[w[i][a].tag] \in Nat
    BY <2>1 DEF Levels
  <2>3. w[i][a].seq > lo[w[i][a].tag]
    BY <1>6, <2>1, <2>2 DEF Within
  <2>4. ASSUME NEW j \in 1..i, NEW b \in DOMAIN w[j], j < i \/ b < a, w[j][b].tag = w[i][a].tag
        PROVE  w[j][b].seq < w[i][a].seq
    <3>1. j \in DOMAIN w
      BY <1>1, <1>4
    <3>2. CASE j < i
      BY <1>7, <2>4, <3>1, <3>2 DEF Precedes
    <3>3. CASE ~(j < i)
      BY <1>1, <1>4, <2>4, <3>3, <2>1 DEF Maps, OnePerTag
    <3> QED BY <3>2, <3>3
  <2> QED BY <2>3, <2>4
<1>9. Ascending(lo, w)
  BY <1>8, Zenon DEF Ascending
<1> QED BY <1>9 DEF w

\* Some of the frames, in their order.
LEMMA SomeAreOrderly ==
    ASSUME NEW lo, NEW f, NEW p, NEW hi, Orderly(lo, f, p, hi), NEW g, NEW e,
           \A i \in DOMAIN g : e[i] \in DOMAIN f /\ g[i] = f[e[i]],
           \A i, j \in DOMAIN g : i < j => e[i] < e[j]
    PROVE  Orderly(lo, g, p, hi)
BY DEF Orderly

LEMMA PrefixOrderly ==
    ASSUME NEW lo, NEW f \in Seq(Frames), NEW p, NEW hi, Orderly(lo, f, p, hi), NEW n \in 0..Len(f)
    PROVE  Orderly(lo, SubSeq(f, 1, n), p, hi)
<1>. DEFINE g == SubSeq(f, 1, n)
            e == [i \in 1..n |-> i]
<1>1. Len(f) \in Nat /\ DOMAIN f = 1..Len(f) /\ DOMAIN g = 1..n
  OBVIOUS
<1>2. \A i \in DOMAIN g : e[i] \in DOMAIN f /\ g[i] = f[e[i]]
  BY <1>1
<1>3. \A i, j \in DOMAIN g : i < j => e[i] < e[j]
  BY <1>1
<1>. HIDE DEF g, e
<1>4. Orderly(lo, g, p, hi)
  BY <1>2, <1>3, SomeAreOrderly
<1> QED BY <1>4 DEF g

LEMMA SuffixOrderly ==
    ASSUME NEW lo, NEW f \in Seq(Frames), NEW p, NEW hi, Orderly(lo, f, p, hi), NEW n \in 0..Len(f)
    PROVE  Orderly(lo, SubSeq(f, n + 1, Len(f)), p, hi)
<1>. DEFINE g == SubSeq(f, n + 1, Len(f))
            e == [i \in 1..(Len(f) - n) |-> n + i]
<1>1. Len(f) \in Nat /\ n \in Nat /\ DOMAIN f = 1..Len(f) /\ DOMAIN g = 1..(Len(f) - n)
  OBVIOUS
<1>2. \A i \in DOMAIN g : e[i] \in DOMAIN f /\ g[i] = f[e[i]]
  <2>1. \A i \in 1..(Len(f) - n) : g[i] = f[n + i]
    OBVIOUS
  <2> QED BY <1>1, <2>1
<1>3. \A i, j \in DOMAIN g : i < j => e[i] < e[j]
  BY <1>1
<1>. HIDE DEF g, e
<1>4. Orderly(lo, g, p, hi)
  BY <1>2, <1>3, SomeAreOrderly
<1> QED BY <1>4 DEF g

LEMMA RemovedOrderly ==
    ASSUME NEW lo, NEW f \in Seq(Frames), NEW p, NEW hi, Orderly(lo, f, p, hi), NEW k \in DOMAIN f
    PROVE  /\ Orderly(lo, RemoveAt(f, k), p, hi)
           /\ Len(RemoveAt(f, k)) = Len(f) - 1
           /\ \A i \in DOMAIN RemoveAt(f, k) : \E j \in DOMAIN f : RemoveAt(f, k)[i] = f[j]
<1>. DEFINE u == SubSeq(f, 1, k - 1)
            v == SubSeq(f, k + 1, Len(f))
            g == u \o v
            e == [i \in 1..(Len(f) - 1) |-> IF i < k THEN i ELSE i + 1]
<1>0. Len(f) \in Nat /\ k \in 1..Len(f) /\ DOMAIN f = 1..Len(f)
  OBVIOUS
<1>u. u \in Seq(Frames) /\ Len(u) = k - 1 /\ \A i \in 1..(k - 1) : u[i] = f[i]
  OBVIOUS
<1>v. v \in Seq(Frames) /\ Len(v) = Len(f) - k /\ \A i \in 1..(Len(f) - k) : v[i] = f[k + i]
  OBVIOUS
<1>5. RemoveAt(f, k) = g
  BY DEF RemoveAt
<1>. HIDE DEF u, v
<1>g. /\ g \in Seq(Frames) /\ Len(g) = Len(u) + Len(v)
      /\ \A i \in 1..(Len(u) + Len(v)) : g[i] = IF i <= Len(u) THEN u[i] ELSE v[i - Len(u)]
  BY <1>u, <1>v, ConcatProperties
<1>. HIDE DEF g
<1>1. Len(f) \in Nat /\ k \in 1..Len(f) /\ DOMAIN f = 1..Len(f) /\ Len(g) = Len(f) - 1 /\ DOMAIN g = 1..(Len(f) - 1)
  BY <1>0, <1>u, <1>v, <1>g
<1>2. \A i \in DOMAIN g : e[i] \in DOMAIN f
  BY <1>1
<1>3. \A i \in DOMAIN g : g[i] = f[e[i]]
  <2>. TAKE i \in DOMAIN g
  <2>0. g[i] = IF i <= k - 1 THEN u[i] ELSE v[i - (k - 1)]
    BY <1>0, <1>1, <1>u, <1>v, <1>g
  <2>1. CASE i < k
    BY <1>1, <1>u, <2>0, <2>1
  <2>2. CASE ~(i < k)
    BY <1>1, <2>2, <1>v, <2>0
  <2> QED BY <2>1, <2>2
<1>4. \A i, j \in DOMAIN g : i < j => e[i] < e[j]
  BY <1>1
<1>. HIDE DEF e
<1>6. Orderly(lo, g, p, hi)
  BY <1>2, <1>3, <1>4, SomeAreOrderly
<1> QED BY <1>1, <1>2, <1>3, <1>5, <1>6

\* A frame more at the end of the wire or of what waits.
LEMMA JoinedOrderly ==
    ASSUME NEW lo, NEW f \in Seq(Frames), NEW p, NEW hi, Orderly(lo, f, p, hi), NEW x \in Frames,
           Within(lo, x.samples, hi), Precedes(x.samples, p),
           \A i \in DOMAIN f : Precedes(f[i].samples, x.samples)
    PROVE  Orderly(lo, Append(f, x), p, hi)
<1>. DEFINE g == Append(f, x)
<1>1. Len(f) \in Nat /\ DOMAIN f = 1..Len(f) /\ DOMAIN g = 1..(Len(f) + 1)
  OBVIOUS
<1>2. \A i \in DOMAIN g : (i \in DOMAIN f /\ g[i] = f[i]) \/ (i = Len(f) + 1 /\ g[i] = x)
  OBVIOUS
<1>. HIDE DEF g
<1>3. \A i \in DOMAIN g : Within(lo, g[i].samples, hi) /\ Precedes(g[i].samples, p)
  BY <1>2 DEF Orderly
<1>4. ASSUME NEW i \in DOMAIN g, NEW j \in DOMAIN g, i < j
      PROVE  Precedes(g[i].samples, g[j].samples)
  BY <1>1, <1>2, <1>4 DEF Orderly
<1>5. Orderly(lo, g, p, hi)
  BY <1>3, <1>4 DEF Orderly
<1> QED BY <1>5 DEF g

LEMMA EmptiedOrderly ==
    ASSUME NEW lo, NEW f, NEW p, NEW hi, Orderly(lo, f, p, hi)
    PROVE  Orderly(lo, f, <<>>, hi)
BY DEF Orderly, Within, Precedes

\* What pends is kept or newer than all there was.
LEMMA ArrivedOrderly ==
    ASSUME NEW lo \in Levels, NEW f \in Seq(Frames), NEW p \in Maps, NEW hi \in Levels, Orderly(lo, f, p, hi),
           NEW top \in Levels, \A t \in PlaneTags : lo[t] <= hi[t] /\ hi[t] <= top[t],
           NEW q \in Maps,
           \A b \in DOMAIN q : \/ \E a \in DOMAIN p : q[b] = p[a]
                               \/ hi[q[b].tag] < q[b].seq /\ q[b].seq <= top[q[b].tag]
    PROVE  Orderly(lo, f, q, top)
<1>1. ASSUME NEW s \in Sample, lo[s.tag] < s.seq, s.seq <= hi[s.tag]
      PROVE  s.seq <= top[s.tag]
  BY <1>1 DEF Sample, Levels
<1>2. Within(lo, q, top)
  <2>. SUFFICES ASSUME NEW b \in DOMAIN q PROVE lo[q[b].tag] < q[b].seq /\ q[b].seq <= top[q[b].tag]
    BY DEF Within
  <2>1. q[b] \in Sample /\ q[b].tag \in PlaneTags /\ q[b].seq \in Nat
    BY MapTypes
  <2>2. lo[q[b].tag] \in Nat /\ hi[q[b].tag] \in Nat /\ top[q[b].tag] \in Nat /\ lo[q[b].tag] <= hi[q[b].tag]
    BY <2>1 DEF Levels
  <2>3. CASE \E a \in DOMAIN p : q[b] = p[a]
    BY <2>3, <1>1, <2>1 DEF Orderly, Within
  <2>4. CASE hi[q[b].tag] < q[b].seq /\ q[b].seq <= top[q[b].tag]
    BY <2>1, <2>2, <2>4
  <2> QED BY <2>3, <2>4
<1>3. ASSUME NEW i \in DOMAIN f PROVE Within(lo, f[i].samples, top) /\ Precedes(f[i].samples, q)
  <2>1. f[i].samples \in Maps
    BY FrameTypes
  <2>2. Within(lo, f[i].samples, hi) /\ Precedes(f[i].samples, p)
    BY DEF Orderly
  <2>3. Within(lo, f[i].samples, top)
    BY <1>1, <2>1, <2>2, MapTypes DEF Within
  <2>4. ASSUME NEW a \in DOMAIN f[i].samples, NEW b \in DOMAIN q, f[i].samples[a].tag = q[b].tag
        PROVE  f[i].samples[a].seq < q[b].seq
    <3>. DEFINE s == f[i].samples[a]
    <3>1. s \in Sample /\ s.tag \in PlaneTags /\ s.seq \in Nat /\ q[b].seq \in Nat
      BY <2>1, MapTypes
    <3>2. CASE \E c \in DOMAIN p : q[b] = p[c]
      BY <2>2, <2>4, <3>2 DEF Precedes
    <3>3. CASE hi[q[b].tag] < q[b].seq
      BY <2>2, <3>1, <2>4, <3>3 DEF Within, Levels
    <3> QED BY <3>2, <3>3
  <2> QED BY <2>3, <2>4 DEF Precedes
<1> QED BY <1>2, <1>3 DEF Orderly

LEMMA TagPlaces ==
    ASSUME NEW p \in Maps, NEW t
    PROVE  OfTag(p, t) \subseteq 1..Len(p) /\ Len(p) \in Nat
BY DEF Maps, OfTag

\* What has been seen comes from the frames or was seen before.
LEMMA SeenFrom ==
    ASSUME NEW lo, NEW g \in Seq(Frames), NEW t \in PlaneTags
    PROVE  \/ Seen(lo, g)[t] = lo[t]
           \/ \E k \in DOMAIN g : \E a \in DOMAIN g[k].samples :
                  g[k].samples[a].tag = t /\ Seen(lo, g)[t] = g[k].samples[a].seq
<1>. DEFINE with == {i \in DOMAIN g : OfTag(g[i].samples, t) # {}}
<1>1. Seen(lo, g)[t] = IF with = {} THEN lo[t] ELSE Latest(g[Max(with)].samples, t).seq
  BY DEF Seen
<1>2. with \subseteq 1..Len(g) /\ Len(g) \in Nat
  OBVIOUS
<1>3. ASSUME with # {}
      PROVE  \E k \in DOMAIN g : \E a \in DOMAIN g[k].samples :
                 g[k].samples[a].tag = t /\ Seen(lo, g)[t] = g[k].samples[a].seq
  <2>. DEFINE k == Max(with)
  <2>1. k \in with
    <3>. HIDE DEF with
    <3> QED BY <1>2, <1>3, LastPlace
  <2>. DEFINE p == g[k].samples
              at == OfTag(p, t)
              a == Max(at)
  <2>2. k \in DOMAIN g /\ at # {}
    BY <2>1
  <2>3. p \in Maps
    BY <2>2, FrameTypes
  <2>4. at \subseteq 1..Len(p) /\ Len(p) \in Nat
    BY <2>3, TagPlaces
  <2>5. a \in at
    <3>. HIDE DEF at
    <3> QED BY <2>2, <2>4, LastPlace
  <2>6. a \in DOMAIN p /\ p[a].tag = t
    BY <2>5 DEF OfTag
  <2>7. Seen(lo, g)[t] = p[a].seq
    BY <1>1, <1>3 DEF Latest
  <2> QED BY <2>2, <2>6, <2>7
<1> QED BY <1>1, <1>3

LEMMA ConsumedOrderly ==
    ASSUME NEW lo \in Levels, NEW f \in Seq(Frames), NEW p \in Maps, NEW hi \in Levels, Orderly(lo, f, p, hi),
           \A t \in PlaneTags : lo[t] <= hi[t], NEW n \in 0..Len(f)
    PROVE  /\ Seen(lo, SubSeq(f, 1, n)) \in Levels
           /\ Orderly(Seen(lo, SubSeq(f, 1, n)), SubSeq(f, n + 1, Len(f)), p, hi)
           /\ \A t \in PlaneTags : lo[t] <= Seen(lo, SubSeq(f, 1, n))[t] /\ Seen(lo, SubSeq(f, 1, n))[t] <= hi[t]
<1>. DEFINE g == SubSeq(f, 1, n)
            r == SubSeq(f, n + 1, Len(f))
            now == Seen(lo, g)
<1>1. Len(f) \in Nat /\ n \in Nat /\ DOMAIN f = 1..Len(f)
  OBVIOUS
<1>2. g \in Seq(Frames) /\ DOMAIN g = 1..n /\ \A k \in 1..n : g[k] = f[k]
  OBVIOUS
<1>3. r \in Seq(Frames) /\ DOMAIN r = 1..(Len(f) - n) /\ \A k \in 1..(Len(f) - n) : r[k] = f[n + k]
  OBVIOUS
<1>4. Orderly(lo, r, p, hi)
  BY SuffixOrderly
<1>. HIDE DEF g, r
<1>5. \A t \in PlaneTags :
         \/ now[t] = lo[t]
         \/ \E k \in 1..n : \E a \in DOMAIN f[k].samples : f[k].samples[a].tag = t /\ now[t] = f[k].samples[a].seq
  BY <1>2, SeenFrom
<1>6. DOMAIN now = PlaneTags /\ now = [t \in PlaneTags |-> now[t]]
  BY DEF Seen
<1>. HIDE DEF now
<1>7. \A t \in PlaneTags : now[t] \in Nat /\ lo[t] <= now[t] /\ now[t] <= hi[t]
  <2>. SUFFICES ASSUME NEW t \in PlaneTags PROVE now[t] \in Nat /\ lo[t] <= now[t] /\ now[t] <= hi[t]
    OBVIOUS
  <2>1. lo[t] \in Nat /\ hi[t] \in Nat /\ lo[t] <= hi[t]
    BY DEF Levels
  <2>2. ASSUME NEW k \in 1..n, NEW a \in DOMAIN f[k].samples, f[k].samples[a].tag = t, now[t] = f[k].samples[a].seq
        PROVE  now[t] \in Nat /\ lo[t] <= now[t] /\ now[t] <= hi[t]
    BY <1>1, FrameTypes, MapTypes, <2>2, <2>1 DEF Orderly, Within
  <2> QED BY <1>5, <2>1, <2>2
<1>8. now \in Levels
  BY <1>6, <1>7 DEF Levels
<1>9. ASSUME NEW q \in Maps, Within(lo, q, hi), \A k \in 1..n : Precedes(f[k].samples, q)
      PROVE  Within(now, q, hi)
  <2>. SUFFICES ASSUME NEW b \in DOMAIN q PROVE now[q[b].tag] < q[b].seq /\ q[b].seq <= hi[q[b].tag]
    BY DEF Within
  <2>1. q[b].tag \in PlaneTags
    BY MapTypes
  <2>2. lo[q[b].tag] < q[b].seq /\ q[b].seq <= hi[q[b].tag]
    BY <1>9 DEF Within
  <2>3. ASSUME NEW k \in 1..n, NEW a \in DOMAIN f[k].samples, f[k].samples[a].tag = q[b].tag,
               now[q[b].tag] = f[k].samples[a].seq
        PROVE  now[q[b].tag] < q[b].seq
    BY <1>9, <2>3 DEF Precedes
  <2> QED BY <1>5, <2>1, <2>2, <2>3
<1>10. Within(now, p, hi)
  BY <1>1, <1>9 DEF Orderly
<1>11. ASSUME NEW i \in DOMAIN r PROVE Within(now, r[i].samples, hi)
  <2>1. n + i \in DOMAIN f /\ r[i] = f[n + i] /\ \A k \in 1..n : k \in DOMAIN f /\ k < n + i
    BY <1>1, <1>3
  <2>2. r[i].samples \in Maps
    BY <2>1, FrameTypes
  <2>3. Within(lo, r[i].samples, hi) /\ \A k \in 1..n : Precedes(f[k].samples, r[i].samples)
    BY <2>1 DEF Orderly
  <2> QED BY <1>9, <2>2, <2>3
<1>12. Orderly(now, r, p, hi)
  BY <1>4, <1>10, <1>11 DEF Orderly
<1> QED BY <1>7, <1>8, <1>12 DEF now, g, r

\* A message that is received has been seen, up to its own samples.
LEMMA SeenNow ==
    ASSUME NEW lo \in Levels, NEW x \in Frames
    PROVE  \A a \in DOMAIN x.samples : x.samples[a].seq = Seen(lo, <<x>>)[x.samples[a].tag]
<1>. DEFINE g == <<x>>
            p == x.samples
<1>1. g \in Seq(Frames) /\ DOMAIN g = {1} /\ g[1] = x
  OBVIOUS
<1>2. p \in Maps
  BY DEF Frames
<1>. HIDE DEF g, p
<1>. SUFFICES ASSUME NEW a \in DOMAIN p PROVE p[a].seq = Seen(lo, g)[p[a].tag]
  BY DEF g, p
<1>. DEFINE t == p[a].tag
            with == {i \in DOMAIN g : OfTag(g[i].samples, t) # {}}
<1>3. t \in PlaneTags
  BY <1>2, MapTypes
<1>4. Seen(lo, g)[t] = IF with = {} THEN lo[t] ELSE Latest(g[Max(with)].samples, t).seq
  BY <1>3 DEF Seen
<1>5. a \in OfTag(p, t)
  BY DEF OfTag
<1>6. with = {1}
  BY <1>1, <1>5 DEF p
<1>7. Max(with) = 1
  <2>1. with \subseteq 1..1 /\ with # {}
    BY <1>6
  <2>. HIDE DEF with
  <2>2. Max(with) \in with
    BY <2>1, LastPlace
  <2> QED BY <1>6, <2>2
<1>8. Max(OfTag(p, t)) \in OfTag(p, t)
  BY <1>2, TagPlaces, <1>5, LastPlace
<1>9. Max(OfTag(p, t)) = a
  BY <1>8, <1>2 DEF OfTag, Maps, OnePerTag
<1>10. Latest(p, t) = p[a]
  BY <1>9 DEF Latest
<1>11. g[Max(with)].samples = p
  BY <1>1, <1>7 DEF p
<1>12. Seen(lo, g)[t] = Latest(p, t).seq
  BY <1>4, <1>6, <1>11
<1> QED BY <1>10, <1>12

-----------------------------------------------------------------------------
(* The maps of pending samples.                                            *)

LEMMA PutKeeps ==
    ASSUME NEW p \in Maps, NEW s \in Sample
    PROVE  /\ Put(p, s).pending \in Maps /\ Put(p, s).pending # <<>>
           /\ Put(p, s).out \in Nat
           /\ \A b \in DOMAIN Put(p, s).pending :
                  Put(p, s).pending[b] = s \/ \E a \in DOMAIN p : Put(p, s).pending[b] = p[a]
<1>. DEFINE at == {i \in DOMAIN p : p[i].tag = s.tag}
            full == Len(p) >= MaxPending
<1>1. p \in Seq(Sample) /\ OnePerTag(p) /\ Len(p) <= MaxPending /\ Len(p) \in Nat /\ DOMAIN p = 1..Len(p)
  BY DEF Maps
<1>2. MaxPending \in Nat /\ MaxPending >= 1
  BY PlaneAssumption
<1>3. CASE at # {}
  <2>. DEFINE q == [i \in DOMAIN p |-> IF i \in at THEN s ELSE p[i]]
  <2>1. Put(p, s) = [pending |-> q, out |-> 0]
    BY <1>3 DEF Put
  <2>2. \A i \in DOMAIN p : q[i] \in Sample /\ q[i].tag = p[i].tag /\ (q[i] = s \/ q[i] = p[i])
    BY <1>1
  <2>3. DOMAIN q = DOMAIN p
    OBVIOUS
  <2>. HIDE DEF q
  <2>4. q \in Seq(Sample) /\ Len(q) = Len(p)
    BY <1>1, <2>2 DEF q
  <2>5. OnePerTag(q)
    BY <1>1, <2>2, <2>3 DEF OnePerTag
  <2>6. q \in Maps
    BY <1>1, <2>4, <2>5 DEF Maps
  <2>7. q # <<>>
    BY <1>1, <1>3, <2>4
  <2> QED BY <2>1, <2>2, <2>3, <2>6, <2>7
<1>4. CASE at = {}
  <2>. DEFINE left == IF full THEN Tail(p) ELSE p
              q == Append(left, s)
              k == IF full THEN 1 ELSE 0
  <2>1. Put(p, s) = [pending |-> q, out |-> k]
    BY <1>4 DEF Put
  <2>2. full => p # <<>>
    BY <1>1, <1>2
  <2>3. /\ left \in Seq(Sample) /\ Len(left) = Len(p) - k
        /\ \A i \in 1..Len(left) : i + k \in DOMAIN p /\ left[i] = p[i + k]
    <3>1. CASE full
      BY <1>1, <2>2, <3>1
    <3>2. CASE ~full
      BY <1>1, <3>2
    <3> QED BY <3>1, <3>2
  <2>4. k \in {0, 1} /\ Len(p) - k + 1 <= MaxPending
    BY <1>1, <1>2
  <2>. HIDE DEF left, k
  <2>5. q \in Seq(Sample) /\ Len(q) = Len(p) - k + 1 /\ q # <<>>
    BY <2>3, AppendProperties
  <2>6. \A b \in DOMAIN q : (b \in 1..Len(left) /\ q[b] = left[b]) \/ (b = Len(left) + 1 /\ q[b] = s)
    BY <2>3
  <2>. HIDE DEF q
  <2>7. \A b \in DOMAIN q : \/ b + k \in DOMAIN p /\ q[b] = p[b + k] /\ b \in 1..Len(left)
                            \/ b = Len(left) + 1 /\ q[b] = s
    BY <2>3, <2>6
  <2>8. OnePerTag(q)
    <3>. SUFFICES ASSUME NEW i \in DOMAIN q, NEW j \in DOMAIN q, q[i].tag = q[j].tag PROVE i = j
      BY DEF OnePerTag
    <3>1. \A c \in DOMAIN p : p[c].tag # s.tag
      BY <1>4
    <3>2. CASE i = Len(left) + 1 /\ q[i] = s
      BY <2>7, <3>1, <3>2
    <3>3. CASE i + k \in DOMAIN p /\ q[i] = p[i + k] /\ i \in 1..Len(left)
      BY <2>7, <3>1, <3>3, <1>1, <2>4 DEF OnePerTag
    <3> QED BY <2>7, <3>2, <3>3
  <2>9. q \in Maps
    BY <2>4, <2>5, <2>8 DEF Maps
  <2>10. k \in Nat
    BY <2>4
  <2> QED BY <2>1, <2>5, <2>7, <2>9, <2>10
<1> QED BY <1>3, <1>4

PutState == [pending : Maps, out : Nat]

PutStep ==
    [x \in PutState \X Sample |->
        [pending |-> Put(x[1].pending, x[2]).pending, out |-> x[1].out + Put(x[1].pending, x[2]).out]]

LEMMA PutStepType == PutStep \in [PutState \X Sample -> PutState]
<1>. SUFFICES ASSUME NEW x \in PutState \X Sample
              PROVE  [pending |-> Put(x[1].pending, x[2]).pending, out |-> x[1].out + Put(x[1].pending, x[2]).out] \in PutState
  BY Zenon DEF PutStep
<1>1. x[1].pending \in Maps /\ x[1].out \in Nat /\ x[2] \in Sample
  BY DEF PutState
<1>2. Put(x[1].pending, x[2]).pending \in Maps /\ Put(x[1].pending, x[2]).out \in Nat
  BY <1>1, PutKeeps
<1>3. x[1].out + Put(x[1].pending, x[2]).out \in Nat
  BY <1>1, <1>2
<1> QED BY <1>2, <1>3 DEF PutState

LEMMA PutAllRun ==
    ASSUME NEW p \in Maps, NEW s \in Seq(Sample)
    PROVE  \E f \in [0..Len(s) -> PutState] :
               Runs(f, [pending |-> p, out |-> 0], PutStep, s) /\ PutAll(p, s) = f[Len(s)]
<1>. DEFINE base == [pending |-> p, out |-> 0]
            Body(g, n) ==
                IF n = 0 THEN base
                ELSE LET put == Put(g[n - 1].pending, s[n])
                     IN [pending |-> put.pending, out |-> g[n - 1].out + put.out]
            g == CHOOSE f : f = [n \in 0..Len(s) |-> Body(f, n)]
<1>0. Len(s) \in Nat /\ \A n \in 1..Len(s) : s[n] \in Sample /\ n # 0 /\ n - 1 \in 0..Len(s) /\ n \in 0..Len(s)
  OBVIOUS
<1>b. base \in PutState
  BY DEF PutState
<1>1. PICK f : f \in [0..Len(s) -> PutState] /\ Runs(f, base, PutStep, s)
  BY <1>b, PutStepType, RunExists, Zenon
<1>2. \A q \in PutState, n \in 1..Len(s) :
         PutStep[<<q, s[n]>>] = [pending |-> Put(q.pending, s[n]).pending, out |-> q.out + Put(q.pending, s[n]).out]
  BY <1>0 DEF PutStep
<1>3. f = [n \in 0..Len(s) |-> Body(f, n)]
  <2>1. \A n \in 1..Len(s) : f[n] = Body(f, n)
    BY <1>0, <1>1, <1>2 DEF Runs
  <2>2. f[0] = Body(f, 0)
    BY <1>1 DEF Runs
  <2>. HIDE DEF Body
  <2>3. \A n \in 0..Len(s) : f[n] = Body(f, n)
    BY <1>0, <2>1, <2>2
  <2> QED BY <1>1, <2>3
<1>4. g = [n \in 0..Len(s) |-> Body(g, n)]
  <2>. HIDE DEF Body
  <2> QED BY <1>3
<1>5. PutAll(p, s) = g[Len(s)]
  BY DEF PutAll
<1>. HIDE DEF g
<1>6. \A n \in 1..Len(s) : g[n] = Body(g, n)
  <2>. HIDE DEF Body
  <2> QED BY <1>0, <1>4
<1>7. g[0] = base /\ DOMAIN g = 0..Len(s)
  BY <1>0, <1>4
<1>. DEFINE T == {n \in 0..Len(s) : g[n] = f[n]}
<1>8. 0 \in T
  BY <1>0, <1>1, <1>7 DEF Runs
<1>9. ASSUME NEW n \in 1..Len(s), n - 1 \in T PROVE n \in T
  <2>1. f[n - 1] \in PutState /\ g[n - 1] = f[n - 1]
    BY <1>0, <1>1, <1>9
  <2>2. f[n] = PutStep[<<f[n - 1], s[n]>>]
    BY <1>1 DEF Runs
  <2>3. g[n] = [pending |-> Put(g[n - 1].pending, s[n]).pending, out |-> g[n - 1].out + Put(g[n - 1].pending, s[n]).out]
    BY <1>0, <1>6
  <2>4. f[n] = g[n]
    BY <1>2, <2>1, <2>2, <2>3
  <2> QED BY <1>0, <2>4
<1>. HIDE DEF T
<1>10. 0..Len(s) \subseteq T
  BY <1>0, <1>8, <1>9, Climb
<1>11. PutAll(p, s) = f[Len(s)]
  BY <1>0, <1>5, <1>10 DEF T
<1> QED BY <1>1, <1>11

\* All that pends after samples have arrived was pending or has arrived.
LEMMA PutAllKeeps ==
    ASSUME NEW p \in Maps, NEW s \in Maps
    PROVE  /\ PutAll(p, s).pending \in Maps /\ PutAll(p, s).out \in Nat
           /\ \A b \in DOMAIN PutAll(p, s).pending :
                  \/ \E a \in DOMAIN p : PutAll(p, s).pending[b] = p[a]
                  \/ \E a \in DOMAIN s : PutAll(p, s).pending[b] = s[a]
<1>. DEFINE base == [pending |-> p, out |-> 0]
<1>0. s \in Seq(Sample) /\ Len(s) \in Nat /\ DOMAIN s = 1..Len(s)
  BY DEF Maps
<1>1. PICK f : f \in [0..Len(s) -> PutState] /\ Runs(f, base, PutStep, s) /\ PutAll(p, s) = f[Len(s)]
  BY <1>0, PutAllRun
<1>. DEFINE From(q) == \A b \in DOMAIN q : (\E a \in DOMAIN p : q[b] = p[a]) \/ (\E a \in DOMAIN s : q[b] = s[a])
            T == {n \in 0..Len(s) : From(f[n].pending)}
<1>2. 0 \in T
  BY <1>1, <1>0 DEF Runs
<1>3. ASSUME NEW n \in 1..Len(s), n - 1 \in T PROVE n \in T
  <2>. DEFINE old == f[n - 1].pending
              x == s[n]
              q == f[n].pending
  <2>0. n - 1 \in 0..Len(s) /\ n \in 0..Len(s) /\ n \in DOMAIN s
    BY <1>0
  <2>1. f[n - 1] \in PutState /\ x \in Sample
    BY <1>0, <1>1, <2>0
  <2>2. f[n] = PutStep[<<f[n - 1], x>>]
    BY <1>1 DEF Runs
  <2>3. q = Put(old, x).pending
    BY <2>1, <2>2 DEF PutStep
  <2>4. old \in Maps
    BY <2>1 DEF PutState
  <2>5. \A b \in DOMAIN q : q[b] = x \/ \E a \in DOMAIN old : q[b] = old[a]
    BY <2>1, <2>3, <2>4, PutKeeps
  <2>6. From(old)
    BY <1>3
  <2>. HIDE DEF old, q
  <2>7. From(q)
    BY <2>0, <2>5, <2>6
  <2> QED BY <2>0, <2>7 DEF q
<1>. HIDE DEF T, From
<1>4. 0..Len(s) \subseteq T
  BY <1>0, <1>2, <1>3, Climb
<1>5. Len(s) \in 0..Len(s)
  BY <1>0
<1>6. From(f[Len(s)].pending)
  BY <1>4, <1>5 DEF T
<1>7. f[Len(s)] \in PutState
  BY <1>1, <1>5
<1> QED BY <1>1, <1>6, <1>7 DEF From, PutState

-----------------------------------------------------------------------------
(* The mirror, with what its process has been told.                        *)

RustFields == {"seen", "got", "dropped"}

\* Frames and samples in their order, statuses as accepted; a mirror that is to
\* be started again starts with nothing.
Flows(m, r, hi) ==
    /\ DOMAIN m = MirrorFields /\ DOMAIN r = RustFields
    /\ m.child \in {"none", "running", "deaf"}
    /\ m.outbound \in Seq(Frames) /\ m.pending \in Maps /\ m.dropped \in Nat
    /\ Len(m.outbound) <= MaxOutbound
    /\ r.seen \in Levels /\ r.got \in Seq(Numbers) /\ r.dropped \in Nat
    /\ Orderly(r.seen, m.outbound, m.pending, hi)
    /\ \A t \in PlaneTags : r.seen[t] <= hi[t]
    /\ m.accepted = r.got \o Commands(m.outbound)
    /\ m.restart => m.child = "none" /\ m.outbound = <<>> /\ m.accepted = <<>>

\* The drops that the mirror owes its process or has told it.
Owed(m, r) == m.dropped + Drops(m.outbound) + r.dropped

LEMMA NumbersJoin ==
    ASSUME NEW a \in Seq(Numbers), NEW b \in Seq(Numbers), NEW c \in Seq(Numbers)
    PROVE  (a \o b) \o c = a \o (b \o c) /\ a \o b \in Seq(Numbers)
OBVIOUS

LEMMA FramesSay ==
    ASSUME NEW f \in Seq(Frames)
    PROVE  Commands(f) \in Seq(Numbers) /\ Drops(f) \in Nat
BY CommandsJoin, DropsJoin

LEMMA DrainedFlows ==
    ASSUME NEW m, NEW hi \in Levels, Flows(m, rust, hi), Drained(m)
    PROVE  Flows(mirror', rust', hi) /\ Owed(mirror', rust') = Owed(m, rust) /\ mirror'.pending = m.pending
<1>0. m.child = "running"
  BY DEF Drained
<1>1. CASE m.blocked \/ m.outbound = <<>>
  BY <1>1 DEF Drained
<1>2. CASE ~(m.blocked \/ m.outbound = <<>>)
  <2>. DEFINE out == m.outbound
  <2>1. PICK n \in DOMAIN out, full \in BOOLEAN :
            /\ rust' = Told(rust, SubSeq(out, 1, n))
            /\ mirror' = [m EXCEPT !.outbound = SubSeq(out, n + 1, Len(out)), !.blocked = full]
    BY <1>2 DEF Drained
  <2>. DEFINE g == SubSeq(out, 1, n)
              rest == SubSeq(out, n + 1, Len(out))
              now == Seen(rust.seen, g)
  <2>2. out \in Seq(Frames) /\ Len(out) <= MaxOutbound
    BY DEF Flows
  <2>3. n \in 0..Len(out) /\ Len(out) \in Nat /\ n \in Nat
    BY <2>2
  <2>4. Orderly(rust.seen, out, m.pending, hi) /\ rust.seen \in Levels /\ m.pending \in Maps
        /\ \A t \in PlaneTags : rust.seen[t] <= hi[t]
    BY DEF Flows
  <2>5. now \in Levels /\ Orderly(now, rest, m.pending, hi) /\ \A t \in PlaneTags : now[t] <= hi[t]
    <3>. HIDE DEF out
    <3> QED BY <2>2, <2>3, <2>4, ConsumedOrderly
  <2>6. /\ g \in Seq(Frames) /\ rest \in Seq(Frames)
        /\ Commands(out) = Commands(g) \o Commands(rest)
        /\ Drops(out) = Drops(g) + Drops(rest)
    <3>. HIDE DEF out
    <3> QED BY <2>2, <2>3, CutInTwo
  <2>7. Len(rest) <= MaxOutbound
    <3>1. Len(rest) <= Len(out)
      BY <2>2, <2>3
    <3>2. Len(rest) \in Nat /\ MaxOutbound \in Nat
      BY <2>6, PlaneAssumption
    <3>. HIDE DEF rest, out
    <3> QED BY <2>2, <2>3, <3>1, <3>2
  <2>. HIDE DEF g, rest, now, out
  <2>8. /\ Commands(g) \in Seq(Numbers) /\ Commands(rest) \in Seq(Numbers)
        /\ Drops(g) \in Nat /\ Drops(rest) \in Nat
    BY <2>6, FramesSay
  <2>9. rust' = [seen |-> now, got |-> rust.got \o Commands(g), dropped |-> rust.dropped + Drops(g)]
    BY <2>1 DEF Told, g, now
  <2>10. mirror' = [m EXCEPT !.outbound = rest, !.blocked = full]
    BY <2>1 DEF rest
  <2>11. DOMAIN m = MirrorFields
    BY DEF Flows
  <2>12. /\ DOMAIN mirror' = MirrorFields /\ mirror'.outbound = rest
         /\ mirror'.child = m.child /\ mirror'.pending = m.pending /\ mirror'.dropped = m.dropped
         /\ mirror'.accepted = m.accepted /\ mirror'.restart = m.restart
    BY <2>10, <2>11 DEF MirrorFields
  <2>13. /\ DOMAIN rust' = RustFields /\ rust'.seen = now
         /\ rust'.got = rust.got \o Commands(g) /\ rust'.dropped = rust.dropped + Drops(g)
    BY <2>9 DEF RustFields
  <2>14. rust.got \in Seq(Numbers) /\ rust.dropped \in Nat /\ m.dropped \in Nat
         /\ m.accepted = rust.got \o Commands(out) /\ ~m.restart
    BY <1>0 DEF Flows, out
  <2>15. rust'.got \in Seq(Numbers) /\ mirror'.accepted = rust'.got \o Commands(rest)
    <3>1. rust.got \in Seq(Numbers) /\ Commands(g) \in Seq(Numbers) /\ Commands(rest) \in Seq(Numbers)
      BY <2>8, <2>14
    <3>2. /\ (rust.got \o Commands(g)) \o Commands(rest) = rust.got \o (Commands(g) \o Commands(rest))
          /\ rust.got \o Commands(g) \in Seq(Numbers)
      BY <3>1, NumbersJoin, Zenon
    <3>3. mirror'.accepted = rust.got \o (Commands(g) \o Commands(rest))
      BY <2>6, <2>12, <2>14
    <3> QED BY <2>13, <3>2, <3>3
  <2>16. rust'.dropped \in Nat /\ Owed(mirror', rust') = Owed(m, rust)
    <3>. DEFINE a == Drops(g)
                b == Drops(rest)
                d == m.dropped
                r == rust.dropped
    <3>1. a \in Nat /\ b \in Nat /\ d \in Nat /\ r \in Nat
      BY <2>8, <2>14
    <3>2. rust'.dropped = r + a /\ mirror'.dropped = d /\ Drops(mirror'.outbound) = b /\ Drops(m.outbound) = a + b
      BY <2>6, <2>12, <2>13 DEF out
    <3>. HIDE DEF a, b, d, r
    <3>3. Owed(m, rust) = d + (a + b) + r /\ Owed(mirror', rust') = d + b + (r + a)
      BY <3>2 DEF Owed, d, r
    <3>4. r + a \in Nat /\ d + (a + b) + r = d + b + (r + a)
      BY <3>1
    <3> QED BY <3>2, <3>3, <3>4
  <2>17. Flows(mirror', rust', hi)
    BY <1>0, <2>4, <2>5, <2>6, <2>7, <2>12, <2>13, <2>14, <2>15, <2>16 DEF Flows
  <2> QED BY <2>12, <2>16, <2>17
<1> QED BY <1>1, <1>2

\* A frame that makes room takes nothing of the order along.
LEMMA RoomFlows ==
    ASSUME NEW m, NEW r, NEW hi, Flows(m, r, hi)
    PROVE  /\ Flows(Room(m), r, hi)
           /\ Room(m).child = m.child /\ Room(m).pending = m.pending
           /\ Room(m).dropped = m.dropped /\ Room(m).accepted = m.accepted
           /\ \A j \in DOMAIN Room(m).outbound : \E i \in DOMAIN m.outbound : Room(m).outbound[j] = m.outbound[i]
<1>. DEFINE telemetry == {i \in DOMAIN m.outbound : m.outbound[i].kind = "telemetry"}
            k == CHOOSE i \in telemetry : \A j \in telemetry : i <= j
<1>1. CASE Len(m.outbound) < MaxOutbound \/ telemetry = {}
  BY <1>1 DEF Room
<1>2. CASE ~(Len(m.outbound) < MaxOutbound \/ telemetry = {})
  <2>. DEFINE old == m.outbound
              out == RemoveAt(old, k)
  <2>1. Room(m) = [m EXCEPT !.outbound = out]
    BY <1>2 DEF Room
  <2>2. old \in Seq(Frames) /\ Len(old) \in Nat
    BY DEF Flows
  <2>3. telemetry \subseteq Nat /\ telemetry # {}
    BY <1>2, <2>2
  <2>4. k \in telemetry
    <3>. HIDE DEF telemetry
    <3> QED BY <2>3, OldestExists
  <2>5. k \in DOMAIN old /\ old[k].kind = "telemetry"
    BY <2>4
  <2>. HIDE DEF k
  <2>6. out \in Seq(Frames) /\ Commands(out) = Commands(old)
    <3>. HIDE DEF old
    <3> QED BY <2>2, <2>5, GivenUp
  <2>7. Orderly(r.seen, old, m.pending, hi)
    BY DEF Flows
  <2>8. /\ Orderly(r.seen, out, m.pending, hi) /\ Len(out) = Len(old) - 1
        /\ \A j \in DOMAIN out : \E i \in DOMAIN old : out[j] = old[i]
    <3>. HIDE DEF old
    <3> QED BY <2>2, <2>5, <2>7, RemovedOrderly
  <2>9. old # <<>>
    BY <2>2, <2>5
  <2>10. Len(old) <= MaxOutbound /\ MaxOutbound \in Nat
    BY PlaneAssumption DEF Flows
  <2>. HIDE DEF out
  <2>11. Len(out) <= MaxOutbound
    BY <2>2, <2>8, <2>10
  <2>12. DOMAIN m = MirrorFields
    BY DEF Flows
  <2>13. /\ DOMAIN Room(m) = MirrorFields /\ Room(m).outbound = out
         /\ Room(m).child = m.child /\ Room(m).pending = m.pending /\ Room(m).dropped = m.dropped
         /\ Room(m).accepted = m.accepted /\ Room(m).restart = m.restart
    BY <2>1, <2>12 DEF MirrorFields
  <2>14. Flows(Room(m), r, hi)
    BY <2>6, <2>8, <2>9, <2>11, <2>13 DEF Flows
  <2> QED BY <2>8, <2>13, <2>14
<1> QED BY <1>1, <1>2

LEMMA EnqueueFlows ==
    ASSUME NEW m, NEW hi \in Levels, Flows(m, rust, hi), NEW x \in Frames,
           Within(rust.seen, x.samples, hi), Precedes(x.samples, m.pending),
           \A i \in DOMAIN m.outbound : Precedes(m.outbound[i].samples, x.samples),
           cut \in BOOLEAN, Enqueue(m, x)
    PROVE  /\ Flows(mirror', rust', hi) /\ cut' \in BOOLEAN
           /\ ~cut' => ~cut /\ Owed(mirror', rust') = Owed(m, rust) + x.dropped
<1>. DEFINE room == Room(m)
<1>1. /\ Flows(room, rust, hi)
      /\ room.child = m.child /\ room.pending = m.pending
      /\ room.dropped = m.dropped /\ room.accepted = m.accepted
      /\ \A j \in DOMAIN room.outbound : \E i \in DOMAIN m.outbound : room.outbound[j] = m.outbound[i]
  BY RoomFlows
<1>2. CASE m.child # "running" \/ Len(room.outbound) >= MaxOutbound
  BY <1>2 DEF Enqueue
<1>3. CASE ~(m.child # "running" \/ Len(room.outbound) >= MaxOutbound)
  <2>. DEFINE out == Append(room.outbound, x)
              acc == IF x.kind = "command" THEN Append(room.accepted, x.about) ELSE room.accepted
              next == [room EXCEPT !.outbound = out, !.accepted = acc]
  <2>1. Drained(next) /\ cut' = (cut \/ room # m)
    BY <1>3 DEF Enqueue
  <2>. HIDE DEF room
  <2>2. /\ room.outbound \in Seq(Frames) /\ Orderly(rust.seen, room.outbound, room.pending, hi)
        /\ room.accepted = rust.got \o Commands(room.outbound) /\ rust.got \in Seq(Numbers)
        /\ rust.dropped \in Nat /\ room.dropped \in Nat /\ DOMAIN room = MirrorFields
    BY <1>1 DEF Flows
  <2>3. Orderly(rust.seen, out, room.pending, hi)
    BY <1>1, <2>2, JoinedOrderly
  <2>4. /\ out \in Seq(Frames)
        /\ Commands(out) = IF x.kind = "command" THEN Append(Commands(room.outbound), x.about) ELSE Commands(room.outbound)
        /\ Drops(out) = Drops(room.outbound) + x.dropped
    BY <2>2, OneMore
  <2>5. Commands(room.outbound) \in Seq(Numbers) /\ Drops(room.outbound) \in Nat
        /\ x.about \in Numbers /\ x.dropped \in Nat
    BY <2>2, FramesSay DEF Frames
  <2>6. Len(out) <= MaxOutbound
    BY <2>2, PlaneAssumption, <1>3
  <2>7. acc = rust.got \o Commands(out)
    BY <2>2, <2>4, <2>5, NumbersOnto
  <2>. HIDE DEF out, acc
  <2>8. /\ DOMAIN next = MirrorFields /\ next.outbound = out /\ next.accepted = acc
        /\ next.child = room.child /\ next.pending = room.pending /\ next.dropped = room.dropped
        /\ next.restart = room.restart
    BY <2>2 DEF MirrorFields
  <2>. HIDE DEF next
  <2>9. ~room.restart
    BY <1>1, <1>3 DEF Flows
  <2>10. Flows(next, rust, hi)
    BY <1>1, <2>3, <2>4, <2>6, <2>7, <2>8, <2>9 DEF Flows
  <2>11. Flows(mirror', rust', hi) /\ Owed(mirror', rust') = Owed(next, rust)
    BY <2>1, <2>10, DrainedFlows
  <2>12. Owed(next, rust) = Owed(room, rust) + x.dropped
    BY <2>2, <2>4, <2>5, <2>8 DEF Owed
  <2> QED BY <2>1, <2>11, <2>12
<1> QED BY <1>2, <1>3

LEMMA FlushFlows ==
    ASSUME NEW m, NEW hi \in Levels, Flows(m, rust, hi), cut \in BOOLEAN, Flush(m)
    PROVE  /\ Flows(mirror', rust', hi) /\ cut' \in BOOLEAN
           /\ ~cut' => ~cut /\ Owed(mirror', rust') = Owed(m, rust)
<1>0. DOMAIN m = MirrorFields
  BY DEF Flows
<1>1. CASE m.pending = <<>>
  BY <1>1, <1>0 DEF Flush, MirrorFields, Flows, Owed
<1>2. CASE m.pending # <<>>
  <2>. DEFINE left == [m EXCEPT !.flush = FALSE, !.pending = <<>>, !.dropped = 0]
              x == Telemetry(m.pending, m.dropped)
  <2>1. Enqueue(left, x)
    BY <1>2 DEF Flush
  <2>2. /\ DOMAIN left = MirrorFields /\ left.outbound = m.outbound /\ left.accepted = m.accepted
        /\ left.child = m.child /\ left.pending = <<>> /\ left.dropped = 0
        /\ left.restart = m.restart
    BY <1>0 DEF MirrorFields
  <2>. HIDE DEF left
  <2>3. x \in Frames /\ x.samples = m.pending /\ x.dropped = m.dropped
    BY <1>2 DEF Flows, Telemetry, Frame, Frames, Numbers
  <2>. HIDE DEF x
  <2>4. /\ Within(rust.seen, x.samples, hi) /\ Precedes(x.samples, left.pending)
        /\ \A i \in DOMAIN left.outbound : Precedes(left.outbound[i].samples, x.samples)
    BY <2>2, <2>3 DEF Flows, Orderly, Precedes
  <2>5. Flows(left, rust, hi)
    BY EmptiedOrderly, <2>2, EmptyMap DEF Flows
  <2>6. /\ Flows(mirror', rust', hi) /\ cut' \in BOOLEAN
        /\ ~cut' => ~cut /\ Owed(mirror', rust') = Owed(left, rust) + x.dropped
    BY <2>1, <2>3, <2>4, <2>5, EnqueueFlows
  <2>7. Owed(left, rust) + x.dropped = Owed(m, rust)
    BY FramesSay, <2>2, <2>3 DEF Flows, Owed
  <2> QED BY <2>6, <2>7
<1> QED BY <1>1, <1>2

-----------------------------------------------------------------------------
(* The invariant of the samples, statuses and counts on their way.         *)

Manned ==
    /\ worker.child \in {"none", "running", "error"} /\ worker.run \in Nat
    /\ server \in {"starting", "up", "closing worker", "close mirror", "closing mirror", "done"}
    /\ budget \in [{"samples", "commands", "beats", "exits", "errors", "breaks"} -> Nat]

\* From the worker process to the hub.
SourceFlows(s, w, lo, hi) ==
    /\ s.pending \in Maps /\ s.dropped \in Nat /\ (s.pending = <<>> => s.dropped = 0)
    /\ w \in Seq(Frames)
    /\ Orderly(lo, w, s.pending, hi)
    /\ lo \in Levels /\ hi \in Levels /\ \A t \in PlaneTags : lo[t] <= hi[t]

FlowIInv ==
    /\ Manned
    /\ evicted \in Nat /\ cut \in BOOLEAN
    /\ SourceFlows(sink, wire, hub, newest)
    /\ Flows(mirror, rust, hub)
    /\ ~cut => evicted = sink.dropped + Drops(wire) + Owed(mirror, rust)

LEMMA FlowIsEnough == FlowIInv => FlowInv
<1>. SUFFICES ASSUME FlowIInv PROVE FlowInv
  OBVIOUS
<1>1. SourceFlows(sink, wire, hub, newest) /\ Flows(mirror, rust, hub) /\ Manned
  BY DEF FlowIInv
<1>2. OrderIsKept
  BY <1>1, OrderlyAscends DEF SourceFlows, Flows, OrderIsKept
<1>3. CommandsGoThrough
  BY <1>1 DEF Flows, CommandsGoThrough
<1>4. PlaneTypeOK
  <2>1. \A t \in PlaneTags : hub[t] \in Nat /\ rust.seen[t] \in Nat
    BY <1>1 DEF SourceFlows, Flows, Levels
  <2>2. Len(sink.pending) <= MaxPending /\ Len(mirror.pending) <= MaxPending
    BY <1>1 DEF SourceFlows, Flows, Maps
  <2> QED BY <1>1, <2>1, <2>2 DEF PlaneTypeOK, Manned, Flows
<1>5. DropsAreCounted
  <2>1. sink.dropped \in Nat /\ mirror.dropped \in Nat /\ rust.dropped \in Nat /\ wire \in Seq(Frames) /\ mirror.outbound \in Seq(Frames)
    BY <1>1 DEF SourceFlows, Flows
  <2>2. Drops(wire) \in Nat /\ Drops(mirror.outbound) \in Nat
    BY <2>1, FramesSay
  <2> QED BY <2>1, <2>2 DEF FlowIInv, DropsAreCounted, Owed
<1> QED BY <1>2, <1>3, <1>4, <1>5 DEF FlowInv

LEMMA NothingOrderly == ASSUME NEW lo, NEW hi PROVE Orderly(lo, <<>>, <<>>, hi)
BY DEF Orderly, Within

LEMMA FlowStarts == PlaneInit => FlowIInv
<1>. SUFFICES ASSUME PlaneInit PROVE FlowIInv
  OBVIOUS
<1>1. Manned
  BY PlaneAssumption DEF PlaneInit, Manned
<1>2. hub \in Levels /\ newest \in Levels /\ \A t \in PlaneTags : hub[t] <= newest[t]
  BY DEF PlaneInit, Levels
<1>3. SourceFlows(sink, wire, hub, newest)
  BY <1>2, EmptyMap, NothingOrderly DEF PlaneInit, SourceFlows, EmptySink
<1>4. Flows(mirror, rust, hub)
  <2>1. DOMAIN mirror = MirrorFields /\ mirror.child = "none" /\ mirror.outbound = <<>> /\ mirror.pending = <<>>
        /\ mirror.dropped = 0 /\ mirror.accepted = <<>> /\ ~mirror.restart
    BY DEF PlaneInit, EmptyMirror, MirrorFields
  <2>2. DOMAIN rust = RustFields /\ rust.seen \in Levels /\ rust.got = <<>> /\ rust.dropped = 0
        /\ \A t \in PlaneTags : rust.seen[t] <= hub[t]
    BY DEF PlaneInit, RustFields, Levels
  <2>3. <<>> \in Seq(Frames) /\ <<>> \in Seq(Numbers) /\ <<>> \o <<>> = <<>> /\ Len(<<>>) = 0
    OBVIOUS
  <2>4. 0 <= MaxOutbound
    BY PlaneAssumption
  <2> QED BY <2>1, <2>2, <2>3, <2>4, EmptyMap, NothingOrderly, EmptyFrames DEF Flows
<1>5. evicted = 0 /\ cut = FALSE /\ sink.dropped = 0 /\ Drops(wire) = 0 /\ Owed(mirror, rust) = 0
  BY EmptyFrames DEF PlaneInit, EmptySink, EmptyMirror, Owed
<1>6. evicted = sink.dropped + Drops(wire) + Owed(mirror, rust) /\ evicted \in Nat /\ cut \in BOOLEAN
  <2>1. 0 = 0 + 0 + 0 /\ 0 \in Nat
    OBVIOUS
  <2>2. cut \in BOOLEAN
    BY <1>5
  <2>3. sink.dropped + Drops(wire) + Owed(mirror, rust) = 0 + 0 + 0
    BY <1>5
  <2> QED BY <1>5, <2>1, <2>2, <2>3
<1> QED BY <1>1, <1>3, <1>4, <1>6 DEF FlowIInv

LEMMA FlowStutters == FlowIInv /\ UNCHANGED planeVars => FlowIInv'
<1>. SUFFICES ASSUME FlowIInv, UNCHANGED planeVars PROVE FlowIInv'
  OBVIOUS
<1>1. /\ sink' = sink /\ wire' = wire /\ worker' = worker /\ mirror' = mirror /\ rust' = rust /\ hub' = hub
      /\ server' = server /\ newest' = newest /\ evicted' = evicted /\ cut' = cut /\ budget' = budget
  BY DEF planeVars
<1>2. Manned'
  BY <1>1 DEF FlowIInv, Manned
<1>3. SourceFlows(sink', wire', hub', newest') /\ Flows(mirror', rust', hub')
  BY <1>1 DEF FlowIInv
<1>4. Drops(wire') = Drops(wire) /\ Owed(mirror', rust') = Owed(mirror, rust)
  BY <1>1
<1> QED BY <1>1, <1>2, <1>3, <1>4 DEF FlowIInv

\* The workers, the server and the budget.
Kinds == {"samples", "commands", "beats", "exits", "errors", "breaks"}

LEMMA OneLess ==
    ASSUME NEW K, NEW b \in [K -> Nat], NEW w \in K, b[w] > 0
    PROVE  [b EXCEPT ![w] = b[w] - 1] \in [K -> Nat]
OBVIOUS

LEMMA SpendsKeeps ==
    ASSUME budget \in [Kinds -> Nat], NEW what \in Kinds, Spends(what)
    PROVE  budget' \in [Kinds -> Nat]
BY OneLess DEF Spends

LEMMA MannedKeeps ==
    ASSUME Manned, WorkerIsSound, wire \in Seq(Frames), PlaneNext
    PROVE  Manned'
<1>0. DOMAIN worker = WorkerFields
  BY DEF WorkerIsSound
<1>1. budget' \in [Kinds -> Nat]
  <2>0. budget \in [Kinds -> Nat] /\ {"samples", "commands", "beats", "exits", "errors", "breaks"} = Kinds
    BY DEF Manned, Kinds
  <2>1. CASE \E what \in {"samples", "commands", "beats", "exits", "errors", "breaks"} : Spends(what)
    BY <2>0, <2>1, SpendsKeeps
  <2>2. CASE budget' = budget
    BY <2>0, <2>2
  <2>3. CASE MirrorExits
    <3>1. mirror.stopping \/ budget.exits > 0
      BY <2>3 DEF MirrorExits
    <3>2. budget' = IF mirror.stopping THEN budget ELSE [budget EXCEPT !.exits = @ - 1]
      BY <2>3 DEF MirrorExits
    <3>3. CASE mirror.stopping
      BY <2>0, <3>2, <3>3
    <3>4. CASE ~mirror.stopping
      BY <3>1, <3>2, <3>4, <2>0, OneLess DEF Kinds
    <3> QED BY <3>3, <3>4
  <2>4. CASE Listen \/ RestartWorker \/ RestartMirror
    BY <2>1, <2>2, <2>4 DEF Listen, RestartWorker, RestartMirror, SpawnFails
  <2>5. CASE (\E t \in PlaneTags : Publish(t)) \/ SinkFlush \/ SendCommand \/ SendHealth \/ WorkerExits
    BY <2>1, <2>2, <2>5 DEF Publish, SinkFlush, SendCommand, SendHealth, WorkerExits
  <2>6. CASE Receive \/ MirrorFlush \/ PipeDrains \/ PipeBreaks
    BY <2>1, <2>2, <2>6 DEF Receive, MirrorFlush, PipeDrains, PipeBreaks
  <2>7. CASE CloseWorker \/ CloseWorkerReturns \/ CloseMirror \/ CloseMirrorReturns
    BY <2>2, <2>7 DEF CloseWorker, CloseWorkerReturns, CloseMirror, CloseMirrorReturns
  <2> QED BY <2>3, <2>4, <2>5, <2>6, <2>7 DEF PlaneNext
<1>2. server' \in {"starting", "up", "closing worker", "close mirror", "closing mirror", "done"}
  BY DEF Manned, PlaneNext, Publish, SinkFlush, SendCommand, SendHealth, WorkerExits, Listen, RestartWorker, Receive,
         MirrorFlush, PipeDrains, PipeBreaks, MirrorExits, RestartMirror, CloseWorker, CloseWorkerReturns, CloseMirror,
         CloseMirrorReturns
<1>3. worker'.child \in {"none", "running", "error"} /\ worker'.run \in Nat
  <2>1. CASE worker' = worker
    BY <2>1 DEF Manned
  <2>2. CASE SpawnWorker \/ SpawnFails
    <3>. DEFINE next == worker.run + 1
    <3>1. next \in Nat
      <4>1. worker.run \in Nat
        BY DEF Manned
      <4> QED BY <4>1
    <3>2. \/ worker' = [worker EXCEPT !.child = "running", !.run = next, !.restart = FALSE, !.health = 0]
          \/ worker' = [worker EXCEPT !.child = "error", !.run = next, !.restart = FALSE, !.health = 0]
      BY <2>2 DEF SpawnWorker, SpawnFails
    <3>. HIDE DEF next
    <3> QED BY <1>0, <3>1, <3>2 DEF WorkerFields
  <2>3. CASE Listen \/ RestartWorker
    BY <2>2, <2>3 DEF Listen, RestartWorker
  <2>4. CASE WorkerExits \/ CloseWorker \/ CloseWorkerReturns
    <3>1. CASE WorkerExits
      <4>. DEFINE again == ~worker.stopping
      <4>1. worker' = [worker EXCEPT !.child = "none", !.health = 0, !.restart = again]
        BY <3>1 DEF WorkerExits
      <4>. HIDE DEF again
      <4> QED BY <1>0, <4>1 DEF Manned, WorkerFields
    <3>2. CASE CloseWorker
      BY <1>0, <3>2 DEF CloseWorker, Manned, WorkerFields
    <3>3. CASE CloseWorkerReturns
      BY <3>3, <1>0, <2>1 DEF CloseWorkerReturns, Manned, WorkerFields
    <3> QED BY <2>4, <3>1, <3>2, <3>3
  <2>5. CASE Receive
    <3>. DEFINE f == Head(wire)
                h == f.about
    <3>0. wire # <<>>
      BY <2>5 DEF Receive
    <3>1. f.kind \in {"telemetry", "command", "health"}
      BY <3>0 DEF Frames
    <3>2. worker' = worker \/ worker' = [worker EXCEPT !.health = h]
      BY <2>5, <3>1 DEF Receive
    <3>. HIDE DEF h
    <3> QED BY <1>0, <2>1, <3>2 DEF Manned, WorkerFields
  <2>6. CASE (\E t \in PlaneTags : Publish(t)) \/ SinkFlush \/ SendCommand \/ SendHealth
    BY <2>1, <2>6 DEF Publish, SinkFlush, SendCommand, SendHealth
  <2>7. CASE MirrorFlush \/ PipeDrains \/ PipeBreaks \/ MirrorExits \/ RestartMirror \/ CloseMirror \/ CloseMirrorReturns
    BY <2>1, <2>7 DEF MirrorFlush, PipeDrains, PipeBreaks, MirrorExits, RestartMirror, CloseMirror, CloseMirrorReturns
  <2> QED BY <2>3, <2>4, <2>5, <2>6, <2>7 DEF PlaneNext
<1> QED BY <1>1, <1>2, <1>3 DEF Manned, Kinds

\* The worker process: publish, flush, send.
LEMMA PublishFlows ==
    ASSUME FlowIInv, NEW t \in PlaneTags, Publish(t)
    PROVE  SourceFlows(sink', wire', hub', newest') /\ evicted' \in Nat /\ sink'.dropped + evicted = sink.dropped + evicted'
<1>. DEFINE s == [tag |-> t, seq |-> newest[t] + 1]
            put == Put(sink.pending, s)
<1>1. newest' = [newest EXCEPT ![t] = newest[t] + 1]
  BY DEF Publish
<1>2. sink' = [pending |-> put.pending, timer |-> TRUE, dropped |-> sink.dropped + put.out]
  BY DEF Publish
<1>3. evicted' = evicted + put.out /\ wire' = wire /\ hub' = hub
  BY DEF Publish
<1>4. SourceFlows(sink, wire, hub, newest) /\ evicted \in Nat
  BY DEF FlowIInv
<1>5. sink.pending \in Maps /\ hub \in Levels /\ newest \in Levels /\ sink.dropped \in Nat
      /\ wire \in Seq(Frames) /\ Orderly(hub, wire, sink.pending, newest) /\ \A u \in PlaneTags : hub[u] <= newest[u]
  BY <1>4 DEF SourceFlows
<1>6. s \in Sample /\ s.tag = t /\ s.seq = newest[t] + 1
  BY <1>5 DEF Levels, Sample
<1>7. newest' \in Levels /\ \A u \in PlaneTags : newest[u] \in Nat /\ newest'[u] \in Nat /\ newest[u] <= newest'[u]
      /\ newest'[t] = newest[t] + 1
  BY <1>1, <1>5 DEF Levels
<1>. HIDE DEF s
<1>8. /\ put.pending \in Maps /\ put.pending # <<>> /\ put.out \in Nat
      /\ \A b \in DOMAIN put.pending : put.pending[b] = s \/ \E a \in DOMAIN sink.pending : put.pending[b] = sink.pending[a]
  BY <1>5, <1>6, PutKeeps
<1>. HIDE DEF put
<1>9. \A b \in DOMAIN put.pending : put.pending[b] = s => newest[put.pending[b].tag] < put.pending[b].seq
                                                      /\ put.pending[b].seq <= newest'[put.pending[b].tag]
  BY <1>6, <1>7
<1>10. \A u \in PlaneTags : hub[u] <= newest[u] /\ newest[u] <= newest'[u]
  BY <1>5, <1>7
<1>11. Orderly(hub, wire, put.pending, newest')
  <2>. DEFINE top == newest'
              q == put.pending
              p == sink.pending
  <2>1. top \in Levels /\ q \in Maps /\ p \in Maps /\ hub \in Levels /\ newest \in Levels /\ wire \in Seq(Frames) /\ Orderly(hub, wire, p, newest)
    BY <1>5, <1>7, <1>8
  <2>2. \A b \in DOMAIN q : \/ \E a \in DOMAIN p : q[b] = p[a]
                            \/ newest[q[b].tag] < q[b].seq /\ q[b].seq <= top[q[b].tag]
    BY <1>8, <1>9
  <2>3. \A u \in PlaneTags : hub[u] <= newest[u] /\ newest[u] <= top[u]
    BY <1>10
  <2>. HIDE DEF top, q, p
  <2>4. Orderly(hub, wire, q, top)
    BY <2>1, <2>2, <2>3, ArrivedOrderly
  <2> QED BY <2>4 DEF q, top
<1>12. \A u \in PlaneTags : hub[u] <= newest'[u]
  <2>. TAKE u \in PlaneTags
  <2>1. hub[u] \in Nat
    BY <1>5 DEF Levels
  <2> QED BY <1>7, <1>10, <2>1
<1>13. sink'.pending = put.pending /\ sink'.dropped = sink.dropped + put.out
  BY <1>2
<1>14. SourceFlows(sink', wire', hub', newest')
  BY <1>3, <1>5, <1>7, <1>8, <1>11, <1>12, <1>13 DEF SourceFlows
<1> QED BY <1>3, <1>4, <1>5, <1>8, <1>13, <1>14

\* The sink is emptied into the wire.
LEMMA BatchFlows ==
    ASSUME SourceFlows(sink, wire, hub, newest)
    PROVE  SourceFlows(EmptySink, wire \o Batch, hub, newest) /\ Drops(wire \o Batch) = Drops(wire) + sink.dropped
<1>1. /\ sink.pending \in Maps /\ sink.dropped \in Nat /\ (sink.pending = <<>> => sink.dropped = 0)
      /\ wire \in Seq(Frames) /\ Orderly(hub, wire, sink.pending, newest)
  BY DEF SourceFlows
<1>2. Orderly(hub, wire, <<>>, newest)
  BY <1>1, EmptiedOrderly
<1>3. Drops(wire) \in Nat
  BY <1>1, FramesSay
<1>4. EmptySink.pending = <<>> /\ EmptySink.dropped = 0
  BY DEF EmptySink
<1>5. CASE sink.pending = <<>>
  <2>1. wire \o Batch = wire
    BY <1>1, <1>5, ConcatEmptySeq DEF Batch
  <2> QED BY <1>1, <1>2, <1>3, <1>4, <1>5, <2>1, EmptyMap DEF SourceFlows
<1>6. CASE sink.pending # <<>>
  <2>. DEFINE x == Telemetry(sink.pending, sink.dropped)
  <2>1. x \in Frames /\ x.samples = sink.pending /\ x.dropped = sink.dropped
    BY <1>1, <1>6 DEF Telemetry, Frame, Frames, Numbers
  <2>2. Batch = <<x>>
    BY <1>6 DEF Batch
  <2>. HIDE DEF x
  <2>3. wire \o Batch = Append(wire, x)
    BY <1>1, <2>1, <2>2, AppendIsConcat
  <2>4. Append(wire, x) \in Seq(Frames) /\ Drops(Append(wire, x)) = Drops(wire) + x.dropped
    BY <1>1, <2>1, OneMore
  <2>5. Orderly(hub, Append(wire, x), <<>>, newest)
    BY <1>1, <2>1, <1>2, JoinedOrderly DEF Orderly, Precedes
  <2> QED BY <1>4, <2>1, <2>3, <2>4, <2>5, EmptyMap DEF SourceFlows
<1> QED BY <1>5, <1>6

\* A frame without samples and drops.
LEMMA SentFlows ==
    ASSUME SourceFlows(sink, wire, hub, newest), NEW x \in Frames, x.samples = <<>>, x.dropped = 0
    PROVE  SourceFlows(sink, Append(wire, x), hub, newest) /\ Drops(Append(wire, x)) = Drops(wire)
<1>1. wire \in Seq(Frames) /\ Orderly(hub, wire, sink.pending, newest)
  BY DEF SourceFlows
<1>2. Append(wire, x) \in Seq(Frames) /\ Drops(Append(wire, x)) = Drops(wire)
  BY <1>1, OneMore, FramesSay
<1>3. Within(hub, x.samples, newest) /\ Precedes(x.samples, sink.pending)
      /\ \A i \in DOMAIN wire : Precedes(wire[i].samples, x.samples)
  BY DEF Within, Precedes
<1>4. Orderly(hub, Append(wire, x), sink.pending, newest)
  BY <1>1, <1>3, JoinedOrderly
<1> QED BY <1>2, <1>4 DEF SourceFlows

\* What the worker's side owes to the server's side is kept, or written off.
Balanced ==
    ~cut' => ~cut /\ evicted' + (sink.dropped + Drops(wire)) = evicted + (sink'.dropped + Drops(wire'))

LEMMA SourceKeeps ==
    ASSUME FlowIInv,
           \/ \E t \in PlaneTags : Publish(t)
           \/ SinkFlush \/ SendCommand \/ SendHealth \/ WorkerExits
    PROVE  /\ SourceFlows(sink', wire', hub', newest') /\ evicted' \in Nat /\ cut' \in BOOLEAN
           /\ mirror' = mirror /\ rust' = rust /\ hub' = hub
           /\ Balanced
<1>0. SourceFlows(sink, wire, hub, newest) /\ evicted \in Nat /\ cut \in BOOLEAN /\ Manned
  BY DEF FlowIInv
<1>1. sink.dropped \in Nat /\ wire \in Seq(Frames) /\ Drops(wire) \in Nat
      /\ Orderly(hub, wire, sink.pending, newest) /\ hub \in Levels /\ newest \in Levels
      /\ \A t \in PlaneTags : hub[t] <= newest[t]
  BY <1>0, FramesSay DEF SourceFlows
<1>2. mirror' = mirror /\ rust' = rust /\ hub' = hub
  BY DEF Publish, SinkFlush, SendCommand, SendHealth, WorkerExits
<1>e. EmptySink.pending = <<>> /\ EmptySink.dropped = 0
  BY DEF EmptySink
<1>3. CASE \E t \in PlaneTags : Publish(t)
  <2>1. PICK t \in PlaneTags : Publish(t)
    BY <1>3
  <2>2. SourceFlows(sink', wire', hub', newest') /\ evicted' \in Nat /\ sink'.dropped + evicted = sink.dropped + evicted'
    BY <2>1, PublishFlows
  <2>3. wire' = wire /\ cut' = cut
    BY <2>1 DEF Publish
  <2>4. sink'.dropped \in Nat
    BY <2>2 DEF SourceFlows
  <2>5. evicted' + (sink.dropped + Drops(wire)) = evicted + (sink'.dropped + Drops(wire))
    <3>. DEFINE a == evicted
                b == evicted'
                s == sink.dropped
                z == sink'.dropped
                w == Drops(wire)
    <3>1. a \in Nat /\ b \in Nat /\ s \in Nat /\ z \in Nat /\ w \in Nat /\ z + a = s + b
      BY <1>0, <1>1, <2>2, <2>4
    <3>. HIDE DEF a, b, s, z, w
    <3>2. b + (s + w) = a + (z + w)
      BY <3>1
    <3> QED BY <3>2 DEF a, b, s, z, w
  <2> QED BY <1>0, <1>2, <2>2, <2>3, <2>5 DEF Balanced
<1>4. CASE SinkFlush
  BY <1>4, <1>0, <1>2, BatchFlows, <1>e, <1>1 DEF SinkFlush, Balanced
<1>5. CASE SendCommand \/ SendHealth
  <2>. DEFINE c == Frame("command", <<>>, 0, budget.commands)
              h == Frame("health", <<>>, 0, worker.run)
  <2>1. c \in Frames /\ c.samples = <<>> /\ c.dropped = 0
    BY <1>0, EmptyMap DEF Manned, Frame, Frames, Numbers
  <2>2. h \in Frames /\ h.samples = <<>> /\ h.dropped = 0
    BY <1>0, EmptyMap DEF Manned, Frame, Frames, Numbers
  <2>3. (wire' = Append(wire, c) \/ wire' = Append(wire, h))
        /\ sink' = sink /\ newest' = newest /\ evicted' = evicted /\ cut' = cut
    BY <1>5 DEF SendCommand, SendHealth
  <2>. HIDE DEF c, h
  <2>4. SourceFlows(sink', wire', hub', newest') /\ Drops(wire') = Drops(wire)
    <3>1. ASSUME NEW x \in Frames, x.samples = <<>>, x.dropped = 0, wire' = Append(wire, x)
          PROVE  SourceFlows(sink', wire', hub', newest') /\ Drops(wire') = Drops(wire)
      BY <1>0, <3>1, SentFlows, <1>2, <2>3
    <3> QED BY <2>1, <2>2, <2>3, <3>1
  <2> QED BY <1>0, <1>2, <2>3, <2>4 DEF Balanced
<1>6. CASE WorkerExits
  <2>1. sink' = EmptySink /\ newest' = newest /\ evicted' = evicted
    BY <1>6 DEF WorkerExits
  <2>2. CASE (\E n \in 0..Len(wire) : wire' = SubSeq(wire, 1, n)) /\ cut' = TRUE
    <3>1. PICK n \in 0..Len(wire) : wire' = SubSeq(wire, 1, n)
      BY <2>2
    <3>2. wire' \in Seq(Frames)
      BY <1>1, <3>1, CutInTwo
    <3>3. Orderly(hub, SubSeq(wire, 1, n), sink.pending, newest)
      BY <1>1, PrefixOrderly
    <3>4. Orderly(hub, SubSeq(wire, 1, n), <<>>, newest)
      BY <3>3, EmptiedOrderly
    <3>5. SourceFlows(sink', wire', hub', newest')
      BY <1>e, <1>1, <1>2, <2>1, <3>1, <3>2, <3>4, EmptyMap DEF SourceFlows
    <3> QED BY <1>0, <1>2, <2>1, <2>2, <3>5 DEF Balanced
  <2>3. CASE wire' = wire \o Batch /\ cut' = cut
    BY <1>0, <1>2, <2>1, <2>3, BatchFlows, <1>e, <1>1 DEF Balanced
  <2> QED BY <1>6, <2>2, <2>3 DEF WorkerExits
<1> QED BY <1>3, <1>4, <1>5, <1>6

LEMMA WorkerSideFlows ==
    ASSUME FlowIInv, WorkerIsSound,
           \/ \E t \in PlaneTags : Publish(t)
           \/ SinkFlush \/ SendCommand \/ SendHealth \/ WorkerExits
    PROVE  FlowIInv'
<1>1. /\ SourceFlows(sink', wire', hub', newest') /\ evicted' \in Nat /\ cut' \in BOOLEAN
      /\ mirror' = mirror /\ rust' = rust /\ hub' = hub
      /\ Balanced
  BY SourceKeeps
<1>2. Manned'
  BY MannedKeeps DEF FlowIInv, SourceFlows, PlaneNext
<1>3. Flows(mirror', rust', hub')
  BY <1>1 DEF FlowIInv
<1>4. ~cut' => evicted' = sink'.dropped + Drops(wire') + Owed(mirror', rust')
  <2>. SUFFICES ASSUME ~cut' PROVE evicted' = sink'.dropped + Drops(wire') + Owed(mirror', rust')
    OBVIOUS
  <2>1. evicted = sink.dropped + Drops(wire) + Owed(mirror, rust)
    BY <1>1 DEF Balanced, FlowIInv
  <2>2. evicted' + (sink.dropped + Drops(wire)) = evicted + (sink'.dropped + Drops(wire'))
    BY <1>1 DEF Balanced
  <2>3. sink.dropped \in Nat /\ sink'.dropped \in Nat /\ wire \in Seq(Frames) /\ wire' \in Seq(Frames)
    BY <1>1 DEF FlowIInv, SourceFlows
  <2>4. Drops(wire) \in Nat /\ Drops(wire') \in Nat
    BY <2>3, FramesSay
  <2>5. Owed(mirror, rust) \in Nat
    BY FramesSay DEF FlowIInv, Flows, Owed
  <2>6. Owed(mirror', rust') = Owed(mirror, rust)
    BY <1>1
  <2>7. evicted \in Nat /\ evicted' \in Nat
    BY <1>1 DEF FlowIInv
  <2>8. evicted' = sink'.dropped + Drops(wire') + Owed(mirror, rust)
    <3>. DEFINE a == evicted
                b == evicted'
                s == sink.dropped
                z == sink'.dropped
                w == Drops(wire)
                x == Drops(wire')
                o == Owed(mirror, rust)
    <3>1. /\ a \in Nat /\ b \in Nat /\ s \in Nat /\ z \in Nat /\ w \in Nat /\ x \in Nat /\ o \in Nat
          /\ a = s + w + o /\ b + (s + w) = a + (z + x)
      BY <2>1, <2>2, <2>3, <2>4, <2>5, <2>7
    <3>. HIDE DEF a, b, s, z, w, x, o
    <3>2. b = z + x + o
      BY <3>1
    <3> QED BY <3>2 DEF b, z, x, o
  <2> QED BY <2>6, <2>8
<1> QED BY <1>1, <1>2, <1>3, <1>4 DEF FlowIInv

\* Nothing of the books of the mirror changes.
LEMMA SameBooks ==
    ASSUME NEW m, NEW r, NEW hi, Flows(m, r, hi), NEW n,
           DOMAIN n = MirrorFields, n.child \in {"none", "running", "deaf"},
           n.outbound = m.outbound, n.pending = m.pending, n.dropped = m.dropped, n.accepted = m.accepted,
           n.restart => m.restart /\ n.child = "none"
    PROVE  Flows(n, r, hi) /\ Owed(n, r) = Owed(m, r)
BY DEF Flows, Owed

\* The streams have seen more; other samples pend.
LEMMA RaisedFlows ==
    ASSUME NEW m, NEW r, NEW hi \in Levels, Flows(m, r, hi), NEW top \in Levels, \A t \in PlaneTags : hi[t] <= top[t],
           NEW q \in Maps, NEW d \in Nat, NEW n,
           \A b \in DOMAIN q : \/ \E a \in DOMAIN m.pending : q[b] = m.pending[a]
                               \/ hi[q[b].tag] < q[b].seq /\ q[b].seq <= top[q[b].tag],
           DOMAIN n = MirrorFields, n.child = m.child, n.restart = m.restart,
           n.outbound = m.outbound, n.pending = q, n.dropped = d, n.accepted = m.accepted
    PROVE  Flows(n, r, top)
<1>. DEFINE lo == r.seen
            p == m.pending
            f == m.outbound
<1>1. lo \in Levels /\ p \in Maps /\ f \in Seq(Frames) /\ Orderly(lo, f, p, hi) /\ \A t \in PlaneTags : lo[t] <= hi[t]
  BY DEF Flows
<1>2. \A b \in DOMAIN q : \/ \E a \in DOMAIN p : q[b] = p[a]
                          \/ hi[q[b].tag] < q[b].seq /\ q[b].seq <= top[q[b].tag]
  OBVIOUS
<1>3. \A t \in PlaneTags : lo[t] <= top[t]
  <2>. TAKE t \in PlaneTags
  <2>1. lo[t] \in Nat /\ hi[t] \in Nat /\ top[t] \in Nat
    BY <1>1 DEF Levels
  <2> QED BY <1>1, <2>1
<1>. HIDE DEF lo, p, f
<1>4. Orderly(lo, f, q, top)
  BY <1>1, <1>2, ArrivedOrderly
<1> QED BY <1>3, <1>4 DEF Flows, lo, f

\* The first message, and the others.
LEMMA FirstFrame ==
    ASSUME NEW w \in Seq(Frames), w # <<>>
    PROVE  /\ Head(w) \in Frames /\ Tail(w) \in Seq(Frames) /\ 1 \in 0..Len(w)
           /\ SubSeq(w, 1, 1) = <<Head(w)>> /\ SubSeq(w, 1 + 1, Len(w)) = Tail(w)
           /\ Drops(w) = Head(w).dropped + Drops(Tail(w))
<1>1. Head(w) \in Frames /\ Tail(w) \in Seq(Frames) /\ 1 \in 0..Len(w) /\ Len(w) \in Nat
  OBVIOUS
<1>2. SubSeq(w, 1, 1) = <<Head(w)>>
  <2>1. SubSeq(w, 1, 1) \in Seq(Frames) /\ Len(SubSeq(w, 1, 1)) = 1 /\ SubSeq(w, 1, 1)[1] = w[1]
    BY <1>1
  <2>2. <<Head(w)>> \in Seq(Frames) /\ Len(<<Head(w)>>) = 1 /\ <<Head(w)>>[1] = w[1]
    BY <1>1
  <2>. DEFINE a == SubSeq(w, 1, 1)
              b == <<Head(w)>>
  <2>. HIDE DEF a, b
  <2>3. \A i \in 1..Len(a) : a[i] = b[i]
    BY <2>1, <2>2 DEF a, b
  <2>4. a \in Seq(Frames) /\ b \in Seq(Frames) /\ Len(a) = Len(b)
    BY <2>1, <2>2 DEF a, b
  <2>5. a = b
    BY <2>3, <2>4, SeqEqual
  <2> QED BY <2>5 DEF a, b
<1>3. SubSeq(w, 1 + 1, Len(w)) = Tail(w)
  BY TailIsSubSeq
<1>4. Drops(w) = Drops(SubSeq(w, 1, 1)) + Drops(SubSeq(w, 1 + 1, Len(w)))
  BY <1>1, CutInTwo
<1>5. Drops(<<Head(w)>>) = Head(w).dropped
  <2>. DEFINE x == Head(w)
  <2>1. <<>> \in Seq(Frames) /\ Append(<<>>, x) = <<x>>
    OBVIOUS
  <2>2. x.dropped \in Nat
    BY <1>1 DEF Frames
  <2>. HIDE DEF x
  <2>3. Drops(Append(<<>>, x)) = Drops(<<>>) + x.dropped
    BY <1>1, <2>1, OneMore DEF x
  <2> QED BY <2>1, <2>2, <2>3, EmptyFrames DEF x
<1> QED BY <1>1, <1>2, <1>3, <1>4, <1>5

\* The account of drops, as a step leaves it.
Settled ==
    ~cut' => /\ ~cut
             /\ evicted' + (sink.dropped + Drops(wire) + Owed(mirror, rust))
                    = evicted + (sink'.dropped + Drops(wire') + Owed(mirror', rust'))

LEMMA OwedIsNumber == ASSUME NEW m, NEW r, NEW hi, Flows(m, r, hi) PROVE Owed(m, r) \in Nat
BY FramesSay DEF Flows, Owed

LEMMA SourceCounts ==
    ASSUME NEW s, NEW w, NEW lo, NEW hi, SourceFlows(s, w, lo, hi)
    PROVE  s.dropped \in Nat /\ Drops(w) \in Nat
BY FramesSay DEF SourceFlows

LEMMA Reckoned ==
    ASSUME FlowIInv, WorkerIsSound, PlaneNext,
           SourceFlows(sink', wire', hub', newest'), Flows(mirror', rust', hub'),
           evicted' \in Nat, cut' \in BOOLEAN, Settled
    PROVE  FlowIInv'
<1>1. Manned'
  BY MannedKeeps DEF FlowIInv, SourceFlows
<1>2. ~cut' => evicted' = sink'.dropped + Drops(wire') + Owed(mirror', rust')
  <2>. SUFFICES ASSUME ~cut' PROVE evicted' = sink'.dropped + Drops(wire') + Owed(mirror', rust')
    OBVIOUS
  <2>. DEFINE a == evicted
              b == evicted'
              s == sink.dropped + Drops(wire) + Owed(mirror, rust)
              z == sink'.dropped + Drops(wire') + Owed(mirror', rust')
  <2>1. a = s
    BY DEF Settled, FlowIInv
  <2>2. b + s = a + z
    BY DEF Settled
  <2>3. a \in Nat /\ b \in Nat
    BY DEF FlowIInv
  <2>4. z \in Nat
    <3>1. sink'.dropped \in Nat /\ Drops(wire') \in Nat
      BY SourceCounts
    <3>2. Owed(mirror', rust') \in Nat
      BY OwedIsNumber
    <3>. DEFINE u == sink'.dropped
                v == Drops(wire')
                o == Owed(mirror', rust')
    <3>3. u \in Nat /\ v \in Nat /\ o \in Nat
      BY <3>1, <3>2
    <3>. HIDE DEF u, v, o
    <3>4. u + v + o \in Nat
      BY <3>3
    <3> QED BY <3>4 DEF u, v, o
  <2>. HIDE DEF a, b, s, z
  <2>5. b = z
    BY <2>1, <2>2, <2>3, <2>4
  <2> QED BY <2>5 DEF b, z
<1> QED BY <1>1, <1>2 DEF FlowIInv

\* A message is routed to the streams and to the mirror.
LEMMA ReceiveFlows ==
    ASSUME FlowIInv, Receive, DOMAIN mirror = MirrorFields
    PROVE  /\ SourceFlows(sink', wire', hub', newest') /\ Flows(mirror', rust', hub')
           /\ evicted' \in Nat /\ cut' \in BOOLEAN /\ Settled
<1>. DEFINE f == Head(wire)
<1>0. SourceFlows(sink, wire, hub, newest) /\ Flows(mirror, rust, hub) /\ evicted \in Nat /\ cut \in BOOLEAN
  BY DEF FlowIInv
<1>1. wire # <<>> /\ wire' = Tail(wire) /\ sink' = sink /\ newest' = newest
  BY DEF Receive
<1>2. /\ wire \in Seq(Frames) /\ hub \in Levels /\ newest \in Levels /\ sink.pending \in Maps /\ sink.dropped \in Nat
      /\ Orderly(hub, wire, sink.pending, newest) /\ \A t \in PlaneTags : hub[t] <= newest[t]
  BY <1>0 DEF SourceFlows
<1>3. /\ f \in Frames /\ Tail(wire) \in Seq(Frames) /\ 1 \in 0..Len(wire)
      /\ SubSeq(wire, 1, 1) = <<f>> /\ SubSeq(wire, 1 + 1, Len(wire)) = Tail(wire)
      /\ Drops(wire) = f.dropped + Drops(Tail(wire))
  BY <1>1, <1>2, FirstFrame
<1>. HIDE DEF f
<1>4. /\ f.kind \in {"telemetry", "command", "health"} /\ f.samples \in Maps /\ f.dropped \in Nat
      /\ f.kind # "telemetry" => f.samples = <<>> /\ f.dropped = 0
  BY <1>3 DEF Frames
<1>5. Drops(wire') \in Nat /\ Drops(wire) = f.dropped + Drops(wire') /\ Owed(mirror, rust) \in Nat
  BY <1>0, <1>1, <1>3, FramesSay, OwedIsNumber
<1>6. CASE f.kind # "telemetry"
  <2>1. hub' = hub /\ evicted' = evicted
        /\ \/ mirror' = mirror /\ rust' = rust /\ cut' = cut
           \/ Enqueue(mirror, f)
    BY <1>4, <1>6 DEF Receive, f
  <2>2. Orderly(hub, SubSeq(wire, 1 + 1, Len(wire)), sink.pending, newest)
    BY <1>2, <1>3, SuffixOrderly
  <2>3. SourceFlows(sink', wire', hub', newest')
    BY <1>0, <1>1, <1>3, <2>1, <2>2 DEF SourceFlows
  <2>4. Drops(wire') = Drops(wire)
    BY <1>4, <1>5, <1>6
  <2>5. CASE mirror' = mirror /\ rust' = rust /\ cut' = cut
    BY <1>0, <1>1, <2>1, <2>3, <2>4, <2>5 DEF Settled
  <2>6. CASE Enqueue(mirror, f)
    <3>1. Within(rust.seen, f.samples, hub) /\ Precedes(f.samples, mirror.pending)
          /\ \A i \in DOMAIN mirror.outbound : Precedes(mirror.outbound[i].samples, f.samples)
      BY <1>4, <1>6 DEF Within, Precedes
    <3>2. /\ Flows(mirror', rust', hub) /\ cut' \in BOOLEAN
          /\ ~cut' => ~cut /\ Owed(mirror', rust') = Owed(mirror, rust) + f.dropped
      BY <1>0, <1>2, <1>3, <2>6, <3>1, EnqueueFlows
    <3>3. ~cut' => ~cut /\ Owed(mirror', rust') = Owed(mirror, rust)
      BY <1>4, <1>5, <1>6, <3>2
    <3> QED BY <1>0, <1>1, <2>1, <2>3, <2>4, <3>2, <3>3 DEF Settled
  <2> QED BY <2>1, <2>5, <2>6
<1>7. CASE f.kind = "telemetry"
  <2>. DEFINE put == PutAll(mirror.pending, f.samples)
              total == mirror.dropped + put.out + f.dropped
              now == Seen(hub, <<f>>)
  <2>1. /\ hub' = now /\ rust' = rust
        /\ \/ cut' = TRUE /\ mirror' = mirror /\ evicted' = evicted
           \/ /\ mirror' = [mirror EXCEPT !.pending = put.pending, !.flush = TRUE, !.dropped = total]
              /\ evicted' = evicted + put.out /\ cut' = cut
    BY <1>7 DEF Receive, f
  <2>2. /\ now \in Levels /\ Orderly(now, Tail(wire), sink.pending, newest)
        /\ \A t \in PlaneTags : hub[t] <= now[t] /\ now[t] <= newest[t]
    BY <1>2, <1>3, ConsumedOrderly
  <2>3. \A a \in DOMAIN f.samples : f.samples[a].seq = now[f.samples[a].tag]
    BY <1>2, <1>3, SeenNow
  <2>4. mirror.pending \in Maps /\ mirror.dropped \in Nat
    BY <1>0 DEF Flows
  <2>5. /\ put.pending \in Maps /\ put.out \in Nat
        /\ \A b \in DOMAIN put.pending : \/ \E a \in DOMAIN mirror.pending : put.pending[b] = mirror.pending[a]
                                         \/ \E a \in DOMAIN f.samples : put.pending[b] = f.samples[a]
    BY <1>4, <2>4, PutAllKeeps
  <2>. HIDE DEF put, now
  <2>6. SourceFlows(sink', wire', hub', newest')
    BY <1>0, <1>1, <1>2, <1>3, <2>1, <2>2 DEF SourceFlows
  <2>7. Within(hub, f.samples, newest)
    BY <1>1, <1>2 DEF f, Orderly
  <2>8. \A a \in DOMAIN f.samples : hub[f.samples[a].tag] < f.samples[a].seq /\ f.samples[a].seq <= now[f.samples[a].tag]
    <3>. TAKE a \in DOMAIN f.samples
    <3>1. f.samples[a].seq \in Nat
      BY <1>4, MapTypes
    <3> QED BY <2>3, <2>7, <3>1 DEF Within
  <2>9. CASE cut' = TRUE /\ mirror' = mirror /\ evicted' = evicted
    <3>1. /\ DOMAIN mirror = MirrorFields
          /\ \A b \in DOMAIN mirror.pending : \/ \E a \in DOMAIN mirror.pending : mirror.pending[b] = mirror.pending[a]
                                              \/ hub[mirror.pending[b].tag] < mirror.pending[b].seq /\ mirror.pending[b].seq <= now[mirror.pending[b].tag]
      OBVIOUS
    <3>2. Flows(mirror, rust, now)
      BY <1>0, <1>2, <2>2, <2>4, <3>1, RaisedFlows
    <3> QED BY <1>0, <2>1, <2>6, <2>9, <3>2 DEF Settled
  <2>10. CASE /\ mirror' = [mirror EXCEPT !.pending = put.pending, !.flush = TRUE, !.dropped = total]
              /\ evicted' = evicted + put.out /\ cut' = cut
    <3>. DEFINE q == put.pending
                n == [mirror EXCEPT !.pending = q, !.flush = TRUE, !.dropped = total]
    <3>1. total \in Nat /\ total = mirror.dropped + put.out + f.dropped
      BY <1>4, <2>4, <2>5
    <3>2. q \in Maps /\ \A b \in DOMAIN q : \/ \E a \in DOMAIN mirror.pending : q[b] = mirror.pending[a]
                                            \/ hub[q[b].tag] < q[b].seq /\ q[b].seq <= now[q[b].tag]
      BY <2>5, <2>8
    <3>. HIDE DEF total, q
    <3>3. /\ DOMAIN n = MirrorFields /\ n.child = mirror.child /\ n.restart = mirror.restart
          /\ n.outbound = mirror.outbound /\ n.pending = q /\ n.dropped = total /\ n.accepted = mirror.accepted
      BY DEF MirrorFields
    <3>4. mirror' = n
      BY <2>10 DEF q
    <3>. HIDE DEF n
    <3>5. Flows(n, rust, now)
      BY <1>0, <1>2, <2>2, <3>1, <3>2, <3>3, RaisedFlows
    <3>6. Flows(mirror', rust', hub')
      BY <2>1, <3>4, <3>5
    <3>7. Owed(mirror', rust') = Owed(mirror, rust) + put.out + f.dropped
      <4>1. mirror'.dropped = total /\ mirror'.outbound = mirror.outbound /\ rust' = rust
        BY <2>1, <3>3, <3>4
      <4>2. Owed(mirror', rust') = total + Drops(mirror.outbound) + rust.dropped
        BY <4>1 DEF Owed
      <4>3. Drops(mirror.outbound) \in Nat /\ rust.dropped \in Nat
        BY <1>0, FramesSay DEF Flows
      <4> QED BY <1>4, <2>4, <2>5, <3>1, <4>2, <4>3 DEF Owed
    <3>8. evicted' \in Nat
      BY <1>0, <2>5, <2>10
    <3>9. Settled
      <4>. DEFINE e == evicted
                  s == sink.dropped
                  w == Drops(wire')
                  o == Owed(mirror, rust)
                  k == put.out
                  d == f.dropped
      <4>1. e \in Nat /\ s \in Nat /\ w \in Nat /\ o \in Nat /\ k \in Nat /\ d \in Nat
        BY <1>0, <1>2, <1>4, <1>5, <2>5
      <4>2. /\ evicted' = e + k /\ sink'.dropped = s /\ Drops(wire) = d + w
            /\ Owed(mirror', rust') = o + k + d /\ cut' = cut
        BY <1>1, <1>5, <2>10, <3>7
      <4>. HIDE DEF e, s, w, o, k, d
      <4>3. (e + k) + (s + (d + w) + o) = e + (s + w + (o + k + d))
        BY <4>1
      <4>4. evicted' + (sink.dropped + Drops(wire) + Owed(mirror, rust)) = (e + k) + (s + (d + w) + o)
        BY <4>2 DEF s, o
      <4>5. evicted + (sink'.dropped + Drops(wire') + Owed(mirror', rust')) = e + (s + w + (o + k + d))
        BY <4>2 DEF e, w
      <4> QED BY <4>2, <4>3, <4>4, <4>5 DEF Settled
    <3> QED BY <1>0, <2>6, <2>10, <3>6, <3>8, <3>9
  <2> QED BY <2>1, <2>9, <2>10
<1> QED BY <1>6, <1>7

\* A step of the mirror, or of its watcher, that leaves the source alone.
LEMMA MirrorSide ==
    ASSUME FlowIInv, sink' = sink, wire' = wire, hub' = hub, newest' = newest, evicted' = evicted,
           Flows(mirror', rust', hub), cut' \in BOOLEAN,
           ~cut' => ~cut /\ Owed(mirror', rust') = Owed(mirror, rust)
    PROVE  /\ SourceFlows(sink', wire', hub', newest') /\ Flows(mirror', rust', hub')
           /\ evicted' \in Nat /\ cut' \in BOOLEAN /\ Settled
<1>1. SourceFlows(sink, wire, hub, newest) /\ evicted \in Nat
  BY DEF FlowIInv
<1>2. Drops(wire') = Drops(wire)
  OBVIOUS
<1>3. Settled
  <2>. SUFFICES ASSUME ~cut' PROVE /\ ~cut
                                   /\ evicted' + (sink.dropped + Drops(wire) + Owed(mirror, rust))
                                          = evicted + (sink'.dropped + Drops(wire') + Owed(mirror', rust'))
    BY DEF Settled
  <2>1. ~cut /\ Owed(mirror', rust') = Owed(mirror, rust)
    OBVIOUS
  <2> QED BY <1>2, <2>1
<1> QED BY <1>1, <1>3

\* A process starts with what the mirror has not written, and it has not
\* written anything.
LEMMA SpawnFlows ==
    ASSUME Flows(mirror, rust, hub), mirror.outbound = <<>>, mirror.accepted = <<>>, SpawnMirror
    PROVE  Flows(mirror', rust, hub) /\ Owed(mirror', rust) = Owed(mirror, rust)
<1>0. DOMAIN mirror = MirrorFields
  BY DEF Flows
<1>1. PICK full \in BOOLEAN :
          mirror' = [[mirror EXCEPT !.child = "running", !.restart = FALSE, !.blocked = FALSE, !.accepted = <<>>]
                        EXCEPT !.blocked = full]
  BY DEF SpawnMirror
<1>2. /\ DOMAIN mirror' = MirrorFields /\ mirror'.child = "running" /\ mirror'.restart = FALSE
      /\ mirror'.outbound = mirror.outbound /\ mirror'.pending = mirror.pending
      /\ mirror'.dropped = mirror.dropped /\ mirror'.accepted = mirror.accepted
  BY <1>0, <1>1 DEF MirrorFields
<1> QED BY <1>2, SameBooks

LEMMA SpawningFlows ==
    ASSUME FlowIInv, PlaneIInv, Listen
    PROVE  /\ SourceFlows(sink', wire', hub', newest') /\ Flows(mirror', rust', hub')
           /\ evicted' \in Nat /\ cut' \in BOOLEAN /\ Settled
<1>0. Flows(mirror, rust, hub) /\ cut \in BOOLEAN
  BY DEF FlowIInv
<1>1. /\ sink' = sink /\ wire' = wire /\ hub' = hub /\ newest' = newest /\ evicted' = evicted
      /\ cut' = cut /\ rust' = rust /\ (SpawnMirror \/ mirror' = mirror)
  BY DEF Listen
<1>2. Flows(mirror', rust', hub) /\ Owed(mirror', rust') = Owed(mirror, rust)
  <2>1. CASE mirror' = mirror
    BY <1>0, <1>1, <2>1
  <2>2. CASE SpawnMirror
    BY <1>0, <1>1, <2>2, SpawnFlows DEF PlaneIInv, StartsEmpty, Listen, EmptyMirror
  <2> QED BY <1>1, <2>1, <2>2
<1> QED BY <1>0, <1>1, <1>2, MirrorSide

\* The messages of a worker that has gone are given up, and they were the oldest.
LEMMA LostFlows ==
    ASSUME NEW s, NEW w, NEW lo, NEW hi, SourceFlows(s, w, lo, hi)
    PROVE  SourceFlows(s, <<>>, lo, hi) /\ SourceFlows(EmptySink, <<>>, lo, hi) /\ SourceFlows(EmptySink, w, lo, hi)
BY EmptiedOrderly, EmptyMap, NothingOrderly DEF SourceFlows, EmptySink, Orderly

LEMMA RestartFlows ==
    ASSUME FlowIInv, RestartWorker
    PROVE  /\ SourceFlows(sink', wire', hub', newest') /\ Flows(mirror', rust', hub')
           /\ evicted' \in Nat /\ cut' \in BOOLEAN /\ Settled
<1>0. SourceFlows(sink, wire, hub, newest) /\ Flows(mirror, rust, hub) /\ evicted \in Nat /\ cut \in BOOLEAN
  BY DEF FlowIInv
<1>1. /\ sink' = sink /\ wire' = <<>> /\ hub' = hub /\ newest' = newest /\ evicted' = evicted
      /\ cut' = (cut \/ wire # <<>>) /\ rust' = rust /\ mirror' = mirror
  BY DEF RestartWorker
<1>2. SourceFlows(sink', wire', hub', newest')
  BY <1>0, <1>1, LostFlows
<1>3. cut' \in BOOLEAN
  BY <1>0, <1>1
<1>4. Settled
  BY <1>1 DEF Settled
<1> QED BY <1>0, <1>1, <1>2, <1>3, <1>4

LEMMA MirrorRuns ==
    ASSUME FlowIInv, MirrorFlush \/ PipeDrains \/ PipeBreaks \/ MirrorExits \/ RestartMirror
    PROVE  /\ SourceFlows(sink', wire', hub', newest') /\ Flows(mirror', rust', hub')
           /\ evicted' \in Nat /\ cut' \in BOOLEAN /\ Settled
<1>0. Flows(mirror, rust, hub) /\ cut \in BOOLEAN /\ hub \in Levels
  BY DEF FlowIInv, SourceFlows
<1>d. DOMAIN mirror = MirrorFields /\ (mirror.restart => mirror.child = "none" /\ mirror.outbound = <<>> /\ mirror.accepted = <<>>)
  BY <1>0 DEF Flows
<1>1. sink' = sink /\ wire' = wire /\ hub' = hub /\ newest' = newest /\ evicted' = evicted
  BY DEF MirrorFlush, PipeDrains, PipeBreaks, MirrorExits, RestartMirror
<1>2. /\ Flows(mirror', rust', hub) /\ cut' \in BOOLEAN
      /\ ~cut' => ~cut /\ Owed(mirror', rust') = Owed(mirror, rust)
  <2>1. CASE MirrorFlush
    BY <2>1, <1>0, FlushFlows DEF MirrorFlush
  <2>2. CASE PipeDrains
    <3>. DEFINE n == [mirror EXCEPT !.blocked = FALSE]
    <3>1. Drained(n) /\ cut' = cut /\ mirror.child = "running"
      BY <2>2 DEF PipeDrains
    <3>2. /\ DOMAIN n = MirrorFields /\ n.child = mirror.child /\ n.restart = mirror.restart
          /\ n.outbound = mirror.outbound /\ n.pending = mirror.pending
          /\ n.dropped = mirror.dropped /\ n.accepted = mirror.accepted
      BY <1>d DEF MirrorFields
    <3>. HIDE DEF n
    <3>3. Flows(n, rust, hub) /\ Owed(n, rust) = Owed(mirror, rust)
      BY <1>0, <1>d, <3>1, <3>2, SameBooks
    <3>4. Flows(mirror', rust', hub) /\ Owed(mirror', rust') = Owed(n, rust)
      BY <1>0, <3>1, <3>3, DrainedFlows
    <3> QED BY <1>0, <3>1, <3>3, <3>4
  <2>3. CASE PipeBreaks
    BY <2>3, <1>d, <1>0, SameBooks DEF PipeBreaks, MirrorFields
  <2>4. CASE MirrorExits
    <3>1. /\ mirror' = [EmptyMirror EXCEPT !.flush = mirror.flush, !.blocked = mirror.blocked,
                                           !.restart = ~mirror.stopping, !.stopping = mirror.stopping]
          /\ cut' = TRUE /\ rust' = [rust EXCEPT !.got = <<>>]
      BY <2>4 DEF MirrorExits
    <3>2. /\ DOMAIN mirror' = MirrorFields /\ mirror'.child = "none" /\ mirror'.outbound = <<>>
          /\ mirror'.pending = <<>> /\ mirror'.dropped = 0 /\ mirror'.accepted = <<>>
      BY <3>1 DEF EmptyMirror, MirrorFields
    <3>3. DOMAIN rust = RustFields /\ rust.seen \in Levels /\ rust.dropped \in Nat /\ \A t \in PlaneTags : rust.seen[t] <= hub[t]
      BY <1>0 DEF Flows
    <3>4. DOMAIN rust' = RustFields /\ rust'.seen = rust.seen /\ rust'.dropped = rust.dropped /\ rust'.got = <<>>
      BY <3>1, <3>3 DEF RustFields
    <3>5. <<>> \in Seq(Frames) /\ <<>> \in Seq(Numbers) /\ <<>> \o <<>> = <<>> /\ Len(<<>>) = 0 /\ 0 \in Nat /\ 0 <= MaxOutbound
      BY PlaneAssumption
    <3>6. Flows(mirror', rust', hub)
      BY <3>2, <3>3, <3>4, <3>5, EmptyMap, NothingOrderly, EmptyFrames DEF Flows
    <3> QED BY <3>1, <3>6
  <2>5. CASE RestartMirror
    <3>1. mirror.restart /\ cut' = cut /\ rust' = rust
          /\ (SpawnMirror \/ mirror' = [mirror EXCEPT !.restart = FALSE])
      BY <2>5 DEF RestartMirror
    <3>2. CASE SpawnMirror
      BY <1>0, <1>d, <3>1, <3>2, SpawnFlows
    <3>3. CASE mirror' = [mirror EXCEPT !.restart = FALSE]
      BY <1>d, <3>3, <3>1, <1>0, SameBooks DEF MirrorFields
    <3> QED BY <3>1, <3>2, <3>3
  <2> QED BY <2>1, <2>2, <2>3, <2>4, <2>5
<1> QED BY <1>1, <1>2, MirrorSide

LEMMA ClosingFlows ==
    ASSUME FlowIInv, CloseWorker \/ CloseWorkerReturns \/ CloseMirror \/ CloseMirrorReturns
    PROVE  /\ SourceFlows(sink', wire', hub', newest') /\ Flows(mirror', rust', hub')
           /\ evicted' \in Nat /\ cut' \in BOOLEAN /\ Settled
<1>0. /\ SourceFlows(sink, wire, hub, newest) /\ Flows(mirror, rust, hub)
      /\ evicted \in Nat /\ cut \in BOOLEAN /\ hub \in Levels
  BY DEF FlowIInv, SourceFlows
<1>d. DOMAIN mirror = MirrorFields /\ mirror.child \in {"none", "running", "deaf"} /\ (mirror.restart => mirror.child = "none")
  BY <1>0 DEF Flows
<1>1. CASE CloseWorker
  BY <1>1, <1>0, MirrorSide DEF CloseWorker
<1>2. CASE CloseWorkerReturns
  <2>1. /\ hub' = hub /\ newest' = newest /\ evicted' = evicted /\ rust' = rust /\ mirror' = mirror
        /\ \/ sink' = sink /\ wire' = wire /\ cut' = cut
           \/ sink' = EmptySink /\ wire' = <<>> /\ cut' = TRUE
    BY <1>2 DEF CloseWorkerReturns
  <2>2. CASE sink' = sink /\ wire' = wire /\ cut' = cut
    BY <1>0, <2>1, <2>2, MirrorSide
  <2>3. CASE sink' = EmptySink /\ wire' = <<>> /\ cut' = TRUE
    BY <1>0, <2>1, <2>3, LostFlows DEF Settled
  <2> QED BY <2>1, <2>2, <2>3
<1>3. CASE CloseMirror
  <2>. DEFINE n == [mirror EXCEPT !.stopping = TRUE, !.restart = FALSE]
  <2>1. sink' = sink /\ wire' = wire /\ hub' = hub /\ newest' = newest /\ evicted' = evicted /\ Flush(n)
    BY <1>3 DEF CloseMirror
  <2>2. /\ DOMAIN n = MirrorFields /\ n.child = mirror.child /\ n.restart = FALSE
        /\ n.outbound = mirror.outbound /\ n.pending = mirror.pending
        /\ n.dropped = mirror.dropped /\ n.accepted = mirror.accepted
    BY <1>d DEF MirrorFields
  <2>. HIDE DEF n
  <2>3. Flows(n, rust, hub) /\ Owed(n, rust) = Owed(mirror, rust)
    BY <1>0, <1>d, <2>2, SameBooks
  <2>4. /\ Flows(mirror', rust', hub) /\ cut' \in BOOLEAN
        /\ ~cut' => ~cut /\ Owed(mirror', rust') = Owed(n, rust)
    BY <1>0, <2>1, <2>3, FlushFlows
  <2> QED BY <2>1, <2>3, <2>4, MirrorSide
<1>4. CASE CloseMirrorReturns
  BY <1>4, <1>d, <1>0, SameBooks, MirrorSide DEF CloseMirrorReturns, MirrorFields
<1> QED BY <1>1, <1>2, <1>3, <1>4

LEMMA FlowKeeps == FlowIInv /\ PlaneIInv /\ PlaneNext => FlowIInv'
<1>. SUFFICES ASSUME FlowIInv, PlaneIInv, PlaneNext PROVE FlowIInv'
  OBVIOUS
<1>1. WorkerIsSound /\ DOMAIN mirror = MirrorFields
  BY DEF PlaneIInv, FlowIInv, Flows
<1>2. CASE (\E t \in PlaneTags : Publish(t)) \/ SinkFlush \/ SendCommand \/ SendHealth \/ WorkerExits
  BY <1>1, <1>2, WorkerSideFlows
<1>3. CASE Listen \/ RestartWorker \/ Receive
  BY <1>1, <1>3, SpawningFlows, RestartFlows, ReceiveFlows, Reckoned
<1>4. CASE MirrorFlush \/ PipeDrains \/ PipeBreaks \/ MirrorExits \/ RestartMirror
  BY <1>1, <1>4, MirrorRuns, Reckoned
<1>5. CASE CloseWorker \/ CloseWorkerReturns \/ CloseMirror \/ CloseMirrorReturns
  BY <1>1, <1>5, ClosingFlows, Reckoned
<1> QED BY <1>2, <1>3, <1>4, <1>5 DEF PlaneNext

\* Whatever is published, lost and restarted: on its way to the streams and to
\* the mirror no sample overtakes a later one of its tag, the statuses that the
\* mirror has accepted reach its process in their order, the maps and the queue
\* keep to their limits, and the drops that are reported are those that were.
THEOREM SamplesFlow == Spec => []FlowInv
<1>1. Init => ProcessIInv /\ FlowIInv
  BY ProcessInduction, FlowStarts DEF Init
<1>2. ProcessIInv /\ FlowIInv /\ [Next]_processVars => (ProcessIInv /\ FlowIInv)'
  <2>. SUFFICES ASSUME ProcessIInv, FlowIInv, [Next]_processVars PROVE ProcessIInv' /\ FlowIInv'
    OBVIOUS
  <2>1. ProcessIInv'
    BY ProcessInduction
  <2>2. PlaneNext \/ UNCHANGED planeVars
    BY DEF Next, processVars
  <2>3. FlowIInv'
    BY <2>2, FlowKeeps, FlowStutters DEF ProcessIInv
  <2> QED BY <2>1, <2>3
<1>3. FlowIInv => FlowInv
  BY FlowIsEnough
<1> QED BY <1>1, <1>2, <1>3, PTL DEF Spec

=============================================================================

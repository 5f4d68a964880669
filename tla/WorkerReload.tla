---------------------------- MODULE WorkerReload ----------------------------
(***************************************************************************)
(* reload() of server/connector-worker.js: every ten seconds the worker    *)
(* compares the connectors of its environment with the runtimes it keeps   *)
(* in a Map, and starts, replaces and stops runtimes.  The interval does   *)
(* not wait for the reload before it, so two may be in flight.             *)
(*                                                                         *)
(* A version stands for the fingerprint: the schema selected, the          *)
(* environment's configuration and the age of its secret.  A runtime is a  *)
(* slot; what it does while it runs is ConnectorRuntime.                   *)
(***************************************************************************)
EXTENDS Naturals, FiniteSets

CONSTANTS
    Connectors,
    Reloads,        \* bound: the reloads that may be in flight at a time
    MaxEdits,       \* bound: the operators' edits
    MaxFaults,      \* bound: queries and authentications that fail
    None

ASSUME ReloadAssumption ==
    /\ MaxEdits \in Nat
    /\ MaxFaults \in Nat
    /\ None \notin Connectors \cup Nat \cup [slot : Nat, version : Nat]
    /\ IsFiniteSet(Connectors)
    /\ IsFiniteSet(Reloads)

VARIABLES
    config,     \* connector -> its version; 0 is disabled or incomplete
    edits,      \* how many edits there have been
    faults,     \* how many failures there have been
    runtimes,   \* the Map: connector -> its runtime and fingerprint, or None
    live,       \* the runtimes in the Map or being stopped that were not stopped yet
    stray,      \* connectors with a runtime that runs and nothing refers to
    reload,     \* reload -> where it stands
    overlapped  \* two reloads have been in flight at once

workers == <<runtimes, live, stray>>
reloadVars    == <<config, edits, faults, workers, reload, overlapped>>

Slots == 1..(Cardinality(Connectors) + Cardinality(Reloads) + 1)

Idle == [ pc |-> "idle", todo |-> {}, wanted |-> {}, connector |-> None,
          version |-> 0, victim |-> None ]

ReloadInit ==
    /\ config \in [Connectors -> {0, 1}]
    /\ edits = 0
    /\ faults = 0
    /\ runtimes = [c \in Connectors |-> None]
    /\ live = {}
    /\ stray = {}
    /\ reload = [r \in Reloads |-> Idle]
    /\ overlapped = FALSE

\* An operator edits, enables or disables a connector in Builder.
Edit(c) ==
    /\ edits < MaxEdits
    /\ edits' = edits + 1
    /\ \E v \in {0, edits + 2} : config' = [config EXCEPT ![c] = v]
    /\ UNCHANGED <<faults, workers, reload, overlapped>>

InFlight(r) == reload[r].pc # "idle"

\* Connector.find({ enabled: true }).
Begin(r) ==
    /\ ~InFlight(r)
    /\ reload' = [reload EXCEPT ![r].pc = "next",
                                ![r].todo = {c \in Connectors : config[c] # 0},
                                ![r].wanted = {}]
    /\ overlapped' = (overlapped \/ \E other \in Reloads : InFlight(other))
    /\ UNCHANGED <<config, edits, faults, workers>>

\* Environment, project, version or draft of the next connector are read; one
\* that has lost its secret or its selection is passed over.
Select(r, c) ==
    /\ reload[r].pc = "next"
    /\ c \in reload[r].todo
    /\ reload' = [reload EXCEPT ![r].todo = @ \ {c},
                                ![r].pc = IF config[c] = 0 THEN "next" ELSE "authenticating",
                                ![r].connector = c,
                                ![r].version = config[c]]
    /\ UNCHANGED <<config, edits, faults, workers, overlapped>>

AuthenticationFails(r) ==
    /\ faults < MaxFaults
    /\ faults' = faults + 1
    /\ reload[r].pc = "authenticating"
    /\ reload' = [reload EXCEPT ![r].pc = "next"]
    /\ UNCHANGED <<config, edits, workers, overlapped>>

\* The runtimes that the Map or a reload that awaits their stop refers to.
ReferredTo(map, rel) ==
    {map[c].slot : c \in {c \in Connectors : map[c] # None}}
        \cup ({rel[r].victim : r \in Reloads} \ {None})

\* A new runtime that takes the connector's place in the Map.
Launched(c, version) ==
    [slot |-> CHOOSE s \in Slots : s \notin ReferredTo(runtimes, reload),
     version |-> version]

\* Of these runtimes, those nothing refers to any more run on as strays.
RunOn(running, c) ==
    /\ live' = running \cap ReferredTo(runtimes', reload')
    /\ stray' = IF running \subseteq ReferredTo(runtimes', reload') THEN stray ELSE stray \cup {c}

\* Mutant: whatever runs is kept.
AuthenticatedKeeping(r) ==
    LET c == reload[r].connector
        new == Launched(c, reload[r].version)
    IN
    /\ reload[r].pc = "authenticating"
    /\ reload' = [reload EXCEPT ![r].pc = "next", ![r].wanted = @ \cup {c}]
    /\ IF runtimes[c] # None THEN UNCHANGED <<runtimes, live>>
       ELSE /\ runtimes' = [runtimes EXCEPT ![c] = new]
            /\ live' = live \cup {new.slot}
    /\ UNCHANGED <<config, edits, faults, stray, overlapped>>

\* The token is there: keep a runtime with the same fingerprint, begin to
\* stop one with another, or launch at once.
Authenticated(r) ==
    LET c == reload[r].connector
        new == Launched(c, reload[r].version)
    IN
    /\ reload[r].pc = "authenticating"
    /\ \/ /\ runtimes[c] # None
          /\ reload' = IF runtimes[c].version = reload[r].version
                       THEN [reload EXCEPT ![r].pc = "next", ![r].wanted = @ \cup {c}]
                       ELSE [reload EXCEPT ![r].pc = "replacing",
                                           ![r].wanted = @ \cup {c},
                                           ![r].victim = runtimes[c].slot]
          /\ UNCHANGED <<runtimes, live>>
       \/ /\ runtimes[c] = None
          /\ runtimes' = [runtimes EXCEPT ![c] = new]
          /\ live' = live \cup {new.slot}
          /\ reload' = [reload EXCEPT ![r].pc = "next", ![r].wanted = @ \cup {c}]
    /\ UNCHANGED <<config, edits, faults, stray, overlapped>>

\* The old runtime has stopped: whatever the Map holds now is replaced.
Replace(r) ==
    LET c == reload[r].connector
        new == Launched(c, reload[r].version)
    IN
    /\ reload[r].pc = "replacing"
    /\ runtimes' = [runtimes EXCEPT ![c] = new]
    /\ reload' = [reload EXCEPT ![r].pc = "next", ![r].victim = None]
    /\ RunOn((live \ {reload[r].victim}) \cup {new.slot}, c)
    /\ UNCHANGED <<config, edits, faults, overlapped>>

\* The loop over the Map stops the runtimes of connectors not wanted.
Unwanted(r, c) == runtimes[c] # None /\ c \notin reload[r].wanted

SweepNext(r, c) ==
    /\ reload[r].pc = "next"
    /\ reload[r].todo = {}
    /\ Unwanted(r, c)
    /\ reload' = [reload EXCEPT ![r].pc = "sweeping",
                                ![r].connector = c,
                                ![r].victim = runtimes[c].slot]
    /\ UNCHANGED <<config, edits, faults, workers, overlapped>>

\* Mutant: the entry is deleted unless it is the one that stopped.
SweptOthers(r) ==
    LET c == reload[r].connector IN
    /\ reload[r].pc = "sweeping"
    /\ runtimes' = IF runtimes[c] # None /\ runtimes[c].slot # reload[r].victim
                   THEN [runtimes EXCEPT ![c] = None] ELSE runtimes
    /\ reload' = [reload EXCEPT ![r].pc = "next", ![r].victim = None]
    /\ RunOn(live \ {reload[r].victim}, c)
    /\ UNCHANGED <<config, edits, faults, overlapped>>

\* It has stopped: the connector's entry, whatever it is now, is deleted.
Swept(r) ==
    LET c == reload[r].connector IN
    /\ reload[r].pc = "sweeping"
    /\ runtimes' = [runtimes EXCEPT ![c] = None]
    /\ reload' = [reload EXCEPT ![r].pc = "next", ![r].victim = None]
    /\ RunOn(live \ {reload[r].victim}, c)
    /\ UNCHANGED <<config, edits, faults, overlapped>>

End(r) ==
    /\ reload[r].pc = "next"
    /\ reload[r].todo = {}
    /\ \A c \in Connectors : ~Unwanted(r, c)
    /\ reload' = [reload EXCEPT ![r].pc = "idle"]
    /\ UNCHANGED <<config, edits, faults, workers, overlapped>>

\* A query fails: the reload is given up where it stands.
Fail(r) ==
    /\ faults < MaxFaults
    /\ faults' = faults + 1
    /\ \/ reload[r].pc = "next" /\ reload[r].todo # {}
       \/ reload[r].pc = "authenticating"
    /\ reload' = [reload EXCEPT ![r].pc = "idle"]
    /\ UNCHANGED <<config, edits, workers, overlapped>>

ReloadStep(r) ==
    \/ \E c \in Connectors : Select(r, c) \/ SweepNext(r, c)
    \/ Authenticated(r) \/ AuthenticationFails(r)
    \/ Replace(r) \/ Swept(r)
    \/ End(r) \/ Fail(r)

ReloadNext ==
    \/ \E c \in Connectors : Edit(c)
    \/ \E r \in Reloads : Begin(r) \/ ReloadStep(r)

-----------------------------------------------------------------------------
(***************************************************************************)
(* Properties.                                                             *)
(***************************************************************************)

ReloadTypeOK ==
    /\ config \in [Connectors -> 0..MaxEdits + 1]
    /\ edits \in 0..MaxEdits
    /\ faults \in 0..MaxFaults
    /\ \A c \in Connectors :
          runtimes[c] # None => runtimes[c] \in [slot : Slots, version : 1..MaxEdits + 1]
    /\ live \subseteq Slots
    /\ stray \subseteq Connectors
    /\ \A r \in Reloads :
          /\ reload[r].pc \in {"idle", "next", "authenticating", "replacing", "sweeping"}
          /\ reload[r].todo \cup reload[r].wanted \subseteq Connectors
          /\ reload[r].todo \cap reload[r].wanted = {}
          /\ reload[r].connector \in Connectors \cup {None}
          /\ reload[r].version \in 0..MaxEdits + 1
          /\ reload[r].victim \in Slots \cup {None}

Entries == {runtimes[c].slot : c \in {c \in Connectors : runtimes[c] # None}}

\* What runs is exactly what the Map holds, so that a connector has one
\* runtime, one socket and each sample once, and every runtime can be
\* stopped.  It holds as long as no two reloads have been in flight at once;
\* nothing in the worker prevents that.
OneRuntimeEach == ~overlapped => live = Entries /\ stray = {}

\* However reloads overlap, no two connectors share a runtime and the Map
\* never names one that a reload has stopped: commands and the fingerprint
\* comparison always meet a runtime that was started and is not given up.  (Its
\* loop may still have ended by itself: when the report of a lost connection
\* fails, connector-runtime.js:110, nothing takes the runtime out of the Map.)
EntriesRun ==
    /\ Entries \subseteq live
    /\ \A c, d \in Connectors :
          c # d /\ runtimes[c] # None /\ runtimes[d] # None => runtimes[c].slot # runtimes[d].slot

\* What holds of the Map and the runtimes at every moment, with the types.
ReloadInv == ReloadTypeOK /\ OneRuntimeEach /\ EntriesRun

\* Also with overlapping reloads, once edits and failures are over each
\* connector is time and again as configured: its present version is in the
\* Map, or nothing is when it is disabled.
AsConfigured(c) ==
    IF config[c] = 0 THEN runtimes[c] = None
    ELSE runtimes[c] # None /\ runtimes[c].version = config[c]

ConfigurationApplies == \A c \in Connectors : []<>AsConfigured(c)
=============================================================================

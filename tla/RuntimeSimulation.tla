-------------------------- MODULE RuntimeSimulation --------------------------
(***************************************************************************)
(* The runtime of a Simulation project: how RPCs are answered (module      *)
(* SimulationBridge), how values are published (SimulationTelemetry), and  *)
(* the commands of its operators (SimulatedCommands).  The first two share *)
(* the responder lease and the telemetry belief of a page, and each module *)
(* has what it needs of the others in its own steps: so an instance lets   *)
(* one of them act and gives the others nothing to do.                     *)
(***************************************************************************)
EXTENDS SimulationBridge, SimulationTelemetry, SimulatedCommands

CONSTANT Instances     \* the triples of instances a run covers

simulationVars == <<bridgeVars, telemetryVars, controlVars>>

Init ==
    /\ BridgeInit /\ TelemetryInit /\ ControlInit
    /\ [bridge |-> budget, telemetry |-> rest, control |-> supply] \in Instances

Next ==
    \/ BridgeNext /\ UNCHANGED <<telemetryVars, controlVars>>
    \/ TelemetryNext /\ UNCHANGED <<bridgeVars, controlVars>>
    \/ ControlNext /\ UNCHANGED <<bridgeVars, telemetryVars>>

Spec ==
    /\ Init /\ [][Next]_simulationVars
    /\ BridgeFairness /\ TelemetryFairness /\ ControlFairness

-----------------------------------------------------------------------------
(* The instances of the run "simulation".                                  *)

CONSTANTS p1, p2

Bridge(n, ps, t, l, c, f, b, d, cl) ==
    [rpcs |-> n, pages |-> ps, takeovers |-> t, lapses |-> l, claims |-> c,
     failures |-> f, breaks |-> b, deaths |-> d, closes |-> cl]
NoBridge == Bridge(0, {}, 0, 0, 0, 0, 0, 0, 0)
BridgeInstances ==
    {Bridge(1, {p1, p2}, 0, 1, 0, 0, 0, 1, 0), Bridge(1, {p1, p2}, 0, 0, 0, 1, 0, 0, 1),
     Bridge(1, {p1, p2}, 1, 0, 1, 0, 0, 0, 0), Bridge(1, {p1, p2}, 1, 0, 0, 0, 1, 0, 0),
     Bridge(2, {p1}, 0, 0, 0, 1, 1, 1, 0), Bridge(2, {p1, p2}, 1, 1, 0, 0, 0, 0, 0),
     Bridge(2, {p1, p2}, 2, 0, 0, 0, 0, 0, 0)}

Page(c, r, f, t, o) == [changes |-> c, rpcs |-> r, failures |-> f, takeovers |-> t, others |-> o]
NoPage == Page(0, 0, 0, 0, 0)
PageInstances == {Page(3, 0, 1, 1, 0), Page(2, 1, 1, 0, 0), Page(1, 1, 1, 1, 0), Page(2, 1, 0, 1, 1)}

Control(u, sh, pr, lo, fa, re) ==
    [users |-> u, shifts |-> sh, presses |-> pr, losses |-> lo, cuts |-> fa, reloads |-> re]
NoControl == Control(<<>>, 0, 0, 0, 0, 0)
Alone == [p \in {p1} |-> "ann"]
Twice == [p \in {p1, p2} |-> "ann"]
Both  == [p \in {p1, p2} |-> IF p = p1 THEN "ann" ELSE "bob"]
ControlInstances ==
    {Control(Alone, 3, 0, 0, 0, 0), Control(Alone, 2, 0, 1, 0, 0), Control(Alone, 2, 0, 0, 1, 0),
     Control(Alone, 1, 1, 0, 0, 1), Control(Alone, 0, 2, 1, 1, 0),
     Control(Twice, 2, 0, 0, 0, 0), Control(Both, 1, 1, 0, 0, 0)}

\* AUTO switches the first button on, then the second.
MCRecipe == <<[button |-> "b1", value |-> "on"], [button |-> "b2", value |-> "on"]>>

\* One page that shifts to AUTO and away again.
MCResetControl == {Control(Alone, 3, 0, 0, 0, 0)}
MCResetInstances == {[bridge |-> NoBridge, telemetry |-> NoPage, control |-> c] : c \in MCResetControl}

MCControlBounds == ControlInstances \cup {NoControl}
MCBridgeBounds == BridgeInstances \cup {NoBridge}
MCTelemetryBounds == PageInstances \cup {NoPage}
MCInstances ==
    {[bridge |-> b, telemetry |-> NoPage, control |-> NoControl] : b \in BridgeInstances}
    \cup {[bridge |-> NoBridge, telemetry |-> t, control |-> NoControl] : t \in PageInstances}
    \cup {[bridge |-> NoBridge, telemetry |-> NoPage, control |-> c] : c \in ControlInstances}
=============================================================================

------------------------- MODULE ConnectorProcesses -------------------------
(***************************************************************************)
(* The processes around the connectors: the runtime of one connector       *)
(* (ConnectorRuntime), the reload that keeps one for each (WorkerReload),  *)
(* and the worker process with its way to the streams and to the mirror    *)
(* (DataPlane).  What a runtime does, which runtimes there are and what    *)
(* becomes of samples are separate questions: part says which is asked.    *)
(***************************************************************************)
EXTENDS ConnectorRuntime, WorkerReload, DataPlane

VARIABLE part

processVars == <<runtimeVars, reloadVars, planeVars, part>>

Init ==
    /\ part \in {"runtime", "reload", "plane"}
    /\ RuntimeInit
    /\ ReloadInit
    /\ part # "reload" => config = [c \in Connectors |-> 0]
    /\ PlaneInit
    /\ part # "plane" => budget = CHOOSE b \in PlaneBounds : TRUE

Next ==
    /\ UNCHANGED part
    /\ \/ part = "runtime" /\ RuntimeNext /\ UNCHANGED <<reloadVars, planeVars>>
       \/ part = "reload" /\ ReloadNext /\ UNCHANGED <<runtimeVars, planeVars>>
       \/ part = "plane" /\ PlaneNext /\ UNCHANGED <<runtimeVars, reloadVars>>

\* The awaits of the runtime's loop end: updates, name resolution and
\* connecting have timeouts, the backoff is a timer.  The reload's interval
\* ticks and its awaits end; the timers of the data plane fire, its messages
\* arrive and the awaits of its shutdown have timeouts.  Upstream, operators
\* and processes owe nothing.
Fairness ==
    /\ WF_runtimeVars(part = "runtime" /\ RuntimeLoop)
    /\ WF_runtimeVars(part = "runtime" /\ StopReturns)
    /\ \A r \in Reloads :
          /\ WF_reloadVars(part = "reload" /\ Begin(r))
          /\ WF_reloadVars(part = "reload" /\ ReloadStep(r))
    /\ WF_planeVars(part = "plane" /\ PlaneTimers)
    /\ WF_planeVars(part = "plane" /\ PlaneCloses)

Spec == Init /\ [][Next]_processVars /\ Fairness

-----------------------------------------------------------------------------
(* Properties.                                                             *)

\* The invariants of the three parts.
ProcessInv == RuntimeInv /\ ReloadInv /\ PlaneInv

\* A stop of a runtime ends, and a lost connection is replaced.
RuntimeSettles == StopEnds /\ LossIsHandled

\* The shutdown of the server ends, and a worker that has gone returns.
PlaneRecovers == WorkerReturns /\ PlaneShutsDown

-----------------------------------------------------------------------------
(* The bounds of the run "processes".                                      *)

Bounds(sa, co, be, ex, er, br) ==
    [samples |-> sa, commands |-> co, beats |-> be, exits |-> ex, errors |-> er, breaks |-> br]

MCPlaneBounds ==
    {Bounds(4, 0, 0, 0, 0, 0), Bounds(2, 2, 0, 0, 0, 0), Bounds(2, 1, 0, 1, 0, 1),
     Bounds(1, 1, 0, 2, 1, 0), Bounds(0, 0, 3, 2, 1, 0), Bounds(0, 3, 0, 1, 0, 0)}
=============================================================================

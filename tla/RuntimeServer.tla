--------------------------- MODULE RuntimeServer ---------------------------
(***************************************************************************)
(* Five parts of the runtime that share the server and its database and    *)
(* otherwise keep to themselves: the live streams of the pages             *)
(* (RuntimeStream), what a page shows of its commands (CommandView), the   *)
(* purge of old commands (CommandRetention), the connectors' secrets and   *)
(* rotating tokens (ConnectorSecrets), and the commands a server executes  *)
(* without a worker (ServerlessCommands).  They write to no common state,  *)
(* so a scenario lets one of them act and gives the others nothing to do.  *)
(***************************************************************************)
EXTENDS RuntimeStream, CommandView, CommandRetention, ConnectorSecrets, ServerlessCommands

CONSTANT Scenarios     \* the bounds of the five parts in each scenario

serverVars == <<streamVars, viewVars, retentionVars, secretVars, servingVars>>

Init ==
    /\ StreamInit /\ ViewInit /\ RetentionInit /\ SecretInit /\ ServingInit
    /\ [stream |-> left, view |-> limit, retention |-> stops, secrets |-> rest,
        serving |-> allowance] \in Scenarios

Next ==
    \/ StreamNext /\ UNCHANGED <<viewVars, retentionVars, secretVars, servingVars>>
    \/ ViewNext /\ UNCHANGED <<streamVars, retentionVars, secretVars, servingVars>>
    \/ RetentionNext /\ UNCHANGED <<streamVars, viewVars, secretVars, servingVars>>
    \/ SecretNext /\ UNCHANGED <<streamVars, viewVars, retentionVars, servingVars>>
    \/ ServingNext /\ UNCHANGED <<streamVars, viewVars, retentionVars, secretVars>>

Spec == Init /\ [][Next]_serverVars /\ StreamFairness /\ ViewFairness /\ RetentionFairness

-----------------------------------------------------------------------------
(* The scenarios of the run "server": each gives one part a few of the     *)
(* things that may happen to it.                                           *)

CONSTANTS p1, p2, j1, j2

Stream(ps, d, l, e, ev, v, i, lo) ==
    [pages |-> ps, drops |-> d, losses |-> l, expiries |-> e, events |-> ev,
     versions |-> v, idles |-> i, logouts |-> lo]
NoStream == Stream({}, 0, 0, 0, 0, 0, 0, 0)
Streams ==
    {Stream({p1, p2}, 1, 0, 0, 0, 0, 0, 0), Stream({p1, p2}, 0, 0, 0, 0, 0, 0, 1),
     Stream({p1}, 0, 1, 1, 1, 0, 0, 1), Stream({p1}, 0, 0, 0, 1, 1, 0, 1),
     Stream({p1}, 1, 1, 1, 0, 0, 0, 0), Stream({p1}, 1, 0, 0, 2, 0, 1, 0)}

View(q, l, f, b, rl) == [requests |-> q, losses |-> l, refusals |-> f, breaks |-> b, reloads |-> rl]
NoView == View(0, 0, 0, 0, 0)
Views == {View(1, 1, 0, 1, 0), View(1, 0, 0, 1, 1), View(2, 1, 0, 0, 0), View(2, 0, 1, 0, 0)}

NoRetention == [commands |-> {}, janitors |-> {}, api |-> 0, cycles |-> 0]
Retentions ==
    {[commands |-> {1, 2}, janitors |-> {j1}, api |-> 1, cycles |-> 0],
     [commands |-> {1}, janitors |-> {j1, j2}, api |-> 1, cycles |-> 1]}

Secrets(ca, ag, la, ro, de, fa, re, cr) ==
    [calls |-> ca, ages |-> ag, lapses |-> la, rotations |-> ro, devices |-> de,
     failures |-> fa, rejections |-> re, crashes |-> cr]
NoSecrets == Secrets(0, 0, 0, 0, 0, 0, 0, 0)
Rotations ==
    {Secrets(2, 1, 1, 1, 0, 0, 0, 0), Secrets(2, 1, 1, 0, 0, 1, 0, 1), Secrets(2, 0, 0, 1, 1, 0, 0, 0),
     Secrets(1, 0, 0, 2, 0, 0, 1, 0), Secrets(1, 1, 0, 1, 1, 0, 0, 0), Secrets(2, 0, 0, 1, 0, 0, 1, 0)}

Order(c, u) == [order |-> c, user |-> u]
ServingCase(cs, fe, pu, fa, de) ==
    [calls |-> cs, feedback |-> fe, pulse |-> pu, failures |-> fa, deaths |-> de]
NoServings == ServingCase(<<>>, FALSE, FALSE, 0, 0)
Resent == <<Order(1, "ann"), Order(1, "ann")>>
Again  == <<Order(1, "ann"), Order(2, "ann")>>
Others == <<Order(1, "ann"), Order(2, "bob")>>
Servings ==
    {ServingCase(Resent, FALSE, TRUE, 2, 0), ServingCase(Resent, TRUE, FALSE, 0, 1),
     ServingCase(Again, FALSE, FALSE, 1, 0), ServingCase(Others, FALSE, TRUE, 0, 1),
     ServingCase(Others, TRUE, TRUE, 1, 0)}

MCServingBounds == Servings \cup {NoServings}
MCStreamBounds == Streams \cup {NoStream}
MCViewBounds == Views \cup {NoView}
MCRetentionBounds == Retentions \cup {NoRetention}
MCSecretBounds == Rotations \cup {NoSecrets}

Scenario(s, v, r, k, d) == [stream |-> s, view |-> v, retention |-> r, secrets |-> k, serving |-> d]
MCScenarios ==
    {Scenario(b, NoView, NoRetention, NoSecrets, NoServings) : b \in Streams}
    \cup {Scenario(NoStream, b, NoRetention, NoSecrets, NoServings) : b \in Views}
    \cup {Scenario(NoStream, NoView, b, NoSecrets, NoServings) : b \in Retentions}
    \cup {Scenario(NoStream, NoView, NoRetention, b, NoServings) : b \in Rotations}
    \cup {Scenario(NoStream, NoView, NoRetention, NoSecrets, b) : b \in Servings}
=============================================================================

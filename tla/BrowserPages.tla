---------------------------- MODULE BrowserPages ----------------------------
(***************************************************************************)
(* The pages in the browser.  The runtime page: the charts of a tag        *)
(* (ChartHistory).  The builder, for the project that is open: its         *)
(* numbers (NumericTags), its components, tags and their references        *)
(* (SchematicEditing), where the components are (CanvasPlacement), and its *)
(* exchange with Node-RED (FlowExchange).  Each looks at the draft from    *)
(* another side: part says from which.                                     *)
(***************************************************************************)
EXTENDS ChartHistory, NumericTags, SchematicEditing, CanvasPlacement, FlowExchange

VARIABLE part

pagesVars == <<chartPageVars, numericVars, schematicVars, placementVars, flowVars, part>>

Init ==
    /\ part \in {"chart", "numbers", "schematic", "placement", "flow"}
    /\ ChartInit     /\ (part # "chart" => left = CHOOSE l \in ChartInstances : TRUE)
                     /\ (part # "chart" => live = <<>>)
    /\ NumericInit   /\ (part # "numbers" => stored = (CHOOSE p \in Projects : TRUE).doc)
    /\ SchematicInit /\ (part # "schematic" => bench = CHOOSE w \in Workbenches : TRUE)
    /\ PlacementInit /\ (part # "placement" => board = CHOOSE b \in Boards : TRUE)
    /\ FlowInit      /\ (part # "flow" => exchange = CHOOSE x \in Exchanges : TRUE)

Next ==
    /\ UNCHANGED part
    /\ \/ /\ part = "chart" /\ ChartNext
          /\ UNCHANGED <<numericVars, schematicVars, placementVars, flowVars>>
       \/ /\ part = "numbers" /\ NumericNext
          /\ UNCHANGED <<chartPageVars, schematicVars, placementVars, flowVars>>
       \/ /\ part = "schematic" /\ SchematicNext
          /\ UNCHANGED <<chartPageVars, numericVars, placementVars, flowVars>>
       \/ /\ part = "placement" /\ PlacementNext
          /\ UNCHANGED <<chartPageVars, numericVars, schematicVars, flowVars>>
       \/ /\ part = "flow" /\ FlowNext
          /\ UNCHANGED <<chartPageVars, numericVars, schematicVars, placementVars>>

Spec == Init /\ [][Next]_pagesVars

\* What holds of the pages at every moment: the charts are ordered, complete and
\* show what was chosen; numbers stay in their limits and mean what they say;
\* references lead somewhere and undo takes back what was done; components stay
\* on the canvas; flows mean the project they were made of.
\* (A page at rest is as it was at first, which is a first state of its own part.)
PagesInv ==
    CASE part = "chart"     -> ChartInv
      [] part = "numbers"   -> NumericInv
      [] part = "schematic" -> SchematicInv
      [] part = "placement" -> PlacementInv
      [] part = "flow"      -> FlowInv

-----------------------------------------------------------------------------
(* The instances of the run "pages".                                       *)

\* Older projects, whose ranges agree or do not, and current ones.
Slider(mode, min, max, step) ==
    [type |-> "slider", mode |-> mode, min |-> min, max |-> max, step |-> step, low |-> 0, high |-> 0]
Gauge(mode, min, max, low, high) ==
    [type |-> "gauge", mode |-> mode, min |-> min, max |-> max, step |-> 1, low |-> low, high |-> high]
Older(access, parts) ==
    [age |-> "legacy",
     doc |-> [tag |-> [access |-> access, eng |-> Missing, write |-> Missing, alarm |-> Missing], parts |-> parts]]
Present(alarm, parts) ==
    [age |-> "current",
     doc |-> [tag |-> [access |-> "read-write", eng |-> [min |-> 0, max |-> 100],
                       write |-> [min |-> 20, max |-> 80, step |-> 2], alarm |-> alarm], parts |-> parts]]
MCProjects == {
    Older("read-write", <<Slider(Missing, 20, 50, 3), Gauge(Missing, 0, 80, 20, 50)>>),
    Older("read-write", <<Slider(Missing, 20, 50, 3), Slider(Missing, 30, 50, 1)>>),
    Older("read-write", <<Slider(Missing, 20, 200, 3), Gauge(Missing, 0, 80, 90, 50)>>),
    Older("read", <<Gauge(Missing, 0, 80, 20, 50), Gauge(Missing, 50, 20, 0, 0)>>),
    Present(Missing, <<Slider("inherit", 0, 100, 1), Gauge("inherit", 0, 100, 30, 70)>>),
    Present([op |-> "limit", lo |-> 80, hi |-> 80], <<Slider("custom", 20, 40, 2)>>)}

\* Boards with a pop-up or a shifter and its recipe, and what is done to them.
Control(id, tag) == Instance(id, "control-button", tag)
Board(comps) ==
    [made |-> 0, from |-> 0, comps |-> comps, sources |-> {"mock", "plant"},
     tags |-> <<[id |-> "speed", dataType |-> "number", access |-> "read-write", source |-> "mock"],
                [id |-> "run", dataType |-> "boolean", access |-> "read", source |-> "plant"],
                [id |-> "mode", dataType |-> "string", access |-> "read-write", source |-> "mock"]>>]
Work(comps, tools, types, n) == [doc |-> Board(comps), tools |-> tools, types |-> types, edits |-> n]
Grouped  == <<[Instance(1, Popup, NoRef) EXCEPT !.children = <<2>>], Control(2, "speed")>>
Shifting == <<[Instance(1, Shifter, "mode") EXCEPT !.controls = <<2>>, !.steps = <<2>>], Control(2, NoRef)>>
Tuning   == <<[Instance(2, "tuning-slider", NoRef) EXCEPT !.feedback = "speed"]>>
MCWorkbenches == {
    Work(Grouped, {"undo", "drag"}, {}, 3),
    Work(Shifting, {"undo", "drag", "select", "delete"}, {}, 2),
    Work(Grouped, {"copy", "delete", "select"}, {}, 2),
    Work(Shifting, {"copy", "delete", "select"}, {}, 2),
    Work(Grouped, {"popup", "add"}, {"tuning-slider", Popup}, 3),
    Work(Grouped, {"popup", "select", "delete"}, {"control-button"}, 2),
    Work(Shifting, {"shift", "add", "select"}, {"control-button"}, 3),
    Work(Shifting, {"shift", "select", "delete", "undo"}, {}, 2),
    Work(Tuning, {"bind", "tags", "select", "undo"}, {}, 2),
    Work(Tuning, {"bind", "tags", "add"}, {"chart"}, 3),
    Work(Tuning, {"tags", "copy", "select", "delete"}, {}, 2)}

\* A canvas of 120: with grid and guides and a locked box, a selection to be
\* arranged, and one to be copied.
Box(at, size, locked) == [at |-> at, size |-> size, locked |-> locked]
Canvas(bs, grid, guides, arrange, n, most) ==
    [boxes |-> bs, grid |-> grid, guides |-> guides, arrange |-> arrange, moves |-> n, boxMax |-> most]
Row == <<Box(0, 24, FALSE), Box(30, 40, FALSE), Box(90, 30, TRUE)>>
MCBoards == {
    Canvas(Row, TRUE, TRUE, FALSE, 2, 3),
    Canvas(Row, FALSE, TRUE, FALSE, 2, 3),
    Canvas(<<Box(0, 24, FALSE), Box(4, 80, FALSE), Box(8, 24, FALSE)>>, FALSE, FALSE, TRUE, 2, 3),
    Canvas(<<Box(0, 24, FALSE), Box(30, 40, FALSE)>>, TRUE, FALSE, TRUE, 2, 4)}
MCPulls == {-40, -7, 5, 33, 100}

\* Paths that are one in lower case, or one as an identifier; projects with
\* several components of a tag, methods asked for twice, and none.
MCFold == [p \in {"flow-rate", "flow_rate", "Flow-rate", "pump"} |-> IF p = "Flow-rate" THEN "flow-rate" ELSE p]
MCSlug == [p \in DOMAIN MCFold |-> IF p = "pump" THEN "pump" ELSE "flow_rate"]
Signal(id, path, type, access, plc) ==
    [id |-> <<id>>, path |-> path, type |-> type, access |-> access, source |-> "plant", plc |-> plc, key |-> <<>>]
Part(id, type, tag, rpc) == [id |-> <<id>>, type |-> type, tags |-> <<<<tag>>>>, rpc |-> rpc, key |-> <<>>]
Plant(id, tags, comps) == [id |-> id, sources |-> {"mock", "plant"}, tags |-> tags, comps |-> comps]
Empty == Plant("empty", <<>>, <<>>)
Twins == Plant("twins",
    <<Signal("t1", "flow-rate", "number", "read-write", "number"),
      Signal("t2", "flow_rate", "number", "write", Absent), Signal("t3", "pump", "boolean", "read", "boolean")>>,
    <<Part("c1", "gauge", "t1", <<>>), Part("c2", "tuning-slider", "t1", <<>>),
      Part("c3", "chart", "t1", <<>>), Part("c4", "control-button", "t2", <<"flow_rate">>)>>)
Pumps == Plant("pumps",
    <<Signal("t1", "pump", "boolean", "read-write", "boolean"), Signal("t2", "flow-rate", "number", "read", Absent)>>,
    <<Part("c1", "control-button", "t1", <<"start">>), Part("c2", "indicator-lamp", "t1", <<>>),
      Part("c3", "value-span", "t2", <<>>)>>)
Modes == Plant("modes",
    <<Signal("t1", "pump", "string", "read-write", Absent), Signal("t2", "flow-rate", "string", "read-write", Absent)>>,
    <<Part("c1", "operation-shifter", "t1", <<"setOperationMode">>)>>)
Trade(p, others, tools, n) == [plant |-> p, others |-> others, tools |-> tools, turns |-> n]
MCExchanges == {
    Trade(Twins, {Empty, Pumps}, {"export", "open", "import", "choose"}, 4),
    Trade(Pumps, {Empty}, {"export", "open", "import", "choose", "edit flow"}, 4),
    Trade(Modes, {Empty, Pumps}, {"export", "open", "import", "edit"}, 4),
    Trade(Pumps, {Empty}, {"export", "open", "import", "edit"}, 4),
    Trade(Twins, {}, {"export", "import", "edit"}, 3)}
=============================================================================

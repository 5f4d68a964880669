---------------------------- MODULE FlowExchange ----------------------------
(***************************************************************************)
(* Projects exchanged as Node-RED flows: what a project is exported to     *)
(* (shared/node-red-export.js), what a flow is understood as, with or      *)
(* without the comment the exporter leaves in it, and what an import adds  *)
(* to the project that is open (shared/node-red-import.js, and             *)
(* FlowImportModal of src/platform/ConnectorManager.jsx).                  *)
(*                                                                         *)
(* Ids, import keys and RPC methods are tuples of strings: what the code   *)
(* joins is appended.  A tag is [id, path, type, access, source, plc,      *)
(* key], plc the type of its PLC address, if it has one; a component       *)
(* [id, type, tags, rpc, key].  A path is known by what it is in lower     *)
(* case (Fold) and in an identifier (Slug).  Ranges and appearances, whose *)
(* conversions are checks of one value each, and invisible components are  *)
(* left out.                                                               *)
(***************************************************************************)
EXTENDS Naturals, Sequences

LOCAL INSTANCE SequencesExt
LOCAL INSTANCE FiniteSets

CONSTANTS
    Fold, Slug,     \* functions on the paths
    Endings,        \* the pairs of slugs <<a, b>> of which b is the end of a
    NumberNames,    \* the paths whose name makes them a number
    Exchanges,      \* the instances a run covers: the project that is open, those
                    \* that may be opened, the tools that are used, their number
    Absent

VARIABLES
    exchange,   \* the instance of this behaviour
    plant,      \* the project that is open: [id, sources, tags, comps]
    flow,       \* Absent, or the file: [nodes, of, whole], of the tags it was made of,
                \* and whole while nobody has changed it
    imported,   \* Absent, or the import the project has just seen: [source, keys, parts, tags,
                \* comps], tags and comps the numbers there were before it
    turns       \* the number of actions

flowVars == <<exchange, plant, flow, imported, turns>>

Commands == {"control-button", "tuning-slider", "operation-shifter"}

\* COMPONENT_REGISTRY: the types of tags a component is for.
Accepts(type) ==
    CASE type \in {"indicator-lamp", "control-button"} -> {"boolean", "number", "string"}
      [] type = "value-span" -> {"number", "string"}
      [] type \in {"tuning-slider", "gauge", "chart"} -> {"number"}
      [] type = "operation-shifter" -> {"string"}

Method0 == <<>>
Reads(tag) == tag.access # "write"
Writes(tag) == tag.access # "read"
Access(reads, writes) == IF reads /\ writes THEN "read-write" ELSE IF writes THEN "write" ELSE "read"

\* uniqueRpcMethod, uniqueId: with as many suffixes as are needed.
Fresh(base, suffix, used) ==
    LET With(k) == base \o FlattenSeq([i \in 1..k |-> suffix])
        free == {k \in 0..Cardinality(used) : With(k) \notin used}
    IN With(CHOOSE k \in free : \A j \in free : k <= j)

TheTag(p, id) == p.tags[CHOOSE i \in DOMAIN p.tags : p.tags[i].id = id]

-----------------------------------------------------------------------------
(* createNodeRedExport                                                     *)

\* firstComponentByTag
FirstOn(p, id) ==
    LET on == {i \in DOMAIN p.comps : Contains(p.comps[i].tags, id)}
    IN IF on = {} THEN Absent ELSE p.comps[CHOOSE i \in on : \A j \in on : i <= j]

\* rpcMethodForTag
Requested(tag, first) ==
    IF first # Absent /\ first.rpc # Method0 THEN first.rpc ELSE <<Slug[tag.path]>>

\* importableComponentType
Importable(tag, first) ==
    IF first = Absent THEN Absent
    ELSE IF first.type = "chart" THEN "value-span"
    ELSE IF tag.type \in Accepts(first.type) THEN first.type ELSE Absent

\* Mutant: two tags may ask for one method.
ExportedAsAsked(p) ==
    [i \in DOMAIN p.tags |->
        LET tag == p.tags[i]
            first == FirstOn(p, tag.id)
        IN [id |-> tag.id, path |-> tag.path, type |-> tag.type, access |-> tag.access, plc |-> tag.plc,
            rpc |-> IF Writes(tag) THEN Requested(tag, first) ELSE Method0,
            ctype |-> Importable(tag, first)]]

\* The tags of the export, each that can be written with a method of its own.
Exported(p) ==
    LET Add(done, tag) ==
            LET first == FirstOn(p, tag.id)
                used == {done[i].rpc : i \in DOMAIN done} \ {Method0}
            IN Append(done, [id |-> tag.id, path |-> tag.path, type |-> tag.type,
                             access |-> tag.access, plc |-> tag.plc,
                             rpc |-> IF Writes(tag) THEN Fresh(Requested(tag, first), tag.id, used) ELSE Method0,
                             ctype |-> Importable(tag, first)])
    IN FoldLeft(Add, <<>>, p.tags)

\* A node of a flow; wires are the targets of its outputs.
Node(id, kind) ==
    [id |-> id, kind |-> kind, path |-> Absent, keys |-> <<>>, cases |-> <<>>, meta |-> <<>>,
     table |-> <<>>, wires |-> <<>>]

\* dashboardNode
DashboardKind(type, tag) ==
    CASE type = "indicator-lamp" -> "ui_text"
      [] type = "value-span" -> IF tag.type = "number" THEN "ui_gauge" ELSE "ui_text"
      [] type = "gauge" -> "ui_gauge"
      [] type = "control-button" -> IF tag.type = "boolean" /\ Reads(tag) THEN "ui_switch" ELSE "ui_button"
      [] type = "tuning-slider" -> "ui_slider"
      [] type = "operation-shifter" -> "ui_dropdown"
      [] type = "chart" -> "ui_chart"

Own(p, kind) == <<p.id, kind>>

Target(p, t) == Own(p, IF t.plc # Absent THEN "s7 out" ELSE "todo") \o t.id

\* createCommandTargets: one node for each tag that can be written.
CommandTargets(p, tags) ==
    LET TargetOf(t) ==
            IF t.plc # Absent THEN [Node(Target(p, t), "s7 out") EXCEPT !.path = t.path]
            ELSE Node(Target(p, t), "debug")
        writable == SelectSeq(tags, Writes)
    IN [i \in DOMAIN writable |-> TargetOf(writable[i])]

\* The node of a component; that of a command leads to its first writable tag.
DashboardNode(p, c) ==
    LET bound == [j \in DOMAIN c.tags |-> TheTag(p, c.tags[j])]
        commands == SelectSeq(bound, Writes)
    IN [Node(Own(p, "dashboard") \o c.id, DashboardKind(c.type, bound[1])) EXCEPT
          !.path = bound[1].path,
          !.wires = IF commands = <<>> \/ c.type \notin Commands THEN <<{}>> ELSE <<{Target(p, commands[1])}>>]

\* The functions that take a component's values out of what was read.
ExtractorsOf(p, c) ==
    LET read == SelectSeq(c.tags, LAMBDA id : Reads(TheTag(p, id)))
    IN [j \in DOMAIN read |->
          [Node(Own(p, "extractor") \o c.id \o read[j], "function") EXCEPT !.wires = <<{Own(p, "dashboard") \o c.id}>>]]

Extractors(p) == FlattenSeq([i \in DOMAIN p.comps |-> ExtractorsOf(p, p.comps[i])])

\* createDashboardNodes: components that are bound to a tag.
DashboardNodes(p) ==
    LET shown == SelectSeq(p.comps, LAMBDA c : c.tags # <<>>)
    IN [i \in DOMAIN shown |-> DashboardNode(p, shown[i])] \o Extractors(p)

Only(condition, nodes) == IF condition THEN nodes ELSE <<>>

\* createS7Endpoint: the table of the addresses.
EndpointNode(p, tags) ==
    LET mapped == SelectSeq(tags, LAMBDA t : t.plc # Absent)
    IN Only(mapped # <<>>,
         <<[Node(Own(p, "endpoint"), "s7 endpoint") EXCEPT
              !.table = [i \in DOMAIN mapped |-> [path |-> mapped[i].path, plc |-> mapped[i].plc]]]>>)

\* createS7Input for tags with an address, createTelemetryTemplate for others.
InputNodes(p, tags, listeners) ==
    Only(\E t \in ToSet(tags) : Reads(t) /\ t.plc # Absent,
         <<[Node(Own(p, "s7 input"), "s7 in") EXCEPT !.wires = <<listeners>>]>>)
    \o Only(\E t \in ToSet(tags) : Reads(t) /\ t.plc = Absent,
         <<[Node(Own(p, "template"), "inject") EXCEPT !.wires = <<listeners>>]>>)

\* telemetryFormatterFunction, and the way of the telemetry.
TelemetryNodes(p, tags) ==
    LET readable == SelectSeq(tags, Reads)
    IN Only(readable # <<>>,
         <<[Node(Own(p, "formatter"), "function") EXCEPT
              !.keys = [i \in DOMAIN readable |-> readable[i].path], !.wires = <<{Own(p, "telemetry")}>>],
           Node(Own(p, "telemetry"), "telemetry out")>>)

\* rpcRouterFunction: a case for each writable tag, an output for each case, and
\* one for the response.
RouterNode(p, writable) ==
    [Node(Own(p, "router"), "function") EXCEPT
       !.cases = [i \in DOMAIN writable |-> writable[i].rpc],
       !.wires = [i \in DOMAIN writable |-> {Target(p, writable[i])}] \o <<{Own(p, "response")}>>]

\* createMqttIn, createMqttOut: the way of a command, and of the response.
RpcNodes(p, tags) ==
    Only(\E t \in ToSet(tags) : Writes(t),
         <<[Node(Own(p, "rpc input"), "mqtt in") EXCEPT !.wires = <<{Own(p, "router")}>>],
           RouterNode(p, SelectSeq(tags, Writes)),
           Node(Own(p, "response"), "mqtt out")>>)

FlowWith(p, tags) ==
    <<[Node(Own(p, "metadata"), "comment") EXCEPT !.meta = tags]>>
    \o CommandTargets(p, tags) \o DashboardNodes(p) \o EndpointNode(p, tags)
    \o InputNodes(p, tags, {Own(p, "formatter")} \cup {n.id : n \in ToSet(Extractors(p))})
    \o TelemetryNodes(p, tags) \o RpcNodes(p, tags)

FlowOf(p) == FlowWith(p, Exported(p))

-----------------------------------------------------------------------------
(* parseNodeRedFlow                                                        *)

\* upstreamNodes: a node, and all that leads to it.
Upstream(nodes, id) ==
    LET Into(ids) == {i \in DOMAIN nodes : \E k \in DOMAIN nodes[i].wires : nodes[i].wires[k] \cap ids # {}}
        reach[k \in 0..Len(nodes)] ==
            IF k = 0 THEN {id} ELSE LET ids == reach[k - 1] IN ids \cup {nodes[i].id : i \in Into(ids)}
        found == reach[Len(nodes)]
    IN SelectSeq(nodes, LAMBDA n : n.id \in found)

\* rpcMethodMatchesVariable
Matches(method, path) ==
    Len(method) = 1 /\ (method[1] = Slug[path] \/ <<method[1], Slug[path]>> \in Endings)

Candidate(key, path, type, access) ==
    [key |-> key, path |-> path, type |-> type, access |-> access, rpc |-> Method0, ctype |-> Absent,
     plc |-> Absent, meta |-> FALSE]

Or(first, second, none) == IF first # none THEN first ELSE second

\* Mutant: the last to tell of a path is believed.
MergeLast(map, c) ==
    LET same == {i \in DOMAIN map : Fold[map[i].path] = Fold[c.path]}
    IN IF same = {} THEN Append(map, c) ELSE [map EXCEPT ![CHOOSE i \in same : TRUE] = c]

\* mergeCandidate: one candidate for a path; the exporter's comment has authority,
\* other evidence adds up.
Merge(map, c) ==
    LET same == {i \in DOMAIN map : Fold[map[i].path] = Fold[c.path]}
        at == CHOOSE i \in same : TRUE
        old == map[at]
        first == IF old.meta \/ ~c.meta THEN old ELSE c
        second == IF old.meta \/ ~c.meta THEN c ELSE old
        access == IF first.meta THEN first.access
                  ELSE Access(Reads(old) \/ Reads(c), Writes(old) \/ Writes(c))
    IN IF same = {} THEN Append(map, c)
       ELSE [map EXCEPT ![at] = [first EXCEPT !.access = access,
                                              !.rpc = Or(first.rpc, second.rpc, Method0),
                                              !.ctype = Or(first.ctype, second.ctype, Absent)]]

\* inferNameDataType
NamedType(path) == IF path \in NumberNames THEN "number" ELSE "boolean"

\* DASHBOARD_TYPES
Dashboard(kind, key, path) ==
    LET Of(type, access, ctype) == [Candidate(key, path, type, access) EXCEPT !.ctype = ctype]
    IN CASE kind = "ui_switch" -> Of("boolean", "read-write", "control-button")
         [] kind = "ui_button" -> Of("boolean", "write", "control-button")
         [] kind = "ui_slider" -> Of("number", "read-write", "tuning-slider")
         [] kind = "ui_gauge"  -> Of("number", "read", "gauge")
         [] kind = "ui_chart"  -> Of("number", "read", "value-span")
         [] kind = "ui_text"   -> Of("string", "read", "value-span")

\* suggestedComponentType
Suggested(c) ==
    CASE c.type = "boolean" -> IF Writes(c) THEN "control-button" ELSE "indicator-lamp"
      [] c.type = "number" -> IF Writes(c) THEN "tuning-slider" ELSE "value-span"
      [] c.type = "string" -> IF Writes(c) THEN Absent ELSE "value-span"

Kind(nodes, kind) == SelectSeq(nodes, LAMBDA n : n.kind = kind)

\* The function nodes upstream of a node.
Functions(nodes, id) == Kind(Upstream(nodes, id), "function")

\* staticPayloadKeys of the functions that lead to a telemetry output.
TelemetryKeys(nodes) ==
    LET Told(functions) == FlattenSeq([i \in DOMAIN functions |-> functions[i].keys])
        outputs == Kind(nodes, "telemetry out")
    IN FlattenSeq([i \in DOMAIN outputs |-> Told(Functions(nodes, outputs[i].id))])

\* staticRpcMethods upstream of an output: the first that fits its variable.
MethodTo(nodes, output) ==
    LET Cases(functions) == FlattenSeq([i \in DOMAIN functions |-> functions[i].cases])
        First(methods) == IF methods = <<>> THEN Method0 ELSE methods[1]
    IN First(SelectSeq(Cases(Functions(nodes, output.id)), LAMBDA m : Matches(m, output.path)))

\* embeddedScamaticExport: what the exporter's comment tells.
Embedded(nodes) ==
    LET Told(t) == [Candidate(<<"scamatic">> \o t.id, t.path, t.type, t.access) EXCEPT
                      !.rpc = t.rpc, !.ctype = t.ctype, !.plc = t.plc, !.meta = TRUE]
        Of(comments) == IF comments = <<>> THEN <<>> ELSE comments[1].meta
        meta == Of(Kind(nodes, "comment"))
    IN [i \in DOMAIN meta |-> Told(meta[i])]

\* The variables of the PLC that are read or written.  Without telemetry, what
\* the PLC is asked for is read.
Variables(nodes, keys, outputs) ==
    LET Is(v, n) == n.path = v.path
        Of(v, to, read) ==
            [Candidate(<<"s7", v.path>>, v.path, v.plc, Access(read, to # <<>>)) EXCEPT
               !.rpc = IF to # <<>> THEN MethodTo(nodes, to[1]) ELSE Method0, !.plc = v.plc]
        Read(v) == IF keys # <<>> THEN Contains(keys, v.path) ELSE Kind(nodes, "s7 in") # <<>>
        To(v) == SelectSeq(outputs, LAMBDA n : Is(v, n))
        Tables(endpoints) == FlattenSeq([i \in DOMAIN endpoints |-> endpoints[i].table])
        known == SelectSeq(Tables(Kind(nodes, "s7 endpoint")), LAMBDA v : Read(v) \/ To(v) # <<>>)
    IN [i \in DOMAIN known |-> Of(known[i], To(known[i]), Read(known[i]))]

Untold(map, path) == \A i \in DOMAIN map : map[i].path # path

\* Outputs to variables that no table has.
MergedOutputs(map, nodes, outputs) ==
    LET Of(n) == [Candidate(<<"s7-output", n.path>>, n.path, NamedType(n.path), "write") EXCEPT !.rpc = MethodTo(nodes, n)]
        others == SelectSeq(outputs, LAMBDA n : Untold(map, n.path))
    IN FoldLeft(Merge, map, [i \in DOMAIN others |-> Of(others[i])])

\* Telemetry nobody has told of yet.
MergedKeys(map, keys) ==
    LET others == SelectSeq(keys, LAMBDA path : Untold(map, path))
    IN FoldLeft(Merge, map, [i \in DOMAIN others |->
           Candidate(<<"telemetry", others[i]>>, others[i], NamedType(others[i]), "read")])

\* Nodes of the dashboard.
MergedDashboard(map, nodes) ==
    LET shown == SelectSeq(nodes, LAMBDA n :
            n.kind \in {"ui_switch", "ui_button", "ui_slider", "ui_gauge", "ui_chart", "ui_text"})
    IN FoldLeft(Merge, map, [i \in DOMAIN shown |->
           Dashboard(shown[i].kind, <<"dashboard">> \o shown[i].id, shown[i].path)])

Completed(map) == [i \in DOMAIN map |-> [map[i] EXCEPT !.ctype = Or(@, Suggested(map[i]), Absent)]]

\* The candidates, in the order in which they are found (the code sorts them by name).
ParsedFrom(nodes, keys, outputs) ==
    LET evidence == FoldLeft(Merge, <<>>, Embedded(nodes) \o Variables(nodes, keys, outputs))
    IN Completed(MergedDashboard(MergedKeys(MergedOutputs(evidence, nodes, outputs), keys), nodes))

Parsed(nodes) == ParsedFrom(nodes, TelemetryKeys(nodes), Kind(nodes, "s7 out"))

-----------------------------------------------------------------------------
(* createNodeRedImportPlan, applyNodeRedImportPlan                         *)

\* The tag a candidate already is: imported as this one, or read from there.
Existing(p, c, source) ==
    LET same == {i \in DOMAIN p.tags : p.tags[i].key = c.key}
        there == {i \in DOMAIN p.tags : p.tags[i].source = source /\ p.tags[i].path = c.path}
        LastOf(set) == p.tags[CHOOSE i \in set : \A j \in set : j <= i]
    IN IF same # {} THEN LastOf(same) ELSE IF there # {} THEN LastOf(there) ELSE Absent

WithTag(p, c, source) ==
    LET id == Fresh(<<"flow", Slug[c.path]>>, <<"_">>, {p.tags[i].id : i \in DOMAIN p.tags})
    IN [p EXCEPT !.tags = Append(@, [id |-> id, path |-> c.path, type |-> c.type, access |-> c.access,
                                     source |-> source, plc |-> c.plc, key |-> c.key])]

\* Mutant: a component is known by what it was imported as only.
WithComponentUnlessImported(p, c, tag) ==
    LET id == Fresh(<<"cmp", Slug[c.path]>>, <<"_">>, {p.comps[i].id : i \in DOMAIN p.comps})
    IN IF \E i \in DOMAIN p.comps : p.comps[i].key = c.key \o <<c.ctype>> THEN p
       ELSE [p EXCEPT !.comps = Append(@, [id |-> id, type |-> c.ctype, tags |-> <<tag.id>>, rpc |-> c.rpc,
                                           key |-> c.key \o <<c.ctype>>])]

\* A component, unless one was imported as this one, or one of its type shows the tag.
WithComponent(p, c, tag) ==
    LET id == Fresh(<<"cmp", Slug[c.path]>>, <<"_">>, {p.comps[i].id : i \in DOMAIN p.comps})
        again == \E i \in DOMAIN p.comps : p.comps[i].key = c.key \o <<c.ctype>>
        bound == \E i \in DOMAIN p.comps :
                    p.comps[i].type = c.ctype /\ c.ctype # "chart" /\ p.comps[i].tags = <<tag.id>>
        own == IF c.rpc = Method0 /\ c.ctype = "operation-shifter" THEN <<"setOperationMode">> ELSE c.rpc
    IN IF again \/ bound THEN p
       ELSE [p EXCEPT !.comps = Append(@, [id |-> id, type |-> c.ctype, tags |-> <<tag.id>>, rpc |-> own,
                                           key |-> c.key \o <<c.ctype>>])]

\* The project with what a plan adds: the tags of the candidates that are chosen
\* (keys), then the components of those among them that are to have one (parts).
Planned(p, cands, source, keys, parts) ==
    LET chosen == SelectSeq(cands, LAMBDA c : c.key \in keys)
        placed == SelectSeq(chosen, LAMBDA c : c.key \in parts /\ c.ctype # Absent)
        new == SelectSeq(chosen, LAMBDA c : Existing(p, c, source) = Absent)
        tags == FoldLeft(LAMBDA q, c : WithTag(q, c, source), p, new)
    IN FoldLeft(LAMBDA q, c : WithComponent(q, c, Existing(tags, c, source)), tags, placed)

\* validateProjectSchema, as far as an import may break it, by the place of the
\* issue and what it is about.
Problems(p) ==
    LET Tags(c) == {TheTag(p, id) : id \in ToSet(c.tags)}
        Command(c) == c.type \in Commands
        At(code, places) == {<<code, i>> : i \in places}
        Where(Wrong(_)) == {i \in DOMAIN p.comps : Wrong(p.comps[i])}
    IN At("tag.path", {i \in DOMAIN p.tags : \E j \in 1..(i - 1) : p.tags[j].path = p.tags[i].path})
       \cup At("binding.type", Where(LAMBDA c : \E t \in Tags(c) : t.type \notin Accepts(c.type)))
       \cup At("binding.readonly", Where(LAMBDA c : Command(c) /\ \E t \in Tags(c) : ~Writes(t)))
       \cup At("chart.tags.writeonly", Where(LAMBDA c : c.type = "chart" /\ \E t \in Tags(c) : ~Reads(t)))
       \cup At("command.rpcMethod.duplicate", {i \in Where(LAMBDA c : Command(c) /\ c.rpc # Method0) :
                \E j \in 1..(i - 1) : Command(p.comps[j]) /\ p.comps[j].rpc = p.comps[i].rpc})

-----------------------------------------------------------------------------
FlowInit ==
    /\ exchange \in Exchanges
    /\ plant = exchange.plant
    /\ flow = Absent /\ imported = Absent /\ turns = 0

Turn(tool) ==
    /\ tool \in exchange.tools
    /\ turns < exchange.turns
    /\ turns' = turns + 1
    /\ UNCHANGED exchange

\* exportNodeRedFlow: the file is kept.
ExportFlow ==
    /\ Turn("export")
    /\ flow' = [nodes |-> FlowOf(plant), of |-> Exported(plant), whole |-> TRUE]
    /\ imported' = Absent
    /\ UNCHANGED plant

\* In Node-RED: a node is taken out, the comment of the exporter among them.
EditFlow ==
    /\ Turn("edit flow")
    /\ flow # Absent
    /\ \E i \in DOMAIN flow.nodes :
         flow' = [flow EXCEPT !.nodes = RemoveAt(flow.nodes, i), !.whole = FALSE]
    /\ imported' = Absent
    /\ UNCHANGED plant

\* openProject
OpenProject ==
    /\ Turn("open")
    /\ plant' \in exchange.others
    /\ imported' = Absent
    /\ UNCHANGED flow

\* FlowImportModal: what is chosen of the candidates is imported, unless it has
\* an error the project has not.  One change of the draft.
Import ==
    /\ Turn("import")
    /\ flow # Absent
    /\ LET cands == Parsed(flow.nodes)
           all == {cands[i].key : i \in DOMAIN cands}
           some == IF "choose" \in exchange.tools THEN SUBSET all ELSE {all}
       IN \E source \in plant.sources, keys \in some \ {{}} :
          \E parts \in (IF "choose" \in exchange.tools THEN SUBSET keys ELSE {keys}) :
            LET merged == Planned(plant, cands, source, keys, parts)
            IN /\ Problems(merged) \subseteq Problems(plant)
               /\ plant' = merged
               /\ imported' = [source |-> source, keys |-> keys, parts |-> parts,
                               tags |-> Len(plant.tags), comps |-> Len(plant.comps)]
    /\ UNCHANGED flow

\* The project is edited: a tag, the method of a command, or a component is taken out.
EditPlant ==
    /\ Turn("edit")
    /\ \/ \E i \in DOMAIN plant.tags, path \in DOMAIN Fold : plant' = [plant EXCEPT !.tags[i].path = path]
       \/ \E i \in DOMAIN plant.tags, type \in {"boolean", "number"} : plant' = [plant EXCEPT !.tags[i].type = type]
       \/ \E i \in DOMAIN plant.tags, access \in {"read", "write", "read-write"} :
             plant' = [plant EXCEPT !.tags[i].access = access]
       \/ \E i \in DOMAIN plant.comps, path \in DOMAIN Fold :
             plant.comps[i].type \in Commands /\ plant' = [plant EXCEPT !.comps[i].rpc = <<Slug[path]>>]
       \/ \E i \in DOMAIN plant.comps : plant' = [plant EXCEPT !.comps = RemoveAt(@, i)]
    /\ imported' = Absent
    /\ UNCHANGED flow

FlowNext == ExportFlow \/ EditFlow \/ OpenProject \/ Import \/ EditPlant

-----------------------------------------------------------------------------
(***************************************************************************)
(* Properties.                                                             *)
(***************************************************************************)

Ids(s) == {s[i].id : i \in DOMAIN s}
Alike(tags) == \E i, j \in DOMAIN tags : i # j /\ Fold[tags[i].path] = Fold[tags[j].path]
Router(nodes) == CHOOSE n \in ToSet(nodes) : n.cases # <<>>

\* Every command that arrives has one way: the flow of any project has nodes of
\* different ids, wires that lead to them, and a router that knows each tag which
\* can be written by a method of its own and leads it to the node that writes it,
\* whatever methods the components ask for (createNodeRedExport, uniqueRpcMethod).
CommandsAreRouted ==
    LET nodes == FlowOf(plant)
        tags == SelectSeq(Exported(plant), Writes)
        router == Router(nodes)
    IN /\ Cardinality(Ids(nodes)) = Len(nodes)
       /\ \A n \in ToSet(nodes) : \A k \in DOMAIN n.wires : n.wires[k] \subseteq Ids(nodes)
       /\ tags # <<>> =>
             /\ Cardinality(ToSet(router.cases)) = Len(tags) /\ Len(router.cases) = Len(tags)
             /\ \A i \in DOMAIN tags : \E n \in ToSet(nodes) :
                   /\ router.wires[i] = {n.id} /\ router.cases[i] = tags[i].rpc
                   /\ IF tags[i].plc # Absent THEN n.kind = "s7 out" /\ n.path = tags[i].path ELSE n.kind = "debug"

\* A flow that nobody has changed is understood as the tags it was made of, with
\* their types, access, addresses and methods, whatever else is read from its
\* nodes.  (Paths that differ in case only become one candidate.)
FlowIsUnderstood ==
    flow # Absent /\ flow.whole /\ ~Alike(flow.of) =>
        LET cands == Parsed(flow.nodes)
        IN /\ Len(cands) >= Len(flow.of)
           /\ \A i \in DOMAIN flow.of : \E c \in ToSet(cands) :
                LET t == flow.of[i] IN
                /\ c.key = <<"scamatic">> \o t.id
                /\ <<c.path, c.type, c.access, c.plc>> = <<t.path, t.type, t.access, t.plc>>
                /\ c.rpc = t.rpc /\ (t.ctype # Absent => c.ctype = t.ctype)

\* Without the comment, the nodes still tell of each tag with a PLC address: its
\* type is that of the address, and no access is lost.
EvidenceIsEnough ==
    flow # Absent /\ ~Alike(flow.of)
      /\ (\A n \in ToSet(FlowOf(plant)) : n \in ToSet(flow.nodes) \/ n.kind = "comment")
      /\ Exported(plant) = flow.of =>
        LET cands == Parsed(SelectSeq(flow.nodes, LAMBDA n : n.kind # "comment"))
        IN \A i \in DOMAIN flow.of : flow.of[i].plc # Absent =>
              \E c \in ToSet(cands) :
                /\ c.path = flow.of[i].path /\ c.type = flow.of[i].plc
                /\ Reads(flow.of[i]) => Reads(c)
                /\ Writes(flow.of[i]) => Writes(c)

\* An import that is repeated, all of it or a part, adds nothing: what it made or
\* reused is recognised (createNodeRedImportPlan).
AgainAddsNothing ==
    imported # Absent =>
        LET cands == Parsed(flow.nodes)
        IN \A key \in imported.keys :
              Planned(plant, cands, imported.source, {key}, {key} \cap imported.parts) = plant

\* What an import adds has ids of its own, and a command it adds is one the flow
\* leads to the very tag it is bound to (while nobody has changed the flow).
ImportIsSound ==
    imported # Absent =>
        /\ Cardinality(Ids(plant.tags)) = Len(plant.tags)
        /\ Cardinality(Ids(plant.comps)) = Len(plant.comps)
        /\ flow.whole /\ ~Alike(flow.of) =>
             \A i \in (imported.comps + 1)..Len(plant.comps) :
                LET c == plant.comps[i]
                    tag == TheTag(plant, c.tags[1])
                    router == Router(flow.nodes)
                IN c.type \in Commands =>
                     \E k \in DOMAIN router.cases, j \in DOMAIN flow.of :
                        /\ router.cases[k] = c.rpc /\ flow.of[j].rpc = c.rpc
                        /\ flow.of[j].path = tag.path \/ tag.key = <<"scamatic">> \o flow.of[j].id

FlowInv ==
    CommandsAreRouted /\ FlowIsUnderstood /\ EvidenceIsEnough /\ AgainAddsNothing /\ ImportIsSound
=============================================================================

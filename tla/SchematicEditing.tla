-------------------------- MODULE SchematicEditing --------------------------
(***************************************************************************)
(* The editing of one open draft: components, their references to tags and *)
(* to each other, the tags and their sources, the clipboard, and undo and  *)
(* redo with the transaction a drag is (src/BuilderPlatform.jsx,           *)
(* useEditorHistory.js, BuilderPanels.jsx, shared/control-popup.js,        *)
(* component-registry.js, tag-bindings.js, connector-lifecycle.js).        *)
(*                                                                         *)
(* A document is [made, from, comps, tags, sources]: made is the number of *)
(* the edit that made it, from that of the document the edit was made to.  *)
(* A component refers to tags (its binding, the series of a chart, its     *)
(* feedback) and to components (a pop-up's children, the controls a        *)
(* shifter supervises and the steps of its recipe).                        *)
(***************************************************************************)
EXTENDS Naturals, Sequences

LOCAL INSTANCE SequencesExt
LOCAL INSTANCE FiniteSets

CONSTANTS
    TagNames,       \* the ids tags may get
    Sources,        \* the data sources, "mock" among them
    MaxChildren,    \* CONTROL_POPUP_MAX_CHILDREN
    MaxSteps,       \* 32 of addStep
    MaxSeries,      \* 8 of ChartProperties
    UndoLimit,      \* limit of useEditorHistory
    MaxComponents,  \* bound: no copies are made beyond these
    Workbenches,    \* the instances a run covers: the document that is opened, the
                    \* tools that are used and the bounds of their use
    NoRef

ASSUME SchematicAssumption == {MaxChildren, MaxSteps, MaxSeries, UndoLimit, MaxComponents} \subseteq Nat \ {0}

VARIABLES
    bench,      \* the instance of this behaviour
    past, doc, future,
    before,     \* transactionRef: the document before the drag, or NoRef
    clipboard,  \* clipboardRef
    selected,   \* selectedIds
    edits,      \* the number of edits
    nextId,     \* the next makeId
    adrift,     \* the components that were pasted with a reference that had gone
    mixed       \* the keyboard was used while a drag was under way

schematicVars == <<bench, past, doc, future, before, clipboard, selected, edits, nextId, adrift, mixed>>

Popup  == "control-popup"
Shifter == "operation-shifter"
ControlTypes == {"control-button", "tuning-slider"}
CommandTypes == ControlTypes \cup {Shifter}

\* COMPONENT_REGISTRY
AllowedDataTypes(type) ==
    CASE type \in {"indicator-lamp", "control-button"} -> {"boolean", "number", "string"}
      [] type \in {"tuning-slider", "chart"} -> {"number"}
      [] type = Shifter -> {"string"}
      [] type = Popup -> {}

\* createComponentInstance
Instance(id, type, tag) ==
    [id |-> id, type |-> type, feedback |-> NoRef,
     tag |-> IF type = "chart" THEN NoRef ELSE tag,
     series |-> IF type = "chart" /\ tag # NoRef THEN <<tag>> ELSE <<>>,
     children |-> <<>>, controls |-> <<>>, steps |-> <<>>]

IdsOf(d) == {d.comps[i].id : i \in DOMAIN d.comps}
Comp(d, id) == d.comps[CHOOSE i \in DOMAIN d.comps : d.comps[i].id = id]
TagIds(d) == {d.tags[i].id : i \in DOMAIN d.tags}
TagOf(d, id) == d.tags[CHOOSE i \in DOMAIN d.tags : d.tags[i].id = id]
Writable(tag) == tag.access \in {"write", "read-write"}

\* componentTagReferences
TagReferences(c) == (ToSet(c.series) \cup {c.tag, c.feedback}) \ {NoRef}

\* removeComponentsAndCleanPopups; Mutant: the recipes keep their steps.
RemovedKeepingSteps(comps, ids) ==
    LET Kept(id) == id \notin ids
        Clean(c) == [c EXCEPT !.children = SelectSeq(@, Kept), !.controls = SelectSeq(@, Kept)]
        Stays(c) == c.id \notin ids
    IN [i \in DOMAIN SelectSeq(comps, Stays) |-> Clean(SelectSeq(comps, Stays)[i])]

Removed(comps, ids) ==
    LET Kept(id) == id \notin ids
        Clean(c) == [c EXCEPT !.children = SelectSeq(@, Kept), !.controls = SelectSeq(@, Kept),
                              !.steps = SelectSeq(@, Kept)]
        Stays(c) == c.id \notin ids
    IN [i \in DOMAIN SelectSeq(comps, Stays) |-> Clean(SelectSeq(comps, Stays)[i])]

\* assignControlToPopup: at the end of the pop-up, out of any other.
Assigned(d, popup, child) ==
    LET full == Len(Comp(d, popup).children) >= MaxChildren /\ ~Contains(Comp(d, popup).children, child)
        Without(c) == [c EXCEPT !.children = SelectSeq(@, LAMBDA id : id # child)]
    IN IF full THEN d.comps
       ELSE [i \in DOMAIN d.comps |->
                IF d.comps[i].id = popup THEN [Without(d.comps[i]) EXCEPT !.children = Append(@, child)]
                ELSE Without(d.comps[i])]

\* Mutant: a copy of a pop-up has the controls of the first.
CopyWhole(c) == c

\* copySafeComponent
CopySafe(c) == IF c.type = Popup THEN [c EXCEPT !.children = <<>>] ELSE c

-----------------------------------------------------------------------------
(* useEditorHistory.                                                       *)

SchematicInit ==
    /\ bench \in Workbenches
    /\ doc = bench.doc
    /\ past = <<>> /\ future = <<>> /\ before = NoRef
    /\ clipboard = <<>> /\ selected = {}
    /\ edits = 0 /\ nextId = 10
    /\ adrift = {} /\ mixed = FALSE

Tool(name) == name \in bench.tools

Shorter(s) == IF Len(s) > UndoLimit THEN SubSeq(s, Len(s) - UndoLimit + 1, Len(s)) ELSE s

\* Mutant: what was undone may still be redone.
CommitKeepsFuture(d) ==
    /\ edits < bench.edits
    /\ edits' = edits + 1
    /\ past' = Shorter(Append(past, doc))
    /\ doc' = [d EXCEPT !.made = edits + 1, !.from = doc.made]
    /\ mixed' = (mixed \/ before # NoRef)
    /\ UNCHANGED <<bench, before, future>>

\* commit: one edit, one step of undo.
Commit(d) ==
    /\ edits < bench.edits
    /\ edits' = edits + 1
    /\ past' = Shorter(Append(past, doc))
    /\ doc' = [d EXCEPT !.made = edits + 1, !.from = doc.made]
    /\ future' = <<>>
    /\ mixed' = (mixed \/ before # NoRef)
    /\ UNCHANGED <<bench, before>>

Commits(comps) == Commit([doc EXCEPT !.comps = comps])

Undo ==
    /\ Tool("undo") /\ past # <<>>
    /\ doc' = Last(past)
    /\ past' = Front(past)
    /\ future' = <<doc>> \o future
    /\ mixed' = (mixed \/ before # NoRef)
    /\ UNCHANGED <<bench, before, clipboard, selected, edits, nextId, adrift>>

Redo ==
    /\ Tool("undo") /\ future # <<>>
    /\ doc' = Head(future)
    /\ past' = Shorter(Append(past, doc))
    /\ future' = Tail(future)
    /\ mixed' = (mixed \/ before # NoRef)
    /\ UNCHANGED <<bench, before, clipboard, selected, edits, nextId, adrift>>

\* startTransform, beginTransaction
DragStarts ==
    /\ Tool("drag") /\ before = NoRef
    /\ before' = doc
    /\ \E id \in IdsOf(doc) : selected' = {id}
    /\ UNCHANGED <<bench, past, doc, future, clipboard, edits, nextId, adrift, mixed>>

\* mutate: a move of the pointer, no step of undo of its own.
DragMoves ==
    /\ before # NoRef /\ edits < bench.edits
    /\ edits' = edits + 1
    /\ doc' = [doc EXCEPT !.made = edits + 1, !.from = before.made]
    /\ UNCHANGED <<bench, past, future, before, clipboard, selected, nextId, adrift, mixed>>

\* Mutant: the document after the drag is what an undo goes back to.
DragEndsPushingPresent ==
    /\ before # NoRef
    /\ before' = NoRef
    /\ IF before = doc THEN UNCHANGED <<past, future>>
       ELSE past' = Shorter(Append(past, doc)) /\ future' = <<>>
    /\ UNCHANGED <<bench, doc, clipboard, selected, edits, nextId, adrift, mixed>>

\* endTransaction
DragEnds ==
    /\ before # NoRef
    /\ before' = NoRef
    /\ IF before = doc THEN UNCHANGED <<past, future>>
       ELSE past' = Shorter(Append(past, before)) /\ future' = <<>>
    /\ UNCHANGED <<bench, doc, clipboard, selected, edits, nextId, adrift, mixed>>

-----------------------------------------------------------------------------
(* Components.                                                             *)

\* What addComponent binds a new component to: the first tag that fits.
FirstTag(type) ==
    LET fits == {i \in DOMAIN doc.tags :
                    /\ doc.tags[i].dataType \in AllowedDataTypes(type)
                    /\ type \in CommandTypes => Writable(doc.tags[i])}
    IN IF fits = {} THEN NoRef ELSE doc.tags[CHOOSE i \in fits : \A j \in fits : i <= j].id

AddComponent ==
    \E type \in bench.types :
        /\ Tool("add")
        /\ Commits(Append(doc.comps, Instance(nextId, type, FirstTag(type))))
        /\ nextId' = nextId + 1 /\ selected' = {nextId}
        /\ UNCHANGED <<clipboard, adrift>>

DeleteSelected ==
    /\ Tool("delete") /\ selected # {}
    /\ Commits(Removed(doc.comps, selected))
    /\ selected' = {}
    /\ UNCHANGED <<clipboard, nextId, adrift>>

\* selectComponent; additive with the shift key.
SelectComponent ==
    /\ Tool("select") /\ before = NoRef
    /\ \E id \in IdsOf(doc) : selected' \in {{id}, selected \cup {id}} \ {selected}
    /\ UNCHANGED <<bench, past, doc, future, before, clipboard, edits, nextId, adrift, mixed>>

Chosen == SelectSeq(doc.comps, LAMBDA c : c.id \in selected)

\* A reference of a component that leads nowhere in document d.
Dangles(d, c) ==
    \/ TagReferences(c) \ TagIds(d) # {}
    \/ \E t \in (ToSet(c.series) \cup {c.tag}) \ {NoRef} :
          t \in TagIds(d) /\ TagOf(d, t).dataType \notin AllowedDataTypes(c.type)
    \/ (ToSet(c.children) \cup ToSet(c.controls) \cup ToSet(c.steps)) \ IdsOf(d) # {}

Added(copies) ==
    LET new == [i \in DOMAIN copies |-> [CopySafe(copies[i]) EXCEPT !.id = nextId + i - 1]]
    IN /\ Len(doc.comps) + Len(new) <= MaxComponents
       /\ Commits(doc.comps \o new)
       /\ nextId' = nextId + Len(new)
       /\ selected' = {new[i].id : i \in DOMAIN new}
       /\ adrift' = adrift \cup {new[i].id : i \in {i \in DOMAIN new : Dangles(doc, new[i])}}

DuplicateSelected ==
    /\ Tool("copy") /\ selected # {}
    /\ Added(Chosen)
    /\ UNCHANGED clipboard

CopySelected ==
    /\ Tool("copy")
    /\ clipboard' = Chosen
    /\ UNCHANGED <<bench, past, doc, future, before, selected, edits, nextId, adrift, mixed>>

\* The clipboard may be older than the document, and of components and tags
\* that are gone.
PasteComponents ==
    /\ Tool("copy") /\ clipboard # <<>>
    /\ Added(clipboard)
    /\ UNCHANGED clipboard

-----------------------------------------------------------------------------
(* Pop-ups: PopupProperties.                                               *)

Owned(d) == UNION {ToSet(d.comps[i].children) : i \in DOMAIN d.comps}

AddExistingPopupControl ==
    \E popup, child \in IdsOf(doc) :
        /\ Tool("popup") /\ Comp(doc, popup).type = Popup
        /\ Comp(doc, child).type \in ControlTypes
        /\ child \notin Owned(doc) /\ Len(Comp(doc, popup).children) < MaxChildren
        /\ Commits(Assigned(doc, popup, child))
        /\ UNCHANGED <<clipboard, selected, nextId, adrift>>

CreatePopupControl ==
    \E popup \in IdsOf(doc), type \in ControlTypes \cap bench.types :
        LET new == Instance(nextId, type, FirstTag(type))
            d == [doc EXCEPT !.comps = Append(@, new)]
        IN /\ Tool("popup") /\ Comp(doc, popup).type = Popup
           /\ Len(Comp(doc, popup).children) < MaxChildren
           /\ Commits(Assigned(d, popup, nextId))
           /\ nextId' = nextId + 1 /\ selected' = {nextId}
           /\ UNCHANGED <<clipboard, adrift>>

\* detachControlFromPopup, reorderPopupControl
ChangePopup ==
    \E i \in DOMAIN doc.comps :
        /\ Tool("popup") /\ doc.comps[i].type = Popup
        /\ LET children == doc.comps[i].children IN
           \/ \E child \in ToSet(children) :
                /\ Commits([doc.comps EXCEPT ![i].children = SelectSeq(@, LAMBDA id : id # child)])
                /\ selected' = {child}
           \/ \E j \in 1..(Len(children) - 1) :
                /\ Commits([doc.comps EXCEPT ![i].children =
                        [children EXCEPT ![j] = children[j + 1], ![j + 1] = children[j]]])
                /\ UNCHANGED selected
        /\ UNCHANGED <<clipboard, nextId, adrift>>

-----------------------------------------------------------------------------
(* The inspector of the component that is selected.                        *)

Inspects(tool, Changed(_)) ==
    \E i \in DOMAIN doc.comps :
        /\ Tool(tool) /\ selected = {doc.comps[i].id}
        /\ \E c \in Changed(doc.comps[i]) : Commits([doc.comps EXCEPT ![i] = c])
        /\ UNCHANGED <<clipboard, selected, nextId, adrift>>

Fitting(c) ==
    {doc.tags[i].id : i \in {i \in DOMAIN doc.tags :
        /\ doc.tags[i].dataType \in AllowedDataTypes(c.type)
        /\ c.type \in CommandTypes => Writable(doc.tags[i])}}

\* The tag binding, or the series of a chart.
Bound(c) ==
    IF c.type = Popup THEN {}
    ELSE IF c.type # "chart" THEN {[c EXCEPT !.tag = t] : t \in Fitting(c) \cup {NoRef}}
    ELSE {[c EXCEPT !.series = SelectSeq(@, LAMBDA id : id # t)] : t \in ToSet(c.series)}
         \cup {[c EXCEPT !.series = Append(@, t)] :
                   t \in {t \in Fitting(c) \ ToSet(c.series) : Len(c.series) < MaxSeries}}

\* ButtonProperties, TuningProperties, OperationShifterProperties
Feedback(c) ==
    {[c EXCEPT !.feedback = t] : t \in {NoRef} \cup
        {doc.tags[i].id : i \in {i \in DOMAIN doc.tags :
            /\ c.type \in CommandTypes /\ doc.tags[i].access # "write"
            /\ c.type = "tuning-slider" => doc.tags[i].dataType = "number"
            /\ c.type = Shifter => doc.tags[i].dataType = "string"}}}

\* Mutant: a control of the recipe may be taken out of supervision.
SupervisedFreely(c) ==
    IF c.type # Shifter THEN {}
    ELSE {[c EXCEPT !.controls = IF Contains(@, id) THEN SelectSeq(@, LAMBDA x : x # id) ELSE Append(@, id)] :
            id \in {id \in IdsOf(doc) : Comp(doc, id).type \in ControlTypes}}

\* toggleControlled, disabled for the controls of the recipe.
Supervised(c) ==
    IF c.type # Shifter THEN {}
    ELSE {[c EXCEPT !.controls = IF Contains(@, id) THEN SelectSeq(@, LAMBDA x : x # id) ELSE Append(@, id)] :
            id \in {id \in IdsOf(doc) \ ToSet(c.steps) : Comp(doc, id).type \in ControlTypes}}

\* addStep (with the first of the supervised buttons), updateStep, moveStep, removal
Recipe(c) ==
    LET Supervises(b) == b.type = "control-button" /\ Contains(c.controls, b.id)
        buttons == SelectSeq(doc.comps, Supervises)
    IN IF c.type # Shifter THEN {}
       ELSE {[c EXCEPT !.steps = Append(@, buttons[k].id)] :
                    k \in {k \in DOMAIN buttons : k = 1 /\ Len(c.steps) < MaxSteps}}
            \cup {[c EXCEPT !.steps[k] = b.id] : k \in DOMAIN c.steps, b \in ToSet(buttons)}
            \cup {[c EXCEPT !.steps[k] = c.steps[k + 1], !.steps[k + 1] = c.steps[k]] : k \in 1..(Len(c.steps) - 1)}
            \cup {[c EXCEPT !.steps = RemoveAt(@, k)] : k \in DOMAIN c.steps}

Inspect ==
    \/ Inspects("bind", Bound) \/ Inspects("bind", Feedback)
    \/ Inspects("shift", Supervised) \/ Inspects("shift", Recipe)

-----------------------------------------------------------------------------
(* Tags and sources: TagManager, ConnectorManager.                         *)

Used(d) == UNION {TagReferences(d.comps[i]) : i \in DOMAIN d.comps}

\* The id is made of the name, and may be that of a tag that was removed.
AddTag ==
    \E id \in TagNames \ TagIds(doc), dataType \in {"boolean", "number"}, s \in doc.sources :
        Commit([doc EXCEPT !.tags = Append(@, [id |-> id, dataType |-> dataType, access |-> "read", source |-> s])])

\* Mutant: only bindings count as a use.
RemoveUnbound ==
    \E i \in DOMAIN doc.tags :
        /\ \A j \in DOMAIN doc.comps : doc.comps[j].tag # doc.tags[i].id /\ ~Contains(doc.comps[j].series, doc.tags[i].id)
        /\ Commit([doc EXCEPT !.tags = RemoveAt(@, i)])

\* removeTag, tagUsageCounts
RemoveTag ==
    \E i \in DOMAIN doc.tags :
        /\ doc.tags[i].id \notin Used(doc)
        /\ Commit([doc EXCEPT !.tags = RemoveAt(@, i)])

\* The access or the source of a tag, whatever is bound to it.
ChangeTag ==
    \E i \in DOMAIN doc.tags :
        \/ \E a \in {"read", "read-write"} : Commit([doc EXCEPT !.tags[i].access = a])
        \/ \E s \in doc.sources : Commit([doc EXCEPT !.tags[i].source = s])

\* Mutant: a source in use is detached.
DetachSourceInUse == \E s \in doc.sources \ {"mock"} : Commit([doc EXCEPT !.sources = @ \ {s}])

\* detachUnusedConnectorSources
DetachSource ==
    \E s \in doc.sources \ {"mock"} :
        /\ \A i \in DOMAIN doc.tags : doc.tags[i].source # s
        /\ Commit([doc EXCEPT !.sources = @ \ {s}])

AttachSource == \E s \in Sources \ doc.sources : Commit([doc EXCEPT !.sources = @ \cup {s}])

Tagging ==
    /\ Tool("tags")
    /\ AddTag \/ RemoveTag \/ ChangeTag \/ DetachSource \/ AttachSource
    /\ UNCHANGED <<clipboard, selected, nextId, adrift>>

SchematicNext ==
    \/ Undo \/ Redo \/ DragStarts \/ DragMoves \/ DragEnds
    \/ AddComponent \/ DeleteSelected \/ SelectComponent \/ DuplicateSelected \/ CopySelected \/ PasteComponents
    \/ AddExistingPopupControl \/ CreatePopupControl \/ ChangePopup \/ Inspect \/ Tagging

-----------------------------------------------------------------------------
(***************************************************************************)
(* Properties.                                                             *)
(***************************************************************************)

Distinct(s) == Cardinality(ToSet(s)) = Len(s)

\* What validateProjectSchema asks of references holds after every edit, undo and
\* redo: no edit leaves a reference to what it takes away.  (Left out are the
\* components that were pasted from a clipboard older than the document, and
\* what they refer to.)
NothingDangles ==
    \A i \in DOMAIN doc.comps :
        LET c == doc.comps[i] IN
        c.id \notin adrift =>
            /\ ~Dangles(doc, c)
            /\ \A id \in ToSet(c.children) \cup ToSet(c.controls) : Comp(doc, id).type \in ControlTypes
            /\ ToSet(c.steps) \subseteq ToSet(c.controls)
            /\ \A id \in ToSet(c.steps) : Comp(doc, id).type = "control-button"

\* A control is in one pop-up at most, once, and a pop-up within its limit.
OneOwner ==
    /\ \A i, j \in DOMAIN doc.comps :
          i # j => ToSet(doc.comps[i].children) \cap ToSet(doc.comps[j].children) = {}
    /\ \A i \in DOMAIN doc.comps :
          /\ Distinct(doc.comps[i].children) /\ Len(doc.comps[i].children) <= MaxChildren
          /\ Distinct(doc.comps[i].controls) /\ Distinct(doc.comps[i].series)

\* Every id is that of one component, every tag's source is there.
IdsAreUnique ==
    /\ Cardinality(IdsOf(doc)) = Len(doc.comps) /\ Cardinality(TagIds(doc)) = Len(doc.tags)
    /\ \A i \in DOMAIN doc.tags : doc.tags[i].source \in doc.sources

\* Undo takes back one gesture at a time, redo gives it back: each document was
\* made of the one before it, unless the keyboard was used in the middle of a
\* drag (endTransaction then puts the document before the drag after the ones
\* the keyboard made).
UndoIsAChain ==
    before = NoRef /\ ~mixed =>
        LET line == past \o <<doc>> \o future
        IN \A i \in 1..(Len(line) - 1) : line[i + 1].from = line[i].made

SchematicInv == NothingDangles /\ OneOwner /\ IdsAreUnique /\ UndoIsAChain
=============================================================================

-------------------------- MODULE CanvasPlacement --------------------------
(***************************************************************************)
(* Components on the canvas of the builder: nudging, dragging and resizing *)
(* them with the grid and the smart guides, and arranging a selection      *)
(* (shared/placement.js, startTransform of src/platform/RuntimeCanvas.jsx, *)
(* and what src/BuilderPlatform.jsx places by itself).                     *)
(*                                                                         *)
(* The axes do not depend on each other but for a locked aspect ratio,     *)
(* which is left out: this is one of them.  A box is [at, size, locked].   *)
(* A drag goes on from where its boxes were when it began, whatever the    *)
(* keyboard does in between.                                               *)
(***************************************************************************)
EXTENDS Integers, Sequences

LOCAL INSTANCE FiniteSetsExt

CONSTANTS
    Extent,         \* width of the canvas
    MinSize,        \* 24 of startTransform
    Grid,           \* gridSize
    Tolerance,      \* of the smart guides
    Cascade,        \* 20, by which a copy is placed aside
    Pulls,          \* how far the pointer goes
    Boards,         \* the instances a run covers
    NoDrag

ASSUME PlacementAssumption ==
    {Extent, MinSize, Grid, Tolerance, Cascade} \subseteq Nat \ {0} /\ Pulls \subseteq Int

VARIABLES
    board,      \* the instance of this behaviour
    boxes,
    chosen,     \* the boxes that are selected
    drag,       \* NoDrag, or [kind, ids, from, targets, torn]: the boxes it moves, all as
                \* they were when it began, what the guides look at, and whether an
                \* arrow key has moved only some of its boxes since
    astray,     \* boxes that something other than a drag has put partly outside
    entered,    \* boxes whose place was typed in
    moves       \* the number of moves

placementVars == <<board, boxes, chosen, drag, astray, entered, moves>>

Between(x, low, high) == Max({low, Min({high, x})})
End(box) == box.at + box.size
Placed(box) == 0 <= box.at /\ End(box) <= Extent /\ box.size >= MinSize

\* selectionBounds
Bounds(bs, ids) ==
    LET start == Min({bs[i].at : i \in ids})
    IN [at |-> start, size |-> Max({End(bs[i]) : i \in ids}) - start]

Movable(ids) == {i \in ids : ~boxes[i].locked}

\* Math.round(value / grid) * grid
OnGrid(x) == IF board.grid THEN ((2 * x + Grid) \div (2 * Grid)) * Grid ELSE x

\* A move by d keeps the group inside; if it is too large, its beginning.
KeptInside(group, d) == Between(d, -group.at, Extent - group.at - group.size)

\* Mutant: each box is kept inside by itself.
ShiftedEach(bs, ids, d) ==
    [i \in DOMAIN bs |-> IF i \in ids THEN [bs[i] EXCEPT !.at = @ + KeptInside(bs[i], d)] ELSE bs[i]]

Shifted(bs, ids, d) ==
    [i \in DOMAIN bs |-> IF i \in ids THEN [bs[i] EXCEPT !.at = @ + KeptInside(Bounds(bs, ids), d)] ELSE bs[i]]

\* resolveSmartSnap: the nearest pair of edges or centres, if one is near.
\* (Twice the size, for the centres.)
Anchors(box) == {2 * box.at, 2 * box.at + box.size, 2 * End(box)}
Guided(group, targets) ==
    LET deltas == {t - a : t \in UNION {Anchors(b) : b \in targets}, a \in Anchors(group)}
        near == {d \in deltas : -2 * Tolerance <= d /\ d <= 2 * Tolerance}
        nearest == {d \in near : \A e \in near : Max({d, -d}) <= Max({e, -e})}
    IN IF ~board.guides \/ near = {} THEN {0} ELSE {d \div 2 : d \in nearest}

-----------------------------------------------------------------------------
PlacementInit ==
    /\ board \in Boards
    /\ boxes = board.boxes
    /\ chosen = {} /\ drag = NoDrag /\ astray = {} /\ entered = {} /\ moves = 0

Moves == moves < board.moves /\ moves' = moves + 1

\* The boxes an operation has changed: those it has brought inside are astray no
\* more; a group that had one that was may have taken others outside with it.
Settled(ids, old, new) ==
    astray' = (astray \ {i \in ids : Placed(new[i])})
              \cup {i \in ids : ~Placed(new[i]) /\ \E j \in ids : ~Placed(old[j])}

\* nudgeSelected, moveSelection; a drag goes on from where it began.
Nudge ==
    /\ Moves
    /\ LET ids == Movable(chosen) IN
       /\ ids # {}
       /\ \E d \in {-1, 1, -Grid, Grid} :
            boxes' = Shifted(boxes, ids, d) /\ Settled(ids, boxes, boxes')
       /\ drag' = IF drag = NoDrag THEN drag
                  ELSE [drag EXCEPT !.torn = @ \/ (drag.ids \cap ids # {} /\ ~(drag.ids \subseteq ids))]
    /\ UNCHANGED <<board, entered, chosen>>

\* With shift or ctrl a box is added to the selection, or taken out of it.
Toggled(i) == IF i \in chosen THEN chosen \ {i} ELSE chosen \cup {i}

\* selectComponent, and a press beside the boxes.
Choose ==
    /\ drag = NoDrag
    /\ \E i \in DOMAIN boxes : chosen' \in {{i}, Toggled(i), {}}
    /\ UNCHANGED <<board, entered, boxes, drag, astray, moves>>

\* startTransform: a move takes the selection with it if it has the box and
\* others.  What is selected then is the same, or the box alone; but with shift
\* or ctrl the box that is pressed leaves the selection, or joins it, and the
\* move takes what was selected before.
PointerDown ==
    /\ drag = NoDrag
    /\ \E i \in DOMAIN boxes, kind \in {"move", "start", "end"}, additive \in BOOLEAN :
        LET group == IF kind = "move" /\ i \in chosen THEN chosen ELSE {i}
            others == {[at |-> boxes[j].at, size |-> boxes[j].size] : j \in DOMAIN boxes \ group}
        IN /\ ~boxes[i].locked
           /\ additive => kind = "move"
           /\ chosen' = IF additive THEN Toggled(i) ELSE group
           /\ drag' = [kind |-> kind, ids |-> Movable(group), from |-> boxes,
                        targets |-> others \cup {[at |-> 0, size |-> Extent]}, torn |-> FALSE]
    /\ UNCHANGED <<board, entered, boxes, astray, moves>>

\* Mutant: a move a guide was found for is not kept inside.
DragToGuide ==
    /\ drag # NoDrag /\ drag.kind = "move" /\ Moves
    /\ \E pull \in Pulls :
        LET group == Bounds(drag.from, drag.ids)
            snapped == OnGrid(group.at + pull) - group.at
        IN \E g \in Guided([group EXCEPT !.at = @ + snapped], drag.targets) :
            LET move == IF g = 0 THEN KeptInside(group, snapped) ELSE snapped + g
            IN boxes' = [i \in DOMAIN boxes |->
                          IF i \in drag.ids THEN [boxes[i] EXCEPT !.at = drag.from[i].at + move] ELSE boxes[i]]
    /\ Settled(drag.ids, drag.from, boxes')
    /\ drag' = [drag EXCEPT !.torn = FALSE]
    /\ UNCHANGED <<board, entered, chosen>>

\* move: the grid, the guides, the canvas, in this order.
DragTo ==
    /\ drag # NoDrag /\ drag.kind = "move" /\ Moves
    /\ \E pull \in Pulls :
        LET group == Bounds(drag.from, drag.ids)
            snapped == OnGrid(group.at + pull) - group.at
        IN \E g \in Guided([group EXCEPT !.at = @ + snapped], drag.targets) :
            boxes' = [i \in DOMAIN boxes |->
                        IF i \in drag.ids
                        THEN [boxes[i] EXCEPT !.at = drag.from[i].at + KeptInside(group, snapped + g)] ELSE boxes[i]]
    /\ Settled(drag.ids, drag.from, boxes')
    /\ drag' = [drag EXCEPT !.torn = FALSE]
    /\ UNCHANGED <<board, entered, chosen>>

\* Mutant: the smallest size is forgotten at the end of a box.
ResizedFreely(box, kind, pull) ==
    LET start == IF kind = "start" THEN Between(OnGrid(box.at + pull), 0, End(box) - MinSize) ELSE box.at
        end == IF kind = "end" THEN Between(OnGrid(End(box) + pull), box.at, Extent) ELSE End(box)
    IN [box EXCEPT !.at = start, !.size = end - start]

\* resizeComponentBounds
Resized(box, kind, pull) ==
    LET start == IF kind = "start" THEN Between(OnGrid(box.at + pull), 0, End(box) - MinSize) ELSE box.at
        end == IF kind = "end" THEN Between(OnGrid(End(box) + pull), box.at + MinSize, Extent) ELSE End(box)
    IN [box EXCEPT !.at = start, !.size = end - start]

ResizeTo ==
    /\ drag # NoDrag /\ drag.kind # "move" /\ Moves
    /\ \E pull \in Pulls, i \in drag.ids :
        boxes' = [boxes EXCEPT ![i] = [Resized(drag.from[i], drag.kind, pull) EXCEPT !.locked = boxes[i].locked]]
    /\ Settled(drag.ids, drag.from, boxes')
    /\ UNCHANGED <<board, entered, chosen, drag>>

PointerUp ==
    /\ drag # NoDrag
    /\ drag' = NoDrag
    /\ UNCHANGED <<board, entered, boxes, chosen, astray, moves>>

-----------------------------------------------------------------------------
(* arrangeSelection                                                        *)

\* The places of a selection that is aligned.
AlignedAt(action, group, box) ==
    CASE action = "start"  -> group.at
      [] action = "center" -> group.at + (group.size - box.size) \div 2
      [] action = "end"    -> group.at + group.size - box.size

\* distribute: in the order of their places, with equal gaps (less than none if
\* they overlap), the first and the last where they are.
Distributed(ids) ==
    LET order == CHOOSE s \in [1..Cardinality(ids) -> ids] :
                    /\ \A a, b \in 1..Cardinality(ids) : a # b => s[a] # s[b]
                    /\ \A a, b \in 1..Cardinality(ids) :
                          a < b => \/ boxes[s[a]].at < boxes[s[b]].at
                                   \/ boxes[s[a]].at = boxes[s[b]].at /\ s[a] < s[b]
        n == Cardinality(ids)
        Sizes(k) == MapThenSumSet(LAMBDA j : boxes[order[j]].size, 1..k)
        room == End(boxes[order[n]]) - boxes[order[1]].at - Sizes(n)
    IN [i \in ids |->
          LET k == CHOOSE k \in 1..n : order[k] = i
          IN boxes[order[1]].at + Sizes(k - 1) + ((k - 1) * room) \div (n - 1)]

Arrange ==
    /\ drag = NoDrag /\ board.arrange
    /\ Moves
    /\ LET ids == Movable(chosen) IN
       /\ Cardinality(ids) >= 2
       /\ \/ \E action \in {"start", "center", "end"} :
                boxes' = [i \in DOMAIN boxes |->
                    IF i \in ids THEN [boxes[i] EXCEPT !.at = AlignedAt(action, Bounds(boxes, ids), boxes[i])] ELSE boxes[i]]
             /\ Settled(ids, boxes, boxes')
          \/ /\ Cardinality(ids) >= 3
             /\ boxes' = [i \in DOMAIN boxes |->
                    IF i \in ids THEN [boxes[i] EXCEPT !.at = Distributed(ids)[i]] ELSE boxes[i]]
             /\ astray' = (astray \ ids) \cup {i \in ids : ~Placed(boxes'[i])}
    /\ UNCHANGED <<board, entered, chosen, drag>>

-----------------------------------------------------------------------------
(* What is placed without regard to the canvas.                            *)

Put(new) ==
    /\ Len(boxes) < board.boxMax
    /\ Moves
    /\ boxes' = Append(boxes, new)
    /\ astray' = IF Placed(new) THEN astray ELSE astray \cup {Len(boxes) + 1}
    /\ chosen' = {Len(boxes) + 1}
    /\ UNCHANGED <<board, entered, drag>>

\* createComponentInstance: in the middle, each a little further.
Add ==
    Put([at |-> Max({0, Extent \div 2 - MinSize \div 2 + Len(boxes) * Cascade}), size |-> MinSize, locked |-> FALSE])

\* duplicateSelected, pasteComponents
Duplicate == \E i \in chosen : chosen = {i} /\ Put([boxes[i] EXCEPT !.at = @ + Cascade])

\* addDesignElement: where the file was dropped, inside.
DropImage ==
    \E at \in {0, Extent} :
        Put([at |-> Max({0, Min({Extent - MinSize, at - MinSize \div 2})}), size |-> MinSize, locked |-> FALSE])

\* The fields of the inspector, which are there for a locked component too.
TypePlace ==
    /\ Moves /\ drag = NoDrag
    /\ \E i \in DOMAIN boxes, x \in Pulls :
        /\ chosen = {i} /\ entered' = entered \cup {i}
        /\ boxes' = [boxes EXCEPT ![i].at = x]
        /\ astray' = IF Placed(boxes'[i]) THEN astray \ {i} ELSE astray \cup {i}
    /\ UNCHANGED <<board, chosen, drag>>

PlacementNext ==
    \/ Nudge \/ Choose \/ PointerDown \/ DragTo \/ ResizeTo \/ PointerUp \/ Arrange
    \/ Add \/ Duplicate \/ DropImage \/ TypePlace

-----------------------------------------------------------------------------
(***************************************************************************)
(* Properties.                                                             *)
(***************************************************************************)

\* No sequence of drags, nudges, resizes and alignments takes a component off the
\* canvas, or below the smallest size: what is partly outside was put there by a
\* copy, a number that was typed in, or a distribution of overlapping components.
StaysInside ==
    \A i \in DOMAIN boxes : i \notin astray => Placed(boxes[i])

\* A locked component stays where it is, also in a selection that is moved or
\* arranged, until the inspector gives it another place.
LockedStays ==
    \A i \in DOMAIN board.boxes :
        board.boxes[i].locked /\ i \notin entered => boxes[i] = board.boxes[i]

\* A group is dragged as a whole, whatever the grid, the guides, the edges of the
\* canvas and the arrow keys make of the move.  An arrow key during the drag of a
\* group that was pressed with shift moves the rest of it only, until the pointer
\* moves again and puts it together.
DragIsRigid ==
    drag # NoDrag /\ drag.kind = "move" /\ ~drag.torn =>
        \A i, j \in drag.ids : boxes[i].at - boxes[j].at = drag.from[i].at - drag.from[j].at

PlacementInv == StaysInside /\ LockedStays /\ DragIsRigid
=============================================================================

---------------------- MODULE DashboardCanvasProperties ----------------------
(***************************************************************************)
(* What the canvas of a dashboard promises its user.                       *)
(***************************************************************************)
EXTENDS DashboardCanvas

CONSTANT MaxRow \* a bound on the rows, for the type invariant only

\* The type invariant; a request waits for its turn only while a timer runs.
TypeOK ==
    /\ layout.at \in [Item -> [x : 0 .. MaxRow, y : 0 .. MaxRow,
                               sizeX : 0 .. MaxRow, sizeY : 0 .. MaxRow]]
    /\ comps \in Seq(Item) /\ next \in 0 .. Len(comps)
    /\ drag \in [mode : {{}, Whole} \union Handle, item : Item \union {NoItem}]
    /\ timer \in {"off", "armed", "cooling"}
    /\ (timer = "armed") <=> (task # NoTask)
    /\ timer = "off" => lastTask = NoTask
    /\ locked \in BOOLEAN /\ careless \in BOOLEAN

\* However components are dragged, resized, added and deleted, no two cover the
\* same cell: emptyTargetCell and the recursive pushes leave room.
NoOverlap == careless \/ Apart(layout, Placed)

\* positionBox holds each component where its coordinates say, and nothing else,
\* and has all the rows it needs: erasing and redrawing in the middle of the
\* recursions loses no cell, nor does a row that is missing when it is drawn.
GridAgrees == careless \/ (Agrees(layout, Placed) /\ Roomy(layout, Placed))

\* Every component rests on another one or on the top: whatever an operation
\* makes room above floats, however far down the cascade reaches.
NothingFloats == careless \/ \A i \in Placed : CanItemGoUp(layout, i) = 0

\* No component ends outside the columns of the canvas, not even when late
\* moves run after a drop or the columns are miscounted.
StaysInside == \A i \in Placed : Columns(layout.at[i]) \subseteq 1 .. Columns0

\* A dashboard whose array is in the order of its rows looks the same when it is
\* loaded again: drawing one component after the other moves none of them.
SortedReload ==
    /\ AtRest
    /\ \A m, n \in DOMAIN comps : m < n => layout.at[comps[m]].y <= layout.at[comps[n]].y
    => \A i \in Placed : Loaded(Columns0, layout.at, comps).at[i] = layout.at[i]
=============================================================================

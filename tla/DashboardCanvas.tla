--------------------------- MODULE DashboardCanvas ---------------------------
(***************************************************************************)
(* The editor of one dashboard (CanvasCore.vue): components are drawn one  *)
(* after the other by an interval, dragged and resized through a debounce  *)
(* that runs the newest request after the previous one has cooled down,    *)
(* deleted, and moved into a tab when the button is released over one.     *)
(***************************************************************************)
EXTENDS CanvasGrid

CONSTANTS Order,    \* the components as saved, in the order of the array
          Saved,    \* their rectangles as saved
          Columns0, \* columns of the canvas
          Spot,     \* where a drag may lead: pairs <<x, y>>
          Handle,   \* the points of a component: sets of sides
          Pull,     \* how far a handle is pulled: pairs <<dx, dy>>
          Tallest,  \* a bound: how tall a component is pulled
          Menu,     \* the items that are deleted and added
          Tab,      \* the items that are tab containers
          Stale     \* column counts a resize of the window may compute

ASSUME CanvasAssumption ==
    /\ Columns0 \in Nat \ {0} /\ Tab \subseteq Item
    /\ Order \in Seq(Item) /\ IsInjective(Order)

VARIABLES
    layout,    \* coordinates and positionBox
    comps,     \* canvasComponentData: the array of components
    next,      \* how many of them the interval of init has drawn
    drag,      \* infoBox: what is dragged or resized
    old,       \* infoBox.oldX, oldY, oldSizeX, oldSizeY
    timer,     \* "off", "armed" or "cooling" (isOverlay)
    task,      \* the function given to setTimeout
    lastTask,  \* the newest one while isOverlay
    locked,    \* canvasLocked, over a tab that would take the item
    careless   \* rigid: whether the mouse outruns the debounce and the window
               \* is resized under it; a bound: the careless only drag, until
               \* the first component is gone

debounce == <<timer, task, lastTask>>
mouse == <<drag, old, locked>>
vars == <<layout, comps, next, drag, old, timer, task, lastTask, locked, careless>>

\* infoBox after the mouse button, and a rectangle nobody asks for.
Nowhere == Rect(0, 0, 0, 0)
NoTask == [do |-> "none", item |-> NoItem, to |-> Nowhere]
\* mode is the set of sides that move: all of them when the item is dragged.
Whole == {"l", "t", "r", "b"}
NoDrag == [mode |-> {}, item |-> NoItem]

Placed == ToSet(SubSeq(comps, 1, next))
Loading == next < Len(comps)

Init ==
    /\ comps = Order /\ next = 0
    /\ layout = EmptyLayout(Columns0, Saved)
    /\ drag = NoDrag /\ old = Nowhere /\ locked = FALSE
    /\ timer = "off" /\ task = NoTask /\ lastTask = NoTask
    /\ careless \in BOOLEAN

\* One tick of the interval of init.
DrawNext ==
    /\ Loading
    /\ layout' = AddItem(layout, comps[next + 1])
    /\ next' = next + 1
    /\ UNCHANGED <<comps, mouse, debounce>>

-----------------------------------------------------------------------------
(* The mouse *)

StartMove(mode, i) ==
    /\ drag = NoDrag /\ i \in Placed /\ ~Loading
    /\ IF careless THEN mode = Whole /\ Len(comps) = Len(Order) ELSE timer = "off"
    /\ drag' = [mode |-> mode, item |-> i]
    /\ old' = layout.at[i]
    /\ locked' = FALSE
    /\ UNCHANGED <<layout, comps, next, debounce>>

\* The first request of a burst is armed, later ones replace each other.
Debounce(f) ==
    IF timer = "off" THEN /\ timer' = "armed" /\ task' = f /\ lastTask' = NoTask
                     ELSE /\ lastTask' = f /\ UNCHANGED <<timer, task>>

\* Over a tab the canvas is locked and the item is not moved.
DragOver(spot) ==
    /\ drag.mode = Whole
    /\ \/ /\ locked' = FALSE
          /\ Debounce([do |-> "move", item |-> drag.item,
                       to |-> Rect(spot[1], spot[2], 0, 0)])
       \/ /\ drag.item \notin Tab /\ Placed \intersect Tab # {}
          /\ locked' = TRUE /\ UNCHANGED debounce
    /\ UNCHANGED <<layout, comps, next, drag, old>>

DragHandle(pull) ==
    /\ drag.mode \in Handle /\ old.sizeY + pull[2] <= Tallest
    /\ Debounce([do |-> "resize", item |-> drag.item,
                 to |-> GetNowPosition(old, drag.mode, pull[1], pull[2])])
    /\ UNCHANGED <<layout, comps, next, mouse>>

\* Off the grid and out of the array.  Only a late move looks at the
\* coordinates of what is gone; without one they are forgotten.
RemoveItemById(i) ==
    /\ layout' = [Vacate(layout, i) EXCEPT !.at[i] = IF careless THEN @ ELSE Nowhere]
    /\ comps' = SelectSeq(comps, LAMBDA j : j # i)
    /\ next' = next - 1

\* A component dropped on the inside of a tab leaves this canvas for the
\* tab's own; on its border it stays.
MouseUp ==
    /\ drag # NoDrag
    /\ \/ locked /\ (careless \/ timer = "off") /\ RemoveItemById(drag.item)
       \/ UNCHANGED <<layout, comps, next>>
    /\ drag' = NoDrag /\ old' = Nowhere /\ locked' = FALSE
    /\ UNCHANGED debounce

\* Deleting and adding go through a menu or a dialog: nothing is in flight.
AtRest == ~Loading /\ drag = NoDrag /\ timer = "off" /\ ~careless

DeleteItem(i) ==
    /\ AtRest /\ i \in Placed
    /\ RemoveItemById(i)
    /\ UNCHANGED <<mouse, debounce>>

\* addComponent, then addItemBox: the array first, the grid in the same turn.
AddItemBox(i) ==
    /\ AtRest /\ i \notin Placed
    /\ LET x == FindPositionX(layout, Placed, Saved[i].sizeX)
           new == [Saved[i] EXCEPT !.x = x, !.y = NewY(layout, Placed)]
       IN  layout' = AddItem([layout EXCEPT !.at[i] = new], i)
    /\ comps' = Append(comps, i) /\ next' = next + 1
    /\ UNCHANGED <<mouse, debounce>>

-----------------------------------------------------------------------------
(* The debounced work *)

\* The comparison is with infoBox as it is now: cleared if the button has been
\* released, of another item if a new drag has begun.
RunTask ==
    /\ timer = "armed" /\ timer' = "cooling" /\ task' = NoTask
    /\ LET same == task.to.x = old.x /\ task.to.y = old.y IN
       \/ /\ task.do = "move" /\ ~same
          /\ layout' = MovePlayer(layout, task.item, task.to.x, task.to.y)
          /\ old' = [old EXCEPT !.x = task.to.x, !.y = task.to.y]
       \/ task.do = "move" /\ same /\ UNCHANGED <<layout, old>>
       \/ /\ task.do = "resize" /\ layout' = ResizePlayer(layout, task.item, task.to)
          /\ UNCHANGED old
    /\ UNCHANGED <<comps, next, drag, lastTask, locked>>

\* Mutant: the newest request is armed without a timer.
CooledForGood ==
    /\ timer = "cooling" /\ timer' = "off"
    /\ task' = lastTask /\ lastTask' = NoTask
    /\ UNCHANGED <<layout, comps, next, mouse>>

CooledDown ==
    /\ timer = "cooling"
    /\ timer' = IF lastTask = NoTask THEN "off" ELSE "armed"
    /\ task' = lastTask /\ lastTask' = NoTask
    /\ UNCHANGED <<layout, comps, next, mouse>>

-----------------------------------------------------------------------------
\* The window is resized: the columns are counted with the new width and the
\* cell width of the old one.
ResizeWindow ==
    /\ careless /\ \E n \in Stale : layout' = [layout EXCEPT !.maxX = n]
    /\ UNCHANGED <<comps, next, mouse, debounce>>

Step ==
    \/ DrawNext \/ MouseUp \/ RunTask \/ CooledDown \/ ResizeWindow
    \/ \E i \in Menu : DeleteItem(i) \/ AddItemBox(i)
    \/ \E i \in Item, mode \in {Whole} \union Handle : StartMove(mode, i)
    \/ \E spot \in Spot : DragOver(spot)
    \/ \E pull \in Pull : DragHandle(pull)

Next == Step /\ UNCHANGED careless

Spec == Init /\ [][Next]_vars

=============================================================================

----------------------------- MODULE CanvasGrid -----------------------------
(***************************************************************************)
(* The layout algorithm of the dashboard canvas (CanvasCore.vue): moving   *)
(* an item pushes others down and lets others float up, recursively, and   *)
(* each step of the recursions erases and redraws cells.                   *)
(***************************************************************************)
EXTENDS CanvasCells

RECURSIVE MoveItemUp(_, _, _)
MoveItemUp(L, i, size) ==
    LET lifted == RemoveItemFromPositionBox(L, i)
        Float(M, j) == IF CanItemGoUp(M, j) > 0
                       THEN MoveItemUp(M, j, CanItemGoUp(M, j)) ELSE M
    IN  FoldLeft(Float, Raise(L, i, size), FindBelowItems(lifted, i))

RECURSIVE MoveItemDown(_, _, _)
MoveItemDown(L, i, size) ==
    LET lifted == RemoveItemFromPositionBox(L, i)
        Push(M, j) == IF j # i /\ CalcDiff(M, i, j, size) > 0
                      THEN MoveItemDown(M, j, CalcDiff(M, i, j, size)) ELSE M
    IN  Lower(FoldLeft(Push, lifted, FindBelowItems(lifted, i)), i, size)

\* Float i, if it can.
FloatUp(L, i) ==
    IF CanItemGoUp(L, i) > 0 THEN MoveItemUp(L, i, CanItemGoUp(L, i)) ELSE L

\* Mutant: one row too few.
EmptyAllButOneRow(L, i) ==
    LET Push(M, j) ==
            LET size == M.at[i].y + M.at[i].sizeY - M.at[j].y - 1
            IN  IF j # i /\ size > 0 THEN MoveItemDown(M, j, size) ELSE M
    IN  FoldLeft(Push, L, FindBelowItems(L, i))

\* Push what lies in the rectangle of i out of it.
EmptyTargetCell(L, i) ==
    LET Push(M, j) ==
            LET size == M.at[i].y + M.at[i].sizeY - M.at[j].y
            IN  IF j # i /\ size > 0 THEN MoveItemDown(M, j, size) ELSE M
    IN  FoldLeft(Push, L, FindBelowItems(L, i))

\* Mutant: what was below stays where it is.
VacateOnly(L, i) == RemoveItemFromPositionBox(L, i)

\* Take i off the grid and let what was below it float.
Vacate(L, i) ==
    LET lifted == RemoveItemFromPositionBox(L, i)
    IN  FoldLeft(FloatUp, lifted, FindBelowItems(lifted, i))

\* Draw i where it now is, and let it float.
Settle(L, i) == FloatUp(AddItemToPositionBox(EmptyTargetCell(L, i), i), i)

AddItem(L, i) == Settle(CheckItemPosition(L, i), i)

MovePlayer(L, i, x, y) ==
    Settle(CheckItemPosition([Vacate(L, i) EXCEPT !.at[i].x = x, !.at[i].y = y], i), i)

\* Mutant: grows over what is in the way.
ResizeInPlace(L, i, r) ==
    LET V == Vacate(L, i) IN
    AddItemToPositionBox(CheckItemPosition([V EXCEPT !.at[i] = r], i), i)

\* The width is clamped with the old x; rows are made for the old y.
ResizePlayer(L, i, r) ==
    LET V == Vacate(L, i)
        old == V.at[i]
        sizeX == GrantedWidth(V.maxX, old.x, r.sizeX)
        grown == IF r.sizeY + old.y > V.maxY THEN FillPositionBox(V, old.y + r.sizeY)
                 ELSE V
    IN  Settle([grown EXCEPT !.at[i] = Rect(r.x, r.y, sizeX, r.sizeY)], i)

\* A whole dashboard, drawn one item after the other in the order saved.
Loaded(maxX, at, order) == FoldLeft(AddItem, EmptyLayout(maxX, at), order)
=============================================================================

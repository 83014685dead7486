----------------------------- MODULE CanvasCells -----------------------------
(***************************************************************************)
(* The grid of the dashboard canvas (CanvasCore.vue).  A layout keeps      *)
(* every item twice: its own coordinates, and its identity in every cell   *)
(* of positionBox it covers.  These are the steps the layout algorithm is  *)
(* made of: they erase and draw cells, look for free ones and clamp        *)
(* rectangles; cells outside the rows that exist are silently skipped.     *)
(***************************************************************************)
EXTENDS Integers, SequencesExt

CONSTANTS Item,  \* the components a dashboard may hold
          NoItem \* no component

ASSUME GridAssumption == NoItem \notin Item

\* A layout: at[i] is the item's rectangle, width[row] the cells row has in
\* positionBox, held the triples <<row, column, item>> of the cells whose el
\* is an item, maxX and maxY the code's itemMaxX and itemMaxY.
Rect(x, y, sizeX, sizeY) == [x |-> x, y |-> y, sizeX |-> sizeX, sizeY |-> sizeY]

Columns(r) == r.x .. r.x + r.sizeX - 1
Rows(r) == r.y .. r.y + r.sizeY - 1
Exists(L, row, col) == row \in DOMAIN L.width /\ col \in 1 .. L.width[row]

\* Mutant: the bottom row is left behind.
RemoveAllButLastRow(L, i) ==
    LET r == L.at[i] IN
    [L EXCEPT !.held = {c \in @ : ~( /\ c[1] \in r.y .. r.y + r.sizeY - 2
                                     /\ c[2] \in Columns(r))}]

\* Erases the cells whoever holds them.
RemoveItemFromPositionBox(L, i) ==
    LET r == L.at[i] IN
    IF r.x <= 0 \/ r.y <= 0 THEN L
    ELSE [L EXCEPT !.held = {c \in @ : ~(c[1] \in Rows(r) /\ c[2] \in Columns(r))}]

AddItemToPositionBox(L, i) ==
    LET r == L.at[i] IN
    IF r.x <= 0 \/ r.y <= 0 THEN L
    ELSE [RemoveItemFromPositionBox(L, i) EXCEPT !.held = @ \union
             {c \in Rows(r) \X Columns(r) \X {i} : Exists(L, c[1], c[2])}]

\* Rows that are missing get as many cells as itemMaxX says now.
FillPositionBox(L, y) ==
    [L EXCEPT !.maxY = y + 2,
              !.width = @ \o [k \in 1 .. y + 2 - Len(@) |-> L.maxX]]

\* init: a single row.
EmptyLayout(maxX, at) ==
    [at |-> at, width |-> <<maxX>>, held |-> {}, maxX |-> maxX, maxY |-> 0]

\* The first item met in each column from the top row of i downwards, once
\* each, sorted by y (a stable sort of the order in which they were met).
FindBelowItems(L, i) ==
    LET r == L.at[i]
        ahead == {c \in L.held : c[1] >= r.y /\ c[2] \in Columns(r)}
        first == {c \in ahead : \A d \in ahead : d[2] = c[2] => c[1] <= d[1]}
        Met(j) == Min({c[2] : c \in {d \in first : d[3] = j}})
    IN  SetToSortSeq({c[3] : c \in first}, LAMBDA j, k :
            \/ L.at[j].y < L.at[k].y
            \/ L.at[j].y = L.at[k].y /\ Met(j) < Met(k))

\* Mutant: only the first column is looked at.
CanFirstColumnGoUp(L, i) ==
    LET r == L.at[i]
        blocked == {c[1] : c \in {d \in L.held : d[1] < r.y /\ d[2] = r.x}}
    IN  r.y - 1 - Max({0} \union blocked)

\* How many rows i can float: up to the first row with an occupied cell.
CanItemGoUp(L, i) ==
    LET r == L.at[i]
        blocked == {c[1] : c \in {d \in L.held : d[1] < r.y /\ d[2] \in Columns(r)}}
    IN  r.y - 1 - Max({0} \union blocked)

\* A target of 0 is falsy and leaves the coordinate as it is.
SetPlayerPosition(L, i, y) ==
    LET new == IF y = 0 THEN L.at[i].y ELSE y
        bottom == new + L.at[i].sizeY
    IN  [L EXCEPT !.at[i].y = new, !.maxY = IF bottom > @ THEN bottom ELSE @]

\* Mutant: the right boundary is forgotten.
CheckOnlyRows(L, i) ==
    LET bottom == L.at[i].y + L.at[i].sizeY
    IN  IF bottom > L.maxY - 1 THEN FillPositionBox(L, bottom - 1) ELSE L

\* Clamp the rectangle to the canvas; make the rows it needs.
CheckItemPosition(L, i) ==
    LET r == L.at[i]
        sizeX == Min({Max({r.sizeX, 1}), L.maxX})
        sizeY == Max({r.sizeY, 1})
        x0 == Max({r.x, 1})
        x == IF x0 + sizeX - 1 > L.maxX THEN Max({L.maxX - sizeX + 1, 1}) ELSE x0
        y == Max({r.y, 1})
        M == [L EXCEPT !.at[i] = Rect(x, y, sizeX, sizeY)]
    IN  IF y + sizeY > L.maxY - 1 THEN FillPositionBox(M, y + sizeY - 1) ELSE M

\* The rows of the gap between parent and son are not travelled twice.
CalcDiff(L, parent, son, size) ==
    LET p == L.at[parent]
        s == L.at[son]
        Gap(col) == Cardinality({row \in p.y + p.sizeY .. s.y - 1 :
                        /\ Exists(L, row, col)
                        /\ \A c \in L.held : c[1] # row \/ c[2] # col})
    IN  Max({0, size - Max({Gap(col) : col \in Columns(s)})})

\* The rectangle a handle asks for when it is pulled by dx columns and dy
\* rows; a point is the set of sides the handle moves.
GetNowPosition(old, point, dx, dy) ==
    LET right == old.x + old.sizeX - 1
        x == IF "l" \in point THEN Min({Max({old.x + dx, 1}), right}) ELSE old.x
        y == IF "t" \in point THEN Max({old.y + dy, 1}) ELSE old.y
        sizeX == CASE "r" \in point -> Max({old.sizeX + dx, 1})
                   [] "l" \in point -> Min({Max({old.sizeX - dx, 1}), right})
                   [] OTHER -> old.sizeX
        sizeY == CASE "b" \in point -> Max({old.sizeY + dy, 1})
                   [] "t" \in point -> Max({old.sizeY - dy, 1})
                   [] OTHER -> old.sizeY
    IN  Rect(x, y, sizeX, sizeY)

\* The width a resize grants: clamped with the x the item had.
GrantedWidth(maxX, x, sizeX) == IF sizeX + x - 1 > maxX THEN maxX - x + 1 ELSE sizeX

\* The first free stretch in the row of the lowest item, else column 1.
FindPositionX(L, present, width) ==
    LET row == Max({0} \union {L.at[i].y + L.at[i].sizeY - 1 : i \in present})
        Free(x) == \A c \in L.held : c[1] # row \/ c[2] \notin x .. x + width - 1
        free == {x \in 1 .. L.width[row] - width + 1 : Free(x)}
    IN  IF row \notin DOMAIN L.width THEN 1
        ELSE IF free = {} THEN 1 ELSE Min(free)

\* Below everything, with a gap that AddItem closes.
NewY(L, present) ==
    IF present = {} THEN 3
    ELSE Max({L.at[i].y + L.at[i].sizeY : i \in present}) + 2

\* One step of moveItemUp: erase i, draw it size rows higher.
Raise(L, i, size) ==
    AddItemToPositionBox(
        SetPlayerPosition(RemoveItemFromPositionBox(L, i), i, L.at[i].y - size), i)

\* The last step of moveItemDown: draw i, which is off the grid, size rows lower.
Lower(L, i, size) ==
    AddItemToPositionBox(CheckItemPosition(SetPlayerPosition(L, i, L.at[i].y + size), i), i)

-----------------------------------------------------------------------------
(* What a layout is to be. *)

Cells(L, i) == Rows(L.at[i]) \X Columns(L.at[i])

\* No two of the items P cover the same cell.
Apart(L, P) == \A i, j \in P : i # j => Cells(L, i) \intersect Cells(L, j) = {}

\* positionBox holds the items P where their coordinates say, and nothing else.
Agrees(L, P) ==
    L.held = UNION {Rows(L.at[i]) \X Columns(L.at[i]) \X {i} : i \in P}

\* The rectangle r covers at least a cell, and only cells that exist.
Fits(L, r) ==
    /\ 1 <= r.x /\ 1 <= r.sizeX /\ r.x + r.sizeX - 1 <= L.maxX
    /\ 1 <= r.y /\ 1 <= r.sizeY /\ r.y + r.sizeY - 1 <= Len(L.width)

\* The rows are as wide as the canvas, itemMaxY does not promise more of them
\* than there are, and the items P fit.
Wide(L) == \A row \in DOMAIN L.width : L.width[row] = L.maxX
Roomy(L, P) ==
    /\ Wide(L)
    /\ L.maxY <= Len(L.width) + 1
    /\ \A i \in P : Fits(L, L.at[i])

Tidy(L, P) == Apart(L, P) /\ Agrees(L, P) /\ Roomy(L, P)
=============================================================================

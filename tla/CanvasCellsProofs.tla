-------------------------- MODULE CanvasCellsProofs --------------------------
(***************************************************************************)
(* Proofs, for canvases of any size and any number of items, that the      *)
(* steps the recursions of the layout algorithm are made of keep a layout  *)
(* tidy: rectangles apart, positionBox in agreement with them, and every   *)
(* row and column they need present.                                       *)
(***************************************************************************)
EXTENDS CanvasCells, WellFoundedInduction, NaturalsInduction, TLAPS

Rectangle == [x : Int, y : Int, sizeX : Int, sizeY : Int]
Layout == [at : [Item -> Rectangle], width : Seq(Nat), held : SUBSET (Int \X Int \X Item),
           maxX : Nat \ {0}, maxY : Nat]

LEMMA LayoutType ==
    ASSUME NEW L \in Layout, NEW i \in Item
    PROVE  /\ L.at \in [Item -> Rectangle] /\ L.at[i] \in Rectangle
           /\ L.at[i].x \in Int /\ L.at[i].y \in Int
           /\ L.at[i].sizeX \in Int /\ L.at[i].sizeY \in Int
           /\ L.width \in Seq(Nat) /\ L.held \in SUBSET (Int \X Int \X Item)
           /\ L.maxX \in Nat \ {0} /\ L.maxY \in Nat
BY DEF Layout, Rectangle

LEMMA NewAt ==
    ASSUME NEW L \in Layout, NEW v \in [Item -> Rectangle]
    PROVE  /\ [L EXCEPT !.at = v] \in Layout /\ [L EXCEPT !.at = v].at = v
           /\ [L EXCEPT !.at = v].width = L.width
           /\ [L EXCEPT !.at = v].held = L.held
           /\ [L EXCEPT !.at = v].maxX = L.maxX
           /\ [L EXCEPT !.at = v].maxY = L.maxY
BY DEF Layout

LEMMA NewWidth ==
    ASSUME NEW L \in Layout, NEW v \in Seq(Nat)
    PROVE  /\ [L EXCEPT !.width = v] \in Layout /\ [L EXCEPT !.width = v].width = v
           /\ [L EXCEPT !.width = v].at = L.at
           /\ [L EXCEPT !.width = v].held = L.held
           /\ [L EXCEPT !.width = v].maxX = L.maxX
           /\ [L EXCEPT !.width = v].maxY = L.maxY
BY DEF Layout

LEMMA NewHeld ==
    ASSUME NEW L \in Layout, NEW v \in SUBSET (Int \X Int \X Item)
    PROVE  /\ [L EXCEPT !.held = v] \in Layout /\ [L EXCEPT !.held = v].held = v
           /\ [L EXCEPT !.held = v].at = L.at
           /\ [L EXCEPT !.held = v].width = L.width
           /\ [L EXCEPT !.held = v].maxX = L.maxX
           /\ [L EXCEPT !.held = v].maxY = L.maxY
BY DEF Layout

LEMMA NewMaxY ==
    ASSUME NEW L \in Layout, NEW v \in Nat
    PROVE  /\ [L EXCEPT !.maxY = v] \in Layout /\ [L EXCEPT !.maxY = v].maxY = v
           /\ [L EXCEPT !.maxY = v].at = L.at
           /\ [L EXCEPT !.maxY = v].width = L.width
           /\ [L EXCEPT !.maxY = v].held = L.held
           /\ [L EXCEPT !.maxY = v].maxX = L.maxX
BY DEF Layout

-----------------------------------------------------------------------------
(* The greatest and the smallest of some numbers. *)

LEMMA MaxOfTwo ==
    ASSUME NEW a \in Int, NEW b \in Int
    PROVE  Max({a, b}) = IF a >= b THEN a ELSE b
BY DEF Max

LEMMA MinOfTwo ==
    ASSUME NEW a \in Int, NEW b \in Int
    PROVE  Min({a, b}) = IF a <= b THEN a ELSE b
BY DEF Min

\* Numbers up to n have a greatest one: the one that is nearest to n.
LEMMA MaxUpTo ==
    ASSUME NEW n \in Nat, NEW S \in SUBSET (0 .. n), S # {}
    PROVE  Max(S) \in S /\ \A x \in S : x <= Max(S)
<1> DEFINE R == OpToRel(<, Nat)
           T == {n - x : x \in S}
<1>1. T \subseteq Nat /\ T # {}
  <2>1. \A x \in S : n - x \in Nat
    OBVIOUS
  <2>2. PICK x \in S : TRUE
    OBVIOUS
  <2>3. n - x \in T
    OBVIOUS
  <2>4. QED
    BY <2>1, <2>3
<1>2. IsWellFoundedOn(R, Nat)
  BY NatLessThanWellFounded
<1> HIDE DEF T
<1>3. PICK d \in T : \A e \in T : ~(<<e, d>> \in R)
  BY <1>1, <1>2, WFMin DEF R
<1>4. \A e \in T : ~(e < d)
  BY <1>1, <1>3 DEF OpToRel
<1>5. PICK m \in S : d = n - m
  BY DEF T
<1>6. \A x \in S : x <= m
  <2> TAKE x \in S
  <2>1. ~(n - x < n - m)
    BY <1>4, <1>5 DEF T
  <2>2. QED
    BY <2>1
<1>7. \E x \in S : \A y \in S : x >= y
  BY <1>6
<1>8. QED
  BY <1>7 DEF Max

-----------------------------------------------------------------------------
(* Cells. *)

LEMMA InBox ==
    ASSUME NEW r \in Rectangle, NEW i, NEW c
    PROVE  c \in Rows(r) \X Columns(r) \X {i} <=>
               \E a, b : c = <<a, b, i>> /\ a \in Rows(r) /\ b \in Columns(r)
OBVIOUS

LEMMA Within ==
    ASSUME NEW a \in Int, NEW y \in Int, NEW h \in Int, NEW n \in Nat,
           1 <= y, y + h - 1 <= n, y <= a, a <= y + h - 1
    PROVE  a \in 1 .. n
OBVIOUS

LEMMA InRectangle ==
    ASSUME NEW r \in Rectangle, NEW a
    PROVE  /\ a \in Rows(r) <=> a \in Int /\ r.y <= a /\ a <= r.y + r.sizeY - 1
           /\ a \in Columns(r) <=> a \in Int /\ r.x <= a /\ a <= r.x + r.sizeX - 1
BY DEF Rows, Columns, Rectangle

LEMMA Held ==
    ASSUME NEW L \in Layout, NEW P \in SUBSET Item
    PROVE  Agrees(L, P) <=>
               /\ \A c \in L.held : \E i \in P : \E a \in Rows(L.at[i]), b \in Columns(L.at[i]) :
                                        c = <<a, b, i>>
               /\ \A i \in P : \A a \in Rows(L.at[i]), b \in Columns(L.at[i]) :
                      <<a, b, i>> \in L.held
<1> DEFINE Box(i) == Rows(L.at[i]) \X Columns(L.at[i]) \X {i}
<1>1. \A i \in P : \A c : c \in Box(i) <=>
          \E a \in Rows(L.at[i]), b \in Columns(L.at[i]) : c = <<a, b, i>>
  BY LayoutType, InBox
<1> HIDE DEF Box
<1>2. Agrees(L, P) <=> L.held = UNION {Box(i) : i \in P}
  BY DEF Agrees, Box
<1>3. L.held = UNION {Box(i) : i \in P} <=>
          /\ \A c \in L.held : \E i \in P : c \in Box(i)
          /\ \A i \in P : \A c \in Box(i) : c \in L.held
  OBVIOUS
<1>4. QED
  BY <1>1, <1>2, <1>3

LEMMA Disjoint ==
    ASSUME NEW A, NEW B, NEW C, NEW D
    PROVE  (A \X B) \intersect (C \X D) = {} <=>
               \A a, b : ~(a \in A /\ a \in C /\ b \in B /\ b \in D)
<1>1. \A a, b : <<a, b>> \in A \X B /\ <<a, b>> \in C \X D <=>
                  a \in A /\ a \in C /\ b \in B /\ b \in D
  OBVIOUS
<1>2. \A c \in (A \X B) \intersect (C \X D) : \E a, b : c = <<a, b>>
  OBVIOUS
<1>3. QED
  BY <1>1, <1>2

LEMMA CommonCell ==
    ASSUME NEW L, NEW i, NEW j
    PROVE  Cells(L, i) \intersect Cells(L, j) = {} <=>
               \A a, b : ~ /\ a \in Rows(L.at[i]) /\ a \in Rows(L.at[j])
                           /\ b \in Columns(L.at[i]) /\ b \in Columns(L.at[j])
<1>1. PICK A, B, C, D : /\ A = Rows(L.at[i]) /\ B = Columns(L.at[i])
                        /\ C = Rows(L.at[j]) /\ D = Columns(L.at[j])
  BY Zenon
<1>2. Cells(L, i) = A \X B /\ Cells(L, j) = C \X D
  BY <1>1, Zenon DEF Cells
<1>3. (A \X B) \intersect (C \X D) = {} <=>
          \A a, b : ~(a \in A /\ a \in C /\ b \in B /\ b \in D)
  BY Disjoint
<1>4. QED
  BY <1>1, <1>2, <1>3, Zenon

LEMMA NoCommonCell ==
    ASSUME NEW L \in Layout, NEW P \in SUBSET Item
    PROVE  Apart(L, P) <=>
               \A i, j \in P : i # j =>
                   \A a, b : ~ /\ a \in Rows(L.at[i]) /\ a \in Rows(L.at[j])
                               /\ b \in Columns(L.at[i]) /\ b \in Columns(L.at[j])
BY CommonCell DEF Apart

-----------------------------------------------------------------------------
(* What the steps do. *)

LEMMA Removed ==
    ASSUME NEW L \in Layout, NEW i \in Item, Fits(L, L.at[i])
    PROVE  /\ RemoveItemFromPositionBox(L, i) \in Layout
           /\ RemoveItemFromPositionBox(L, i).at = L.at
           /\ RemoveItemFromPositionBox(L, i).width = L.width
           /\ RemoveItemFromPositionBox(L, i).maxX = L.maxX
           /\ RemoveItemFromPositionBox(L, i).maxY = L.maxY
           /\ RemoveItemFromPositionBox(L, i).held =
                  {c \in L.held : ~(c[1] \in Rows(L.at[i]) /\ c[2] \in Columns(L.at[i]))}
<1>1. PICK H : H = {c \in L.held : ~(c[1] \in Rows(L.at[i]) /\ c[2] \in Columns(L.at[i]))}
  OBVIOUS
<1>2. RemoveItemFromPositionBox(L, i) = [L EXCEPT !.held = H]
  <2>1. ~(L.at[i].x <= 0 \/ L.at[i].y <= 0)
    BY LayoutType DEF Fits
  <2>2. QED
    BY <1>1, <2>1, Zenon DEF RemoveItemFromPositionBox
<1>3. H \in SUBSET (Int \X Int \X Item)
  BY <1>1, LayoutType
<1>4. QED
  BY <1>1, <1>2, <1>3, NewHeld

LEMMA Added ==
    ASSUME NEW L \in Layout, NEW i \in Item, Fits(L, L.at[i]),
           Wide(L)
    PROVE  /\ AddItemToPositionBox(L, i) \in Layout
           /\ AddItemToPositionBox(L, i).at = L.at
           /\ AddItemToPositionBox(L, i).width = L.width
           /\ AddItemToPositionBox(L, i).maxX = L.maxX
           /\ AddItemToPositionBox(L, i).maxY = L.maxY
           /\ AddItemToPositionBox(L, i).held =
                  RemoveItemFromPositionBox(L, i).held
                      \union Rows(L.at[i]) \X Columns(L.at[i]) \X {i}
<1> DEFINE M == RemoveItemFromPositionBox(L, i)
           B == Rows(L.at[i]) \X Columns(L.at[i]) \X {i}
           E == {c \in B : Exists(L, c[1], c[2])}
<1>1. AddItemToPositionBox(L, i) = [M EXCEPT !.held = @ \union E]
  BY LayoutType DEF AddItemToPositionBox, Fits
<1>2. E = B
  <2> SUFFICES ASSUME NEW c \in B PROVE Exists(L, c[1], c[2])
    OBVIOUS
  <2>1. PICK r, a, b : /\ r \in Rectangle /\ r = L.at[i] /\ a = c[1] /\ b = c[2]
                       /\ a \in Rows(r) /\ b \in Columns(r)
    BY LayoutType
  <2>2. Len(L.width) \in Nat /\ L.maxX \in Nat
    BY LayoutType
  <2>3. /\ r.x \in Int /\ r.y \in Int /\ r.sizeX \in Int /\ r.sizeY \in Int
        /\ 1 <= r.x /\ r.x + r.sizeX - 1 <= L.maxX
        /\ 1 <= r.y /\ r.y + r.sizeY - 1 <= Len(L.width)
    BY <2>1 DEF Fits, Rectangle
  <2>4. /\ a \in Int /\ r.y <= a /\ a <= r.y + r.sizeY - 1
        /\ b \in Int /\ r.x <= b /\ b <= r.x + r.sizeX - 1
    BY <2>1, InRectangle
  <2>5. c[1] \in 1 .. Len(L.width) /\ c[2] \in 1 .. L.maxX
    <3>1. a \in 1 .. Len(L.width) /\ b \in 1 .. L.maxX
      BY <2>2, <2>3, <2>4, Within
    <3>2. QED
      BY <2>1, <3>1
  <2>6. DOMAIN L.width = 1 .. Len(L.width)
    BY LayoutType
  <2>7. QED
    BY <2>5, <2>6 DEF Exists, Wide
<1>3. B \in SUBSET (Int \X Int \X Item)
  <2>1. Rows(L.at[i]) \subseteq Int /\ Columns(L.at[i]) \subseteq Int
    BY LayoutType, InRectangle
  <2>2. QED
    BY <2>1
<1>4. /\ M \in Layout /\ M.at = L.at /\ M.width = L.width /\ M.maxX = L.maxX
      /\ M.maxY = L.maxY
  BY Removed
<1>5. PICK H : H = M.held \union B
  OBVIOUS
<1>6. AddItemToPositionBox(L, i) = [M EXCEPT !.held = H]
  BY <1>1, <1>2, <1>5, Zenon
<1>7. H \in SUBSET (Int \X Int \X Item)
  <2>1. M.held \in SUBSET (Int \X Int \X Item)
    BY <1>4 DEF Layout
  <2>2. QED
    BY <1>3, <1>5, <2>1
<1> HIDE DEF M, B, E
<1>8. QED
  BY <1>4, <1>5, <1>6, <1>7, NewHeld DEF M, B

LEMMA Alike ==
    ASSUME NEW n \in Int, NEW v \in Nat, NEW N, N = [k \in 1 .. n |-> v]
    PROVE  /\ N \in Seq(Nat) /\ Len(N) = IF n > 0 THEN n ELSE 0
           /\ \A k \in 1 .. Len(N) : N[k] = v
<1>1. CASE n > 0
  <2>1. n \in Nat
    BY <1>1
  <2>2. QED
    BY <1>1, <2>1
<1>2. CASE ~(n > 0)
  <2>1. 1 .. n = {}
    BY <1>2
  <2>2. N = <<>>
    BY <2>1
  <2>3. <<>> \in Seq(Nat) /\ Len(<<>>) = 0 /\ 1 .. 0 = {}
    OBVIOUS
  <2>4. N \in Seq(Nat) /\ Len(N) = 0 /\ 1 .. Len(N) = {}
    BY <2>2, <2>3, Zenon
  <2>5. QED
    BY <1>2, <2>4, Zenon
<1>3. QED
  BY <1>1, <1>2

LEMMA Longer ==
    ASSUME NEW s \in Seq(Nat), NEW t \in Seq(Nat), NEW v,
           \A k \in 1 .. Len(s) : s[k] = v, \A k \in 1 .. Len(t) : t[k] = v
    PROVE  /\ s \o t \in Seq(Nat) /\ Len(s \o t) = Len(s) + Len(t)
           /\ \A k \in 1 .. Len(s \o t) : (s \o t)[k] = v
<1>1. Len(s) \in Nat /\ Len(t) \in Nat
  OBVIOUS
<1>2. QED
  BY <1>1

LEMMA Filled ==
    ASSUME NEW L \in Layout, NEW y \in Nat,
           Wide(L)
    PROVE  /\ FillPositionBox(L, y) \in Layout
           /\ FillPositionBox(L, y).at = L.at
           /\ FillPositionBox(L, y).held = L.held
           /\ FillPositionBox(L, y).maxX = L.maxX
           /\ FillPositionBox(L, y).maxY = y + 2
           /\ Len(FillPositionBox(L, y).width) = IF Len(L.width) > y + 2 THEN Len(L.width)
                                                                       ELSE y + 2
           /\ Wide(FillPositionBox(L, y))
<1>1. L.width \in Seq(Nat) /\ L.maxX \in Nat /\ Len(L.width) \in Nat
  BY DEF Layout
<1>2. PICK n : n = y + 2 - Len(L.width)
  OBVIOUS
<1>3. PICK N : N = [k \in 1 .. n |-> L.maxX]
  OBVIOUS
<1>4. n \in Int
  BY <1>1, <1>2
<1>5. PICK v \in Nat : v = L.maxX
  BY <1>1
<1>6. N = [k \in 1 .. n |-> v]
  BY <1>3, <1>5
<1>7. /\ N \in Seq(Nat) /\ Len(N) = IF n > 0 THEN n ELSE 0
      /\ \A k \in 1 .. Len(N) : N[k] = v
  BY <1>4, <1>6, Alike
<1>8. PICK s \in Seq(Nat) : s = L.width
  BY <1>1
<1>9. \A k \in 1 .. Len(s) : s[k] = v
  BY <1>5, <1>8 DEF Wide
<1>10. PICK W : W = s \o N
  OBVIOUS
<1>11. /\ W \in Seq(Nat) /\ Len(W) = Len(s) + Len(N)
       /\ \A row \in 1 .. Len(W) : W[row] = v
  BY <1>7, <1>9, <1>10, Longer
<1>12. PICK K : K = [L EXCEPT !.maxY = y + 2]
  OBVIOUS
<1>13. /\ K \in Layout /\ K.maxY = y + 2 /\ K.at = L.at /\ K.held = L.held
       /\ K.maxX = L.maxX
  <2>1. y + 2 \in Nat
    OBVIOUS
  <2>2. QED
    BY <1>12, <2>1, NewMaxY
<1>14. FillPositionBox(L, y) = [K EXCEPT !.width = W]
  BY <1>2, <1>3, <1>8, <1>10, <1>12, Zenon DEF FillPositionBox
<1>15. Len(W) = IF Len(s) > y + 2 THEN Len(s) ELSE y + 2
  <2>1. Len(s) \in Nat /\ n = y + 2 - Len(s)
    BY <1>2, <1>8
  <2>2. QED
    BY <1>7, <1>11, <2>1
<1>16. /\ FillPositionBox(L, y) \in Layout /\ FillPositionBox(L, y).width = W
       /\ FillPositionBox(L, y).at = L.at /\ FillPositionBox(L, y).held = L.held
       /\ FillPositionBox(L, y).maxX = L.maxX /\ FillPositionBox(L, y).maxY = y + 2
  BY <1>11, <1>13, <1>14, NewWidth
<1>17. Wide(FillPositionBox(L, y))
  BY <1>5, <1>11, <1>16 DEF Wide
<1>18. QED
  BY <1>8, <1>15, <1>16, <1>17

-----------------------------------------------------------------------------
(* Erasing and drawing an item. *)

LEMMA TidyIs ==
    ASSUME NEW L, NEW P, Tidy(L, P)
    PROVE  /\ Apart(L, P) /\ Agrees(L, P) /\ Wide(L) /\ L.maxY <= Len(L.width) + 1
           /\ \A i \in P : Fits(L, L.at[i])
BY DEF Tidy, Roomy

\* removeItemFromPositionBox takes an item off the grid and leaves the others tidy:
\* its cells are erased, and no cell of another.
THEOREM LiftingKeepsTidy ==
    ASSUME NEW L \in Layout, NEW P \in SUBSET Item, NEW i \in P, Tidy(L, P)
    PROVE  /\ RemoveItemFromPositionBox(L, i) \in Layout
           /\ RemoveItemFromPositionBox(L, i).at = L.at
           /\ Tidy(RemoveItemFromPositionBox(L, i), P \ {i})
<1> DEFINE R == RemoveItemFromPositionBox(L, i)
           Q == P \ {i}
<1>1. i \in Item /\ Q \in SUBSET Item /\ Fits(L, L.at[i])
  BY TidyIs
<1>2. /\ R \in Layout /\ R.at = L.at /\ R.width = L.width /\ R.maxX = L.maxX
      /\ R.maxY = L.maxY
      /\ R.held = {c \in L.held : ~(c[1] \in Rows(L.at[i]) /\ c[2] \in Columns(L.at[i]))}
  BY <1>1, Removed
<1> HIDE DEF R
<1>3. Apart(R, Q)
  BY <1>2, TidyIs DEF Apart, Cells
<1>4. Roomy(R, Q)
  BY <1>2, TidyIs DEF Roomy, Wide, Fits
<1>5. /\ \A c \in L.held : \E j \in P : \E a \in Rows(L.at[j]), b \in Columns(L.at[j]) :
                               c = <<a, b, j>>
      /\ \A j \in P : \A a \in Rows(L.at[j]), b \in Columns(L.at[j]) : <<a, b, j>> \in L.held
  BY TidyIs, Held
<1>6. ASSUME NEW c \in R.held
      PROVE  \E j \in Q : \E a \in Rows(R.at[j]), b \in Columns(R.at[j]) : c = <<a, b, j>>
  <2>1. /\ c \in L.held
        /\ ~(c[1] \in Rows(L.at[i]) /\ c[2] \in Columns(L.at[i]))
    BY <1>2, <1>6
  <2>2. PICK j \in P : \E a \in Rows(L.at[j]), b \in Columns(L.at[j]) : c = <<a, b, j>>
    BY <1>5, <2>1
  <2>3. PICK a \in Rows(L.at[j]), b \in Columns(L.at[j]) : c = <<a, b, j>>
    BY <2>2
  <2>4. c[1] = a /\ c[2] = b
    BY <2>3
  <2>5. j # i
    BY <2>1, <2>4
  <2>6. QED
    BY <1>2, <2>3, <2>5
<1>7. ASSUME NEW j \in Q, NEW a \in Rows(R.at[j]), NEW b \in Columns(R.at[j])
      PROVE  <<a, b, j>> \in R.held
  <2>1. <<a, b, j>> \in L.held
    BY <1>2, <1>5, <1>7
  <2>2. ~(a \in Rows(L.at[i]) /\ b \in Columns(L.at[i]))
    BY <1>2, <1>7, TidyIs, NoCommonCell
  <2>3. <<a, b, j>>[1] = a /\ <<a, b, j>>[2] = b
    OBVIOUS
  <2>4. QED
    BY <1>2, <2>1, <2>2, <2>3
<1>8. Agrees(R, Q)
  BY <1>1, <1>2, <1>6, <1>7, Held
<1>9. QED
  BY <1>2, <1>3, <1>4, <1>8 DEF Tidy, R

\* addItemToPositionBox draws an item on free cells that exist and leaves the grid
\* tidy: nothing else is erased, and no cell of it is skipped.
THEOREM DrawingKeepsTidy ==
    ASSUME NEW L \in Layout, NEW P \in SUBSET Item, NEW i \in Item \ P, Tidy(L, P),
           Fits(L, L.at[i]), \A j \in P : Cells(L, i) \intersect Cells(L, j) = {}
    PROVE  /\ AddItemToPositionBox(L, i) \in Layout
           /\ AddItemToPositionBox(L, i).at = L.at
           /\ Tidy(AddItemToPositionBox(L, i), P \union {i})
<1> DEFINE A == AddItemToPositionBox(L, i)
           Q == P \union {i}
<1>1. i \in Item /\ Q \in SUBSET Item /\ Wide(L)
  BY TidyIs
<1>2. /\ A \in Layout /\ A.at = L.at /\ A.width = L.width /\ A.maxX = L.maxX
      /\ A.maxY = L.maxY
      /\ A.held = {c \in L.held : ~(c[1] \in Rows(L.at[i]) /\ c[2] \in Columns(L.at[i]))}
                      \union Rows(L.at[i]) \X Columns(L.at[i]) \X {i}
  BY <1>1, Added, Removed
<1> HIDE DEF A
<1>3. Apart(L, Q)
  BY TidyIs DEF Apart
<1>4. Apart(A, Q)
  BY <1>2, <1>3 DEF Apart, Cells
<1>5. Roomy(A, Q)
  BY <1>2, TidyIs DEF Roomy, Wide, Fits
<1>6. /\ \A c \in L.held : \E j \in P : \E a \in Rows(L.at[j]), b \in Columns(L.at[j]) :
                               c = <<a, b, j>>
      /\ \A j \in P : \A a \in Rows(L.at[j]), b \in Columns(L.at[j]) : <<a, b, j>> \in L.held
  BY TidyIs, Held
<1>7. \A c : c \in Rows(L.at[i]) \X Columns(L.at[i]) \X {i} <=>
                 \E a, b : c = <<a, b, i>> /\ a \in Rows(L.at[i]) /\ b \in Columns(L.at[i])
  BY LayoutType, InBox
<1>8. ASSUME NEW c \in A.held
      PROVE  \E j \in Q : \E a \in Rows(A.at[j]), b \in Columns(A.at[j]) : c = <<a, b, j>>
  <2>1. CASE c \in L.held
    <3>1. PICK j \in P : \E a \in Rows(L.at[j]), b \in Columns(L.at[j]) : c = <<a, b, j>>
      BY <1>6, <2>1
    <3>2. QED
      BY <1>2, <3>1
  <2>2. CASE c \in Rows(L.at[i]) \X Columns(L.at[i]) \X {i}
    <3>1. PICK a, b : c = <<a, b, i>> /\ a \in Rows(L.at[i]) /\ b \in Columns(L.at[i])
      BY <1>7, <2>2
    <3>2. QED
      BY <1>2, <3>1
  <2>3. QED
    BY <1>2, <1>8, <2>1, <2>2
<1>9. ASSUME NEW j \in Q, NEW a \in Rows(A.at[j]), NEW b \in Columns(A.at[j])
      PROVE  <<a, b, j>> \in A.held
  <2>1. CASE j = i
    <3>1. <<a, b, j>> \in Rows(L.at[i]) \X Columns(L.at[i]) \X {i}
      BY <1>2, <1>9, <2>1
    <3>2. QED
      BY <1>2, <3>1
  <2>2. CASE j # i
    <3>1. <<a, b, j>> \in L.held
      BY <1>2, <1>6, <1>9, <2>2
    <3>2. ~(a \in Rows(L.at[i]) /\ b \in Columns(L.at[i]))
      BY <1>1, <1>2, <1>3, <1>9, <2>2, NoCommonCell
    <3>3. <<a, b, j>>[1] = a /\ <<a, b, j>>[2] = b
      OBVIOUS
    <3>4. QED
      BY <1>2, <3>1, <3>2, <3>3
  <2>3. QED
    BY <2>1, <2>2
<1>10. Agrees(A, Q)
  BY <1>1, <1>2, <1>8, <1>9, Held
<1>11. QED
  BY <1>2, <1>4, <1>5, <1>10 DEF Tidy, A

-----------------------------------------------------------------------------
(* Floating an item up. *)

LEMMA Higher ==
    ASSUME NEW a \in Int, NEW h \in Int, NEW n \in 0 .. a - 1, NEW y, y = a - n
    PROVE  /\ y \in Nat \ {0} /\ y <= a /\ n \in Int /\ a - 1 - n = y - 1
           /\ \A e \in Int : e <= y + h - 1 => e <= a + h - 1
           /\ \A l \in Int : a + h - 1 <= l => y + h - 1 <= l
<1>1. n \in Int /\ 0 <= n /\ n <= a - 1
  OBVIOUS
<1>2. y \in Int /\ y <= a /\ 1 <= y
  BY <1>1
<1>3. QED
  BY <1>1, <1>2

\* The layout with the rectangle r for item i.
Put(L, i, r) == [L EXCEPT !.at = [L.at EXCEPT ![i] = r]]

LEMMA Placed ==
    ASSUME NEW L \in Layout, NEW i \in Item, NEW r \in Rectangle
    PROVE  /\ Put(L, i, r) \in Layout /\ Put(L, i, r).at[i] = r
           /\ \A j \in Item \ {i} : Put(L, i, r).at[j] = L.at[j]
           /\ Put(L, i, r).at = [L.at EXCEPT ![i] = r]
           /\ Put(L, i, r).width = L.width /\ Put(L, i, r).held = L.held
           /\ Put(L, i, r).maxX = L.maxX /\ Put(L, i, r).maxY = L.maxY
<1>1. PICK A : A = [L.at EXCEPT ![i] = r]
  OBVIOUS
<1>2. L.at \in [Item -> Rectangle]
  BY LayoutType
<1>3. /\ A \in [Item -> Rectangle] /\ A[i] = r
      /\ \A j \in Item \ {i} : A[j] = L.at[j]
  BY <1>1, <1>2
<1>4. Put(L, i, r) = [L EXCEPT !.at = A]
  BY <1>1, Zenon DEF Put
<1>5. QED
  BY <1>1, <1>3, <1>4, NewAt

LEMMA Positioned ==
    ASSUME NEW L \in Layout, NEW i \in Item, NEW y \in Nat \ {0}, L.at[i].sizeY >= 1
    PROVE  /\ SetPlayerPosition(L, i, y) \in Layout
           /\ SetPlayerPosition(L, i, y).at = [L.at EXCEPT ![i].y = y]
           /\ SetPlayerPosition(L, i, y).at[i]
                  = Rect(L.at[i].x, y, L.at[i].sizeX, L.at[i].sizeY)
           /\ \A j \in Item \ {i} : SetPlayerPosition(L, i, y).at[j] = L.at[j]
           /\ SetPlayerPosition(L, i, y).width = L.width
           /\ SetPlayerPosition(L, i, y).held = L.held
           /\ SetPlayerPosition(L, i, y).maxX = L.maxX
           /\ SetPlayerPosition(L, i, y).maxY =
                  IF y + L.at[i].sizeY > L.maxY THEN y + L.at[i].sizeY ELSE L.maxY
<1>1. PICK r \in Rectangle : r = L.at[i]
  BY LayoutType
<1>2. PICK s \in Rectangle : s = [r EXCEPT !.y = y]
  <2>1. [r EXCEPT !.y = y] \in Rectangle
    BY DEF Rectangle
  <2>2. QED
    BY <2>1
<1>3. s = Rect(r.x, y, r.sizeX, r.sizeY)
  BY <1>2 DEF Rectangle, Rect
<1>4. PICK m : m = IF y + L.at[i].sizeY > L.maxY THEN y + L.at[i].sizeY ELSE L.maxY
  OBVIOUS
<1>5. m \in Nat
  BY <1>1, <1>4, LayoutType
<1>6. PICK K : K = Put(L, i, s)
  OBVIOUS
<1>7. /\ K \in Layout /\ K.at[i] = s /\ \A j \in Item \ {i} : K.at[j] = L.at[j]
      /\ K.at = [L.at EXCEPT ![i] = s]
      /\ K.width = L.width /\ K.held = L.held /\ K.maxX = L.maxX /\ K.maxY = L.maxY
  BY <1>6, Placed
<1>8. SetPlayerPosition(L, i, y) = [K EXCEPT !.maxY = m]
  <2>1. y # 0
    OBVIOUS
  <2>2. SetPlayerPosition(L, i, y) =
            [L EXCEPT !.at[i].y = y, !.maxY = IF y + L.at[i].sizeY > @
                                              THEN y + L.at[i].sizeY ELSE @]
    BY <2>1, Zenon DEF SetPlayerPosition
  <2>3. QED
    BY <1>1, <1>2, <1>4, <1>6, <2>2, Zenon DEF Put
<1>9. [L.at EXCEPT ![i] = s] = [L.at EXCEPT ![i].y = y]
  BY <1>1, <1>2, Zenon
<1>10. PICK N : N = [K EXCEPT !.maxY = m]
  OBVIOUS
<1>11. /\ N \in Layout /\ N.maxY = m /\ N.at = K.at /\ N.width = K.width
       /\ N.held = K.held /\ N.maxX = K.maxX
  BY <1>5, <1>7, <1>10, NewMaxY
<1>12. SetPlayerPosition(L, i, y) = N
  BY <1>8, <1>10, Zenon
<1>13. N.at = [L.at EXCEPT ![i].y = y]
  BY <1>7, <1>9, <1>11, Zenon
<1>14. N.at[i] = Rect(L.at[i].x, y, L.at[i].sizeX, L.at[i].sizeY)
  BY <1>1, <1>3, <1>7, <1>11, Zenon
<1>15. QED
  BY <1>4, <1>7, <1>11, <1>12, <1>13, <1>14, Zenon

\* An item off the grid may be given any place in rows that exist.
LEMMA MovedOffGrid ==
    ASSUME NEW L \in Layout, NEW P \in SUBSET Item, NEW i \in Item \ P, Tidy(L, P),
           NEW y \in Nat \ {0}, L.at[i].sizeY >= 1, y + L.at[i].sizeY - 1 <= Len(L.width)
    PROVE  Tidy(SetPlayerPosition(L, i, y), P)
<1> DEFINE S == SetPlayerPosition(L, i, y)
<1>1. /\ S \in Layout /\ \A j \in Item \ {i} : S.at[j] = L.at[j]
      /\ S.width = L.width /\ S.held = L.held /\ S.maxX = L.maxX
      /\ S.maxY = IF y + L.at[i].sizeY > L.maxY THEN y + L.at[i].sizeY ELSE L.maxY
  BY Positioned
<1> HIDE DEF S
<1>2. \A j \in P : S.at[j] = L.at[j]
  BY <1>1
<1>3. Apart(S, P)
  BY <1>2, TidyIs DEF Apart, Cells
<1>4. Agrees(S, P)
  <2>1. UNION {Rows(S.at[j]) \X Columns(S.at[j]) \X {j} : j \in P}
            = UNION {Rows(L.at[j]) \X Columns(L.at[j]) \X {j} : j \in P}
    BY <1>2
  <2>2. L.held = UNION {Rows(L.at[j]) \X Columns(L.at[j]) \X {j} : j \in P}
    BY TidyIs DEF Agrees
  <2>3. QED
    BY <1>1, <2>1, <2>2, Zenon DEF Agrees
<1>5. Roomy(S, P)
  <2>1. Wide(S)
    BY <1>1, TidyIs DEF Wide
  <2>2. \A j \in P : Fits(S, S.at[j])
    BY <1>1, <1>2, TidyIs DEF Fits
  <2>3. S.maxY <= Len(S.width) + 1
    <3>1. Len(L.width) \in Nat /\ L.at[i].sizeY \in Int /\ L.maxY \in Nat
      BY LayoutType
    <3>2. L.maxY <= Len(L.width) + 1
      BY TidyIs
    <3>3. QED
      BY <1>1, <3>1, <3>2
  <2>4. QED
    BY <2>1, <2>2, <2>3 DEF Roomy
<1>6. QED
  BY <1>3, <1>4, <1>5 DEF Tidy, S

\* How far an item can float: over no cell of another, and up to the top or to
\* the cell of an item.
LEMMA GoesUp ==
    ASSUME NEW L \in Layout, NEW P \in SUBSET Item, NEW i \in P, Tidy(L, P)
    PROVE  /\ CanItemGoUp(L, i) \in 0 .. L.at[i].y - 1
           /\ \A j \in P : \A a \in Rows(L.at[j]), b \in Columns(L.at[j]) :
                  a < L.at[i].y /\ b \in Columns(L.at[i])
                      => a <= L.at[i].y - 1 - CanItemGoUp(L, i)
           /\ \/ CanItemGoUp(L, i) = L.at[i].y - 1
              \/ \E j \in P : \E a \in Rows(L.at[j]), b \in Columns(L.at[j]) :
                     a = L.at[i].y - 1 - CanItemGoUp(L, i) /\ b \in Columns(L.at[i])
<1>1. PICK y \in Int : y = L.at[i].y /\ 1 <= y
  BY LayoutType, TidyIs DEF Fits
<1>2. PICK S : S = {c[1] : c \in {d \in L.held : d[1] < y /\ d[2] \in Columns(L.at[i])}}
  OBVIOUS
<1>3. CanItemGoUp(L, i) = y - 1 - Max({0} \union S)
  BY <1>1, <1>2, Zenon DEF CanItemGoUp
<1>4. /\ \A c \in L.held : \E j \in P : \E a \in Rows(L.at[j]), b \in Columns(L.at[j]) :
                               c = <<a, b, j>>
      /\ \A j \in P : \A a \in Rows(L.at[j]), b \in Columns(L.at[j]) : <<a, b, j>> \in L.held
  BY TidyIs, Held
<1>5. ASSUME NEW a \in S
      PROVE  /\ a \in 0 .. y - 1
             /\ \E j \in P : \E e \in Rows(L.at[j]), b \in Columns(L.at[j]) :
                    e = a /\ b \in Columns(L.at[i])
  <2>1. PICK c \in L.held : a = c[1] /\ c[1] < y /\ c[2] \in Columns(L.at[i])
    BY <1>2, <1>5
  <2>2. PICK j \in P : \E e \in Rows(L.at[j]), b \in Columns(L.at[j]) : c = <<e, b, j>>
    BY <1>4, <2>1
  <2>3. PICK e \in Rows(L.at[j]), b \in Columns(L.at[j]) : c = <<e, b, j>>
    BY <2>2
  <2>4. e = a /\ b \in Columns(L.at[i]) /\ a < y
    BY <2>1, <2>3
  <2>5. e \in Int /\ L.at[j].y <= e /\ 1 <= L.at[j].y /\ L.at[j].y \in Int
    BY <2>3, InRectangle, LayoutType, TidyIs DEF Fits
  <2>6. QED
    BY <2>3, <2>4, <2>5
<1>6. PICK m : m = Max({0} \union S)
  OBVIOUS
<1>7. m \in {0} \union S /\ \A x \in {0} \union S : x <= m
  <2>1. y - 1 \in Nat /\ {0} \union S \in SUBSET (0 .. y - 1) /\ {0} \union S # {}
    BY <1>1, <1>5
  <2>2. QED
    BY <1>6, <2>1, MaxUpTo
<1>8. m \in 0 .. y - 1
  BY <1>1, <1>5, <1>7
<1>9. CanItemGoUp(L, i) = y - 1 - m /\ y - 1 - (y - 1 - m) = m
  BY <1>3, <1>6, <1>8
<1>10. ASSUME NEW j \in P, NEW a \in Rows(L.at[j]), NEW b \in Columns(L.at[j]),
              a < y, b \in Columns(L.at[i])
       PROVE  a <= m
  <2>1. <<a, b, j>> \in L.held
    BY <1>4
  <2>2. <<a, b, j>>[1] = a /\ <<a, b, j>>[2] = b
    OBVIOUS
  <2>3. a \in S
    BY <1>2, <1>10, <2>1, <2>2
  <2>4. QED
    BY <1>7, <2>3
<1>11. \/ y - 1 - m = y - 1
       \/ \E j \in P : \E a \in Rows(L.at[j]), b \in Columns(L.at[j]) :
              a = m /\ b \in Columns(L.at[i])
  <2>1. CASE m = 0
    BY <1>1, <2>1
  <2>2. CASE m \in S
    BY <1>5, <2>2
  <2>3. QED
    BY <1>7, <2>1, <2>2
<1>12. y - 1 - m \in 0 .. y - 1
  BY <1>1, <1>8
<1>13. QED
  BY <1>1, <1>9, <1>10, <1>11, <1>12

\* moveItemUp takes an item as far up as it can go, over no other item, and
\* leaves it where it can float no further.
THEOREM FloatingUp ==
    ASSUME NEW L \in Layout, NEW P \in SUBSET Item, NEW i \in P, Tidy(L, P)
    PROVE  /\ CanItemGoUp(L, i) \in 0 .. L.at[i].y - 1
           /\ Raise(L, i, CanItemGoUp(L, i)) \in Layout
           /\ Raise(L, i, CanItemGoUp(L, i)).at
                  = [L.at EXCEPT ![i].y = L.at[i].y - CanItemGoUp(L, i)]
           /\ Tidy(Raise(L, i, CanItemGoUp(L, i)), P)
           /\ CanItemGoUp(Raise(L, i, CanItemGoUp(L, i)), i) = 0
<1> DEFINE R == RemoveItemFromPositionBox(L, i)
           Q == P \ {i}
<1>1. i \in Item /\ Q \in SUBSET Item /\ i \in Item \ Q /\ Q \union {i} = P
  OBVIOUS
<1>2. PICK r, n, y : /\ r \in Rectangle /\ r = L.at[i]
                     /\ n = CanItemGoUp(L, i) /\ y = r.y - n
  BY LayoutType
<1>3. /\ n \in 0 .. r.y - 1
      /\ \A j \in P : \A a \in Rows(L.at[j]), b \in Columns(L.at[j]) :
             a < r.y /\ b \in Columns(r) => a <= r.y - 1 - n
      /\ \/ n = r.y - 1
         \/ \E j \in P : \E a \in Rows(L.at[j]), b \in Columns(L.at[j]) :
                a = r.y - 1 - n /\ b \in Columns(r)
  BY <1>2, GoesUp
<1>4. /\ r.x \in Int /\ r.y \in Int /\ r.sizeX \in Int /\ r.sizeY \in Int
      /\ 1 <= r.x /\ 1 <= r.sizeX /\ r.x + r.sizeX - 1 <= L.maxX
      /\ 1 <= r.y /\ 1 <= r.sizeY /\ r.y + r.sizeY - 1 <= Len(L.width)
      /\ Len(L.width) \in Nat /\ L.maxX \in Nat
  BY <1>1, <1>2, TidyIs, LayoutType DEF Rectangle, Fits
<1>5. /\ y \in Nat \ {0} /\ y <= r.y /\ y + r.sizeY - 1 <= Len(L.width)
      /\ n \in Int /\ r.y - 1 - n = y - 1
      /\ \A e \in Int : e <= y + r.sizeY - 1 => e <= r.y + r.sizeY - 1
  <2>1. n \in 0 .. r.y - 1 /\ r.y \in Int /\ y = r.y - n /\ r.sizeY \in Int
    BY <1>2, <1>3, <1>4
  <2>2. PICK a \in Int, h \in Int, l \in Int : a = r.y /\ h = r.sizeY /\ l = Len(L.width)
    BY <1>4
  <2>3. n \in 0 .. a - 1 /\ y = a - n /\ a + h - 1 <= l
    BY <1>4, <2>1, <2>2
  <2>4. /\ y \in Nat \ {0} /\ y <= a /\ n \in Int /\ a - 1 - n = y - 1
        /\ \A e \in Int : e <= y + h - 1 => e <= a + h - 1
        /\ \A k \in Int : a + h - 1 <= k => y + h - 1 <= k
    BY <2>3, Higher
  <2>5. y + h - 1 <= l
    BY <2>3, <2>4
  <2>6. QED
    BY <2>2, <2>4, <2>5, Zenon
<1>6. R \in Layout /\ R.at = L.at /\ Tidy(R, Q)
  BY LiftingKeepsTidy
<1>7. R.width = L.width /\ R.maxX = L.maxX
  BY <1>1, Removed, TidyIs
<1> HIDE DEF R
<1> DEFINE S == SetPlayerPosition(R, i, y)
           s == Rect(r.x, y, r.sizeX, r.sizeY)
<1>8. s \in Rectangle
  BY <1>4, <1>5 DEF Rect, Rectangle
<1>9. /\ S \in Layout /\ S.at = [R.at EXCEPT ![i].y = y] /\ S.at[i] = s
      /\ \A j \in Item \ {i} : S.at[j] = R.at[j]
      /\ S.width = R.width /\ S.maxX = R.maxX
  <2>1. R.at[i] = r /\ r.sizeY >= 1 /\ y \in Nat \ {0}
    BY <1>2, <1>4, <1>5, <1>6
  <2>2. i \in Item /\ R \in Layout
    BY <1>1, <1>6
  <2>3. QED
    BY <2>1, <2>2, Positioned
<1>10. Tidy(S, Q)
  BY <1>1, <1>2, <1>4, <1>5, <1>6, <1>7, MovedOffGrid
<1> HIDE DEF S
<1>11. /\ s.x = r.x /\ s.y = y /\ s.sizeX = r.sizeX /\ s.sizeY = r.sizeY
       /\ Columns(s) = Columns(r)
  BY DEF Rect, Columns
<1> HIDE DEF s
<1>12. Fits(S, S.at[i])
  <2>1. y >= 1
    BY <1>5
  <2>2. QED
    BY <1>4, <1>5, <1>7, <1>9, <1>11, <2>1 DEF Fits
<1>13. ASSUME NEW j \in Q PROVE Cells(S, i) \intersect Cells(S, j) = {}
  <2>1. S.at[j] = L.at[j] /\ L.at[j] \in Rectangle
    BY <1>1, <1>6, <1>9, LayoutType
  <2>2. SUFFICES ASSUME NEW a, NEW b, a \in Rows(s), a \in Rows(L.at[j]), b \in Columns(s),
                        b \in Columns(L.at[j])
                 PROVE  FALSE
    BY <1>9, <2>1, CommonCell
  <2>3. a \in Int /\ y <= a /\ a <= y + r.sizeY - 1
    BY <1>8, <1>11, <2>2, InRectangle
  <2>4. b \in Columns(r)
    BY <1>11, <2>2
  <2>5. a >= r.y
    <3>1. a < r.y => a <= y - 1
      BY <1>3, <1>5, <2>2, <2>4
    <3>2. QED
      BY <1>4, <1>5, <2>3, <3>1
  <2>6. a \in Rows(r)
    <3>1. a <= r.y + r.sizeY - 1
      BY <1>5, <2>3
    <3>2. QED
      BY <1>2, <2>3, <2>5, <3>1, InRectangle
  <2>7. QED
    BY <1>2, <2>2, <2>4, <2>6, TidyIs, NoCommonCell
<1> DEFINE A == AddItemToPositionBox(S, i)
<1>14. A \in Layout /\ A.at = S.at /\ Tidy(A, P)
  <2>1. /\ S \in Layout /\ Q \in SUBSET Item /\ i \in Item \ Q /\ Tidy(S, Q)
        /\ Fits(S, S.at[i]) /\ \A j \in Q : Cells(S, i) \intersect Cells(S, j) = {}
    BY <1>1, <1>9, <1>10, <1>12, <1>13
  <2>2. A \in Layout /\ A.at = S.at /\ Tidy(A, Q \union {i})
    BY <2>1, DrawingKeepsTidy
  <2>3. QED
    BY <1>1, <2>2, Zenon
<1>15. Raise(L, i, n) = A
  BY <1>2, Zenon DEF Raise, A, S, R
<1>16. A.at = [L.at EXCEPT ![i].y = L.at[i].y - n]
  BY <1>2, <1>6, <1>9, <1>14, Zenon
<1> HIDE DEF A
<1>17. CanItemGoUp(A, i) = 0
  <2>1. PICK k : k = CanItemGoUp(A, i)
    OBVIOUS
  <2>2. A.at[i] = s
    BY <1>9, <1>14
  <2>3. /\ k \in 0 .. y - 1
        /\ \A j \in P : \A a \in Rows(A.at[j]), b \in Columns(A.at[j]) :
               a < y /\ b \in Columns(r) => a <= y - 1 - k
    BY <1>11, <1>14, <2>1, <2>2, GoesUp
  <2>4. CASE n = r.y - 1
    <3>1. y = 1
      BY <1>2, <1>4, <2>4
    <3>2. QED
      BY <2>1, <2>3, <3>1
  <2>5. CASE \E j \in P : \E a \in Rows(L.at[j]), b \in Columns(L.at[j]) :
                 a = r.y - 1 - n /\ b \in Columns(r)
    <3>1. PICK j \in P : \E a \in Rows(L.at[j]), b \in Columns(L.at[j]) :
                 a = r.y - 1 - n /\ b \in Columns(r)
      BY <2>5
    <3>2. PICK a \in Rows(L.at[j]), b \in Columns(L.at[j]) : a = y - 1 /\ b \in Columns(r)
      BY <1>5, <3>1
    <3>3. j # i
      <4>1. r.y <= y - 1 => FALSE
        BY <1>4, <1>5
      <4>2. QED
        BY <1>2, <3>2, <4>1, InRectangle
    <3>4. A.at[j] = L.at[j]
      BY <1>6, <1>9, <1>14, <3>3
    <3>5. y - 1 <= y - 1 - k
      <4>1. y - 1 < y
        BY <1>5
      <4>2. QED
        BY <2>3, <3>2, <3>4, <4>1
    <3>6. QED
      BY <1>5, <2>1, <2>3, <3>5
  <2>6. QED
    BY <1>3, <2>4, <2>5
<1>18. QED
  BY <1>2, <1>3, <1>14, <1>15, <1>16, <1>17

-----------------------------------------------------------------------------
(* Clamping, and pushing an item down. *)

\* The width and the left column checkItemPosition grants.
ClampedWidth(w, m) == Min({Max({w, 1}), m})
ClampedLeft(x, s, m) ==
    IF Max({x, 1}) + s - 1 > m THEN Max({m - s + 1, 1}) ELSE Max({x, 1})

LEMMA ClampedColumns ==
    ASSUME NEW x \in Int, NEW w \in Int, NEW m \in Nat \ {0}
    PROVE  LET s == ClampedWidth(w, m)
               c == ClampedLeft(x, s, m)
           IN  /\ c \in Int /\ s \in Int /\ 1 <= c /\ 1 <= s /\ c + s - 1 <= m
               /\ 1 <= x /\ 1 <= w /\ x + w - 1 <= m => c = x /\ s = w
<1> DEFINE lft == Max({x, 1})
<1>0. PICK s, c : s = ClampedWidth(w, m) /\ c = ClampedLeft(x, s, m)
  OBVIOUS
<1>1. Max({w, 1}) = (IF w >= 1 THEN w ELSE 1) /\ lft = (IF x >= 1 THEN x ELSE 1)
  BY MaxOfTwo
<1>2. s \in 1 .. m /\ lft \in Int /\ lft >= 1 /\ (w \in 1 .. m => s = w)
  <2>1. PICK a \in Int : a = Max({w, 1})
    BY <1>1
  <2>2. Min({a, m}) = IF a <= m THEN a ELSE m
    BY MinOfTwo
  <2>3. s = IF a <= m THEN a ELSE m
    BY <1>0, <2>1, <2>2, Zenon DEF ClampedWidth
  <2>4. QED
    BY <1>1, <2>1, <2>3
<1>3. Max({m - s + 1, 1}) = m - s + 1
  <2>1. PICK e \in Int : e = m - s + 1 /\ e >= 1
    BY <1>2
  <2>2. Max({e, 1}) = IF e >= 1 THEN e ELSE 1
    BY MaxOfTwo
  <2>3. Max({e, 1}) = e
    BY <2>1, <2>2, Zenon
  <2>4. QED
    BY <2>1, <2>3, Zenon
<1>4. c = IF lft + s - 1 > m THEN m - s + 1 ELSE lft
  BY <1>0, <1>3, Zenon DEF ClampedLeft
<1> HIDE DEF lft
<1>5. c \in Int /\ s \in Int /\ 1 <= c /\ 1 <= s /\ c + s - 1 <= m
  BY <1>2, <1>4
<1>6. ASSUME 1 <= x, 1 <= w, x + w - 1 <= m PROVE c = x /\ s = w
  <2>1. w \in 1 .. m /\ lft = x
    BY <1>1, <1>6
  <2>2. QED
    BY <1>2, <1>4, <1>6, <2>1
<1>7. QED
  BY <1>0, <1>5, <1>6

\* itemMaxY promises no more rows than there are, but for those that i needs.
Promised(L, i) ==
    \/ L.maxY <= Len(L.width) + 1
    \/ 1 <= L.at[i].y /\ 1 <= L.at[i].sizeY /\ L.maxY <= L.at[i].y + L.at[i].sizeY

\* checkItemPosition brings any rectangle into the columns of the canvas and
\* makes the rows it needs, also when itemMaxY has run ahead of the rows for this
\* very item; it leaves the other items alone, and a rectangle that is in the
\* columns already.
THEOREM Clamping ==
    ASSUME NEW L \in Layout, NEW i \in Item, Wide(L), Promised(L, i)
    PROVE  /\ CheckItemPosition(L, i) \in Layout
           /\ Fits(CheckItemPosition(L, i), CheckItemPosition(L, i).at[i])
           /\ \A j \in Item \ {i} : CheckItemPosition(L, i).at[j] = L.at[j]
           /\ CheckItemPosition(L, i).held = L.held
           /\ CheckItemPosition(L, i).maxX = L.maxX
           /\ Wide(CheckItemPosition(L, i))
           /\ CheckItemPosition(L, i).maxY <= Len(CheckItemPosition(L, i).width) + 1
           /\ Len(CheckItemPosition(L, i).width) >= Len(L.width)
           /\ /\ 1 <= L.at[i].x /\ 1 <= L.at[i].sizeX
              /\ L.at[i].x + L.at[i].sizeX - 1 <= L.maxX
              /\ 1 <= L.at[i].y /\ 1 <= L.at[i].sizeY
              => CheckItemPosition(L, i).at[i] = L.at[i]
<1>1. PICK r \in Rectangle : r = L.at[i]
  BY LayoutType
<1>2. PICK m \in Nat \ {0}, n \in Nat, k \in Nat : m = L.maxX /\ n = L.maxY /\ k = Len(L.width)
  BY LayoutType
<1>3. r.x \in Int /\ r.y \in Int /\ r.sizeX \in Int /\ r.sizeY \in Int
  BY DEF Rectangle
<1>4. PICK w, h, y : /\ w = ClampedWidth(r.sizeX, m)
                     /\ h = Max({r.sizeY, 1}) /\ y = Max({r.y, 1})
  OBVIOUS
<1>5. PICK x : x = ClampedLeft(r.x, w, m)
  OBVIOUS
<1>6. /\ x \in Int /\ w \in Int /\ 1 <= x /\ 1 <= w /\ x + w - 1 <= m
      /\ 1 <= r.x /\ 1 <= r.sizeX /\ r.x + r.sizeX - 1 <= m => x = r.x /\ w = r.sizeX
  BY <1>2, <1>3, <1>4, <1>5, ClampedColumns
<1>7. h = (IF r.sizeY >= 1 THEN r.sizeY ELSE 1) /\ y = (IF r.y >= 1 THEN r.y ELSE 1)
  BY <1>3, <1>4, MaxOfTwo
<1>8. h \in Nat /\ y \in Nat /\ 1 <= h /\ 1 <= y
  BY <1>3, <1>7
<1>9. PICK s \in Rectangle : s = Rect(x, y, w, h)
  <2>1. Rect(x, y, w, h) \in Rectangle
    BY <1>6, <1>8 DEF Rect, Rectangle
  <2>2. QED
    BY <2>1
<1>10. s.x = x /\ s.y = y /\ s.sizeX = w /\ s.sizeY = h
  BY <1>9 DEF Rect
<1>11. PICK M : M = Put(L, i, s)
  OBVIOUS
<1>12. /\ M \in Layout /\ M.at[i] = s /\ \A j \in Item \ {i} : M.at[j] = L.at[j]
       /\ M.at = [L.at EXCEPT ![i] = s]
       /\ M.width = L.width /\ M.held = L.held /\ M.maxX = L.maxX /\ M.maxY = L.maxY
  BY <1>11, Placed
<1>13. Wide(M)
  BY <1>12 DEF Wide
<1>14. CheckItemPosition(L, i) = IF y + h > n - 1 THEN FillPositionBox(M, y + h - 1) ELSE M
  <2>1. M = [L EXCEPT !.at[i] = Rect(x, y, w, h)]
    BY <1>9, <1>11, Zenon DEF Put
  <2>2. QED
    BY <1>1, <1>2, <1>4, <1>5, <2>1, Zenon
       DEF CheckItemPosition, ClampedWidth, ClampedLeft
<1>15. (/\ 1 <= r.x /\ 1 <= r.sizeX /\ r.x + r.sizeX - 1 <= m
        /\ 1 <= r.y /\ 1 <= r.sizeY) => s = r
  <2>1. SUFFICES ASSUME /\ 1 <= r.x /\ 1 <= r.sizeX /\ r.x + r.sizeX - 1 <= m
                        /\ 1 <= r.y /\ 1 <= r.sizeY
                 PROVE  s = r
    OBVIOUS
  <2>2. x = r.x /\ w = r.sizeX /\ y = r.y /\ h = r.sizeY
    BY <1>3, <1>6, <1>7, <2>1
  <2>3. r = Rect(r.x, r.y, r.sizeX, r.sizeY)
    BY DEF Rectangle, Rect
  <2>4. QED
    BY <1>9, <2>2, <2>3, Zenon
<1>16. CASE y + h > n - 1
  <2>1. PICK N : N = FillPositionBox(M, y + h - 1)
    OBVIOUS
  <2>2. y + h - 1 \in Nat
    BY <1>8
  <2>3. PICK b \in Nat : b = y + h - 1
    BY <2>2
  <2>4. /\ N \in Layout /\ N.at = M.at /\ N.held = M.held /\ N.maxX = M.maxX
        /\ N.maxY = b + 2 /\ Len(N.width) = (IF k > b + 2 THEN k ELSE b + 2) /\ Wide(N)
    BY <1>2, <1>12, <1>13, <2>1, <2>3, Filled
  <2>5. Len(N.width) \in Nat /\ b + 2 <= Len(N.width) /\ k <= Len(N.width)
    BY <2>4
  <2>6. N.at[i] = s /\ \A j \in Item \ {i} : N.at[j] = L.at[j]
    BY <1>12, <2>4
  <2>7. Fits(N, N.at[i])
    <3>1. /\ 1 <= s.x /\ 1 <= s.sizeX /\ s.x + s.sizeX - 1 <= N.maxX
          /\ 1 <= s.y /\ 1 <= s.sizeY
      BY <1>2, <1>6, <1>8, <1>10, <1>12, <2>4
    <3>2. s.y + s.sizeY - 1 <= Len(N.width)
      BY <1>10, <2>3, <2>5
    <3>3. QED
      BY <2>6, <3>1, <3>2 DEF Fits
  <2>8. CheckItemPosition(L, i) = N
    BY <1>14, <1>16, <2>1, Zenon
  <2>9. N.maxY <= Len(N.width) + 1 /\ Len(N.width) >= Len(L.width)
    BY <1>2, <2>4, <2>5
  <2>10. N.held = L.held /\ N.maxX = L.maxX
    BY <1>12, <2>4
  <2>11. QED
    BY <1>1, <1>2, <1>15, <2>4, <2>6, <2>7, <2>8, <2>9, <2>10
<1>17. CASE ~(y + h > n - 1)
  <2>1. CheckItemPosition(L, i) = M
    BY <1>14, <1>17, Zenon
  <2>2. n <= k + 1
    <3>1. ASSUME 1 <= r.y, 1 <= r.sizeY, n <= r.y + r.sizeY PROVE FALSE
      BY <1>3, <1>7, <1>8, <1>17, <3>1
    <3>2. n <= k + 1 \/ (1 <= r.y /\ 1 <= r.sizeY /\ n <= r.y + r.sizeY)
      BY <1>1, <1>2 DEF Promised
    <3>3. QED
      BY <3>1, <3>2
  <2>3. y + h - 1 <= k
    BY <1>8, <1>17, <2>2
  <2>4. Fits(M, M.at[i])
    BY <1>2, <1>6, <1>8, <1>10, <1>12, <2>3 DEF Fits
  <2>5. M.maxY <= Len(M.width) + 1 /\ Len(M.width) >= Len(L.width)
    BY <1>2, <1>12, <2>2
  <2>6. QED
    BY <1>1, <1>2, <1>12, <1>13, <1>15, <2>1, <2>4, <2>5
<1>18. QED
  BY <1>16, <1>17

LEMMA OthersStay ==
    ASSUME NEW L \in Layout, NEW M \in Layout, NEW P \in SUBSET Item, Tidy(L, P),
           \A j \in P : M.at[j] = L.at[j], M.held = L.held, M.maxX = L.maxX,
           Wide(M), M.maxY <= Len(M.width) + 1, Len(M.width) >= Len(L.width)
    PROVE  Tidy(M, P)
<1>1. Apart(M, P)
  BY TidyIs DEF Apart, Cells
<1>2. Agrees(M, P)
  <2>1. UNION {Rows(M.at[j]) \X Columns(M.at[j]) \X {j} : j \in P}
            = UNION {Rows(L.at[j]) \X Columns(L.at[j]) \X {j} : j \in P}
    OBVIOUS
  <2>2. L.held = UNION {Rows(L.at[j]) \X Columns(L.at[j]) \X {j} : j \in P}
    BY TidyIs DEF Agrees
  <2>3. QED
    BY <2>1, <2>2, Zenon DEF Agrees
<1>3. ASSUME NEW j \in P PROVE Fits(M, M.at[j])
  <2>1. PICK r \in Rectangle : r = L.at[j] /\ r = M.at[j]
    BY LayoutType
  <2>2. Fits(L, r)
    BY <2>1, TidyIs
  <2>3. r.y \in Int /\ r.sizeY \in Int /\ Len(L.width) \in Nat /\ Len(M.width) \in Nat
    BY DEF Rectangle, Layout
  <2>4. r.y + r.sizeY - 1 <= Len(L.width)
    BY <2>2 DEF Fits
  <2>5. r.y + r.sizeY - 1 <= Len(M.width)
    BY <2>3, <2>4
  <2>6. QED
    BY <2>1, <2>2, <2>5 DEF Fits
<1>4. QED
  BY <1>1, <1>2, <1>3 DEF Tidy, Roomy

\* The last step of moveItemDown: an item that is off the grid is drawn size rows
\* lower, however many rows must be made for it; over free cells it leaves a tidy
\* grid, with every row it needs.
THEOREM PushingDown ==
    ASSUME NEW L \in Layout, NEW P \in SUBSET Item, NEW i \in Item \ P, Tidy(L, P),
           1 <= L.at[i].x, 1 <= L.at[i].sizeX, L.at[i].x + L.at[i].sizeX - 1 <= L.maxX,
           1 <= L.at[i].y, 1 <= L.at[i].sizeY, NEW size \in Nat,
           \A j \in P : \A a \in Rows(L.at[j]), b \in Columns(L.at[j]) :
               ~ /\ b \in Columns(L.at[i]) /\ L.at[i].y + size <= a
                 /\ a <= L.at[i].y + size + L.at[i].sizeY - 1
    PROVE  /\ Lower(L, i, size) \in Layout
           /\ Lower(L, i, size).at[i].y = L.at[i].y + size
           /\ Lower(L, i, size).at[i].x = L.at[i].x
           /\ Lower(L, i, size).at[i].sizeX = L.at[i].sizeX
           /\ Lower(L, i, size).at[i].sizeY = L.at[i].sizeY
           /\ \A j \in Item \ {i} : Lower(L, i, size).at[j] = L.at[j]
           /\ Tidy(Lower(L, i, size), P \union {i})
<1>1. PICK r, y : r = L.at[i] /\ y = r.y + size
  OBVIOUS
<1>2. /\ r \in Rectangle /\ r.x \in Int /\ r.y \in Int /\ r.sizeX \in Int /\ r.sizeY \in Int
      /\ 1 <= r.x /\ 1 <= r.sizeX /\ r.x + r.sizeX - 1 <= L.maxX /\ 1 <= r.y /\ 1 <= r.sizeY
      /\ i \in Item
  BY <1>1, LayoutType DEF Rectangle
<1>3. y \in Nat \ {0}
  BY <1>1, <1>2
<1>4. PICK s : s = Rect(r.x, y, r.sizeX, r.sizeY)
  OBVIOUS
<1>5. /\ s \in Rectangle /\ s.x = r.x /\ s.y = y /\ s.sizeX = r.sizeX /\ s.sizeY = r.sizeY
      /\ Columns(s) = Columns(r)
  BY <1>2, <1>3, <1>4 DEF Rect, Rectangle, Columns
<1> DEFINE S == SetPlayerPosition(L, i, y)
<1>6. /\ S \in Layout /\ S.at = [L.at EXCEPT ![i].y = y] /\ S.at[i] = s
      /\ \A j \in Item \ {i} : S.at[j] = L.at[j]
      /\ S.width = L.width /\ S.held = L.held /\ S.maxX = L.maxX
      /\ S.maxY = IF y + r.sizeY > L.maxY THEN y + r.sizeY ELSE L.maxY
  <2>1. L.at[i].sizeY >= 1 /\ i \in Item
    BY <1>1, <1>2
  <2>2. /\ S \in Layout /\ S.at = [L.at EXCEPT ![i].y = y]
        /\ S.at[i] = Rect(L.at[i].x, y, L.at[i].sizeX, L.at[i].sizeY)
        /\ \A j \in Item \ {i} : S.at[j] = L.at[j]
        /\ S.width = L.width /\ S.held = L.held /\ S.maxX = L.maxX
        /\ S.maxY = IF y + L.at[i].sizeY > L.maxY THEN y + L.at[i].sizeY ELSE L.maxY
    BY <1>3, <2>1, Positioned
  <2>3. QED
    BY <1>1, <1>4, <2>2
<1> HIDE DEF S
<1>7. Wide(S) /\ Promised(S, i)
  <2>1. Wide(S)
    BY <1>6, TidyIs DEF Wide
  <2>2. L.maxY <= Len(L.width) + 1
    BY TidyIs
  <2>3. CASE y + r.sizeY > L.maxY
    <3>1. S.maxY <= y + r.sizeY /\ 1 <= y
      BY <1>2, <1>3, <1>6, <2>3
    <3>2. QED
      BY <1>2, <1>5, <1>6, <2>1, <3>1 DEF Promised
  <2>4. CASE ~(y + r.sizeY > L.maxY)
    BY <1>6, <2>1, <2>2, <2>4 DEF Promised
  <2>5. QED
    BY <2>3, <2>4
<1> DEFINE C == CheckItemPosition(S, i)
<1>8. /\ C \in Layout /\ Fits(C, C.at[i]) /\ \A j \in Item \ {i} : C.at[j] = S.at[j]
      /\ C.held = S.held /\ C.maxX = S.maxX /\ Wide(C) /\ C.maxY <= Len(C.width) + 1
      /\ Len(C.width) >= Len(S.width) /\ C.at[i] = s
  <2>1. /\ 1 <= s.x /\ 1 <= s.sizeX /\ s.x + s.sizeX - 1 <= S.maxX
        /\ 1 <= s.y /\ 1 <= s.sizeY
    BY <1>2, <1>3, <1>5, <1>6
  <2>2. S \in Layout /\ i \in Item /\ Wide(S) /\ Promised(S, i)
    BY <1>2, <1>6, <1>7
  <2>3. QED
    BY <1>6, <2>1, <2>2, Clamping
<1> HIDE DEF C
<1>9. Tidy(C, P)
  <2>1. \A j \in P : C.at[j] = L.at[j]
    BY <1>6, <1>8
  <2>2. /\ C.held = L.held /\ C.maxX = L.maxX /\ Len(C.width) >= Len(L.width)
    BY <1>6, <1>8
  <2>3. QED
    BY <1>8, <2>1, <2>2, OthersStay
<1>10. ASSUME NEW j \in P PROVE Cells(C, i) \intersect Cells(C, j) = {}
  <2>1. C.at[j] = L.at[j] /\ C.at[i] = s
    BY <1>6, <1>8
  <2>2. SUFFICES ASSUME NEW a, NEW b, a \in Rows(s), a \in Rows(L.at[j]), b \in Columns(s),
                        b \in Columns(L.at[j])
                 PROVE  FALSE
    BY <2>1, CommonCell
  <2>3. y <= a /\ a <= y + r.sizeY - 1
    BY <1>5, <2>2, InRectangle
  <2>4. QED
    BY <1>1, <1>5, <2>2, <2>3
<1> DEFINE A == AddItemToPositionBox(C, i)
<1>11. A \in Layout /\ A.at = C.at /\ Tidy(A, P \union {i})
  BY <1>8, <1>9, <1>10, DrawingKeepsTidy
<1>12. Lower(L, i, size) = A
  BY <1>1, Zenon DEF Lower, A, C, S
<1>13. A.at[i] = s /\ \A j \in Item \ {i} : A.at[j] = L.at[j]
  BY <1>6, <1>8, <1>11
<1> HIDE DEF A
<1>14. QED
  BY <1>1, <1>5, <1>11, <1>12, <1>13

-----------------------------------------------------------------------------
(* Resizing, and adding an item. *)

\* The left side is pulled by d: the right one stays, or the item is as wide as
\* what lies to the left of it.
LEMMA LeftSide ==
    ASSUME NEW o \in Int, NEW v \in Int, NEW d \in Int, NEW e \in Int,
           1 <= o, 1 <= v, e = o + v - 1,
           NEW a \in Int, a = IF o + d >= 1 THEN o + d ELSE 1,
           NEW b \in Int, b = IF v - d >= 1 THEN v - d ELSE 1
    PROVE  (IF a <= e THEN a ELSE e) + (IF b <= e THEN b ELSE e) - 1 <= e
<1>1. CASE a <= e /\ b <= e
  BY <1>1
<1>2. CASE a > e
  <2>1. b = 1
    BY <1>2
  <2>2. QED
    BY <1>2, <2>1
<1>3. CASE b > e
  <2>1. a = 1
    BY <1>3
  <2>2. QED
    BY <1>3, <2>1
<1>4. QED
  BY <1>1, <1>2, <1>3

\* getNowPosition and resizePlayer: a handle asks for a rectangle with at least a cell, to the right of the left
\* edge, and its new width is granted only as far as the right edge of the canvas:
\* of maxX columns, from cur, the column where the item lies by now.  An item may
\* only have left its old column when it is the left side that is pulled.
THEOREM ResizingStaysInside ==
    ASSUME NEW maxX \in Nat, NEW old \in Rectangle, NEW point,
           NEW dx \in Int, NEW dy \in Int, NEW cur \in Int,
           1 <= old.x, 1 <= old.sizeX, old.x + old.sizeX - 1 <= maxX,
           1 <= old.y, 1 <= old.sizeY,
           1 <= cur, cur <= maxX, "l" \notin point => cur = old.x,
           ~("l" \in point /\ "r" \in point)
    PROVE  /\ 1 <= GetNowPosition(old, point, dx, dy).x
           /\ 1 <= GetNowPosition(old, point, dx, dy).y
           /\ 1 <= GetNowPosition(old, point, dx, dy).sizeY
           /\ 1 <= GrantedWidth(maxX, cur, GetNowPosition(old, point, dx, dy).sizeX)
           /\ GetNowPosition(old, point, dx, dy).x
                  + GrantedWidth(maxX, cur, GetNowPosition(old, point, dx, dy).sizeX) - 1
                  <= maxX
<1>1. PICK N : N = GetNowPosition(old, point, dx, dy)
  OBVIOUS
<1>2. old.x \in Int /\ old.y \in Int /\ old.sizeX \in Int /\ old.sizeY \in Int
  BY DEF Rectangle
<1> DEFINE right == old.x + old.sizeX - 1
           x == IF "l" \in point THEN Min({Max({old.x + dx, 1}), right}) ELSE old.x
           y == IF "t" \in point THEN Max({old.y + dy, 1}) ELSE old.y
           w == CASE "r" \in point -> Max({old.sizeX + dx, 1})
                  [] "l" \in point -> Min({Max({old.sizeX - dx, 1}), right})
                  [] OTHER -> old.sizeX
           h == CASE "b" \in point -> Max({old.sizeY + dy, 1})
                  [] "t" \in point -> Max({old.sizeY - dy, 1})
                  [] OTHER -> old.sizeY
<1>3. N.x = x /\ N.y = y /\ N.sizeX = w /\ N.sizeY = h
  BY <1>1 DEF GetNowPosition, Rect
<1>4. \A a, b \in Int : Max({a, b}) = IF a >= b THEN a ELSE b
  BY MaxOfTwo
<1>5. \A a, b \in Int : Min({a, b}) = IF a <= b THEN a ELSE b
  BY MinOfTwo
<1>7. right \in Int /\ 1 <= right /\ right <= maxX
  BY <1>2
<1>8. y \in Int /\ 1 <= y
  <2>1. Max({old.y + dy, 1}) = IF old.y + dy >= 1 THEN old.y + dy ELSE 1
    BY <1>2, <1>4
  <2>2. QED
    BY <1>2, <2>1
<1>9. h \in Int /\ 1 <= h
  <2>1. Max({old.sizeY + dy, 1}) = IF old.sizeY + dy >= 1 THEN old.sizeY + dy ELSE 1
    BY <1>2, <1>4
  <2>2. Max({old.sizeY - dy, 1}) = IF old.sizeY - dy >= 1 THEN old.sizeY - dy ELSE 1
    BY <1>2, <1>4
  <2>3. QED
    BY <1>2, <2>1, <2>2
<1> HIDE DEF y, h
<1>10. CASE "l" \in point
  <2>1. PICK a \in Int : a = Max({old.x + dx, 1}) /\ a = IF old.x + dx >= 1 THEN old.x + dx ELSE 1
    BY <1>2, <1>4
  <2>2. PICK b \in Int : /\ b = Max({old.sizeX - dx, 1})
                         /\ b = IF old.sizeX - dx >= 1 THEN old.sizeX - dx ELSE 1
    BY <1>2, <1>4
  <2>3. PICK e \in Int : e = right
    BY <1>7
  <2>4. x = Min({a, e}) /\ w = Min({b, e})
    BY <1>10, <2>1, <2>2, <2>3, Zenon
  <2>5. x = (IF a <= e THEN a ELSE e) /\ w = (IF b <= e THEN b ELSE e)
    BY <1>5, <2>4
  <2>6. /\ x \in Int /\ w \in Int /\ 1 <= x /\ 1 <= w /\ x + w - 1 <= e
    <3>1. (IF a <= e THEN a ELSE e) + (IF b <= e THEN b ELSE e) - 1 <= e
      <4>1. PICK o \in Int, v \in Int : o = old.x /\ v = old.sizeX
        BY <1>2
      <4>2. 1 <= o /\ 1 <= v /\ e = o + v - 1
        BY <2>3, <4>1
      <4>3. a = (IF o + dx >= 1 THEN o + dx ELSE 1) /\ b = (IF v - dx >= 1 THEN v - dx ELSE 1)
        BY <2>1, <2>2, <4>1, Zenon
      <4>4. QED
        BY <4>2, <4>3, LeftSide
    <3>2. 1 <= a /\ 1 <= b /\ 1 <= e
      BY <1>2, <1>7, <2>1, <2>2, <2>3
    <3>3. /\ x \in Int /\ w \in Int /\ 1 <= x /\ 1 <= w
      BY <2>5, <3>2
    <3>4. x + w - 1 <= e
      BY <2>5, <3>1, Zenon
    <3>5. QED
      BY <3>3, <3>4
  <2> HIDE DEF x, w
  <2>7. /\ 1 <= GrantedWidth(maxX, cur, w) /\ x + GrantedWidth(maxX, cur, w) - 1 <= maxX
    BY <1>7, <2>3, <2>6 DEF GrantedWidth
  <2>8. QED
    BY <1>1, <1>3, <1>8, <1>9, <2>6, <2>7
<1>11. CASE "l" \notin point
  <2>1. x = old.x /\ cur = old.x
    BY <1>11
  <2>2. w \in Int /\ 1 <= w
    <3>1. Max({old.sizeX + dx, 1}) = IF old.sizeX + dx >= 1 THEN old.sizeX + dx ELSE 1
      BY <1>2, <1>4
    <3>2. QED
      BY <1>2, <1>11, <3>1
  <2> HIDE DEF x, w
  <2>3. /\ 1 <= GrantedWidth(maxX, cur, w) /\ x + GrantedWidth(maxX, cur, w) - 1 <= maxX
    BY <1>2, <2>1, <2>2 DEF GrantedWidth
  <2>4. QED
    BY <1>1, <1>3, <1>8, <1>9, <2>1, <2>3
<1>12. QED
  BY <1>10, <1>11

\* Natural numbers have a least one.
LEMMA MinOfSome ==
    ASSUME NEW S \in SUBSET Nat, S # {}
    PROVE  Min(S) \in S
<1> DEFINE R == OpToRel(<, Nat)
<1>1. IsWellFoundedOn(R, Nat)
  BY NatLessThanWellFounded
<1>2. PICK m \in S : \A x \in S : ~(<<x, m>> \in R)
  BY <1>1, WFMin DEF R
<1>3. \A x \in S : m <= x
  <2> TAKE x \in S
  <2>1. ~(x < m)
    BY <1>2 DEF OpToRel
  <2>2. QED
    BY <2>1
<1>4. \E x \in S : \A y \in S : x <= y
  BY <1>3
<1>5. QED
  BY <1>4 DEF Min

\* addComponent finds room for an item: inside the columns, and with a row free
\* between it and everything that is there.
LEMMA RoomBelow ==
    ASSUME NEW L \in Layout, NEW P \in SUBSET Item, Tidy(L, P),
           NEW w \in Nat \ {0}, w <= L.maxX
    PROVE  /\ FindPositionX(L, P, w) \in Nat \ {0}
           /\ FindPositionX(L, P, w) + w - 1 <= L.maxX
           /\ NewY(L, P) \in Nat \ {0}
           /\ \A j \in P : L.at[j].y + L.at[j].sizeY < NewY(L, P)
<1>1. PICK m \in Nat : m = L.maxX
  BY LayoutType DEF Layout
<1>2. FindPositionX(L, P, w) \in Nat \ {0} /\ FindPositionX(L, P, w) + w - 1 <= m
  <2>1. PICK row : row = Max({0} \union {L.at[j].y + L.at[j].sizeY - 1 : j \in P})
    OBVIOUS
  <2>2. PICK free : free = {x \in 1 .. L.width[row] - w + 1 :
                                \A c \in L.held : c[1] # row \/ c[2] \notin x .. x + w - 1}
    OBVIOUS
  <2>3. FindPositionX(L, P, w) = IF row \notin DOMAIN L.width THEN 1
                                 ELSE IF free = {} THEN 1 ELSE Min(free)
    BY <2>1, <2>2, Zenon DEF FindPositionX
  <2>4. CASE row \notin DOMAIN L.width \/ free = {}
    <3>1. FindPositionX(L, P, w) = 1
      BY <2>3, <2>4
    <3>2. QED
      BY <1>1, <3>1
  <2>5. CASE row \in DOMAIN L.width /\ free # {}
    <3>1. L.width[row] = m
      BY <1>1, <2>5, TidyIs DEF Wide
    <3>2. free \in SUBSET (1 .. m - w + 1)
      BY <2>2, <3>1
    <3>3. free \in SUBSET Nat
      BY <3>2
    <3>4. Min(free) \in free
      BY <2>5, <3>3, MinOfSome
    <3>5. PICK f \in 1 .. m - w + 1 : f = Min(free)
      BY <3>2, <3>4
    <3>6. FindPositionX(L, P, w) = f
      BY <2>3, <2>5, <3>5
    <3>7. QED
      BY <3>6
  <2>6. QED
    BY <2>4, <2>5
<1>3. NewY(L, P) \in Nat \ {0} /\ \A j \in P : L.at[j].y + L.at[j].sizeY < NewY(L, P)
  <2>1. CASE P = {}
    BY <2>1 DEF NewY
  <2>2. CASE P # {}
    <3>1. PICK S : S = {L.at[j].y + L.at[j].sizeY : j \in P}
      OBVIOUS
    <3>2. PICK n \in Nat : n = Len(L.width) + 1
      BY LayoutType DEF Layout
    <3>3. ASSUME NEW j \in P PROVE L.at[j].y + L.at[j].sizeY \in 0 .. n
      <4>1. PICK r \in Rectangle : r = L.at[j]
        BY LayoutType
      <4>2. /\ r.y \in Int /\ r.sizeY \in Int /\ Len(L.width) \in Nat
            /\ 1 <= r.y /\ 1 <= r.sizeY /\ r.y + r.sizeY - 1 <= Len(L.width)
        BY <4>1, TidyIs DEF Rectangle, Layout, Fits
      <4>3. r.y + r.sizeY \in 0 .. n
        BY <3>2, <4>2
      <4>4. QED
        BY <4>1, <4>3
    <3>4. S \in SUBSET (0 .. n) /\ S # {}
      BY <2>2, <3>1, <3>3
    <3>5. Max(S) \in S /\ \A x \in S : x <= Max(S)
      BY <3>4, MaxUpTo
    <3>6. PICK k \in 0 .. n : k = Max(S)
      BY <3>4, <3>5
    <3>7. NewY(L, P) = k + 2
      BY <2>2, <3>1, <3>6, Zenon DEF NewY
    <3>8. ASSUME NEW j \in P PROVE L.at[j].y + L.at[j].sizeY < k + 2
      <4>1. PICK e \in 0 .. n : e = L.at[j].y + L.at[j].sizeY
        BY <3>3
      <4>2. e \in S
        BY <3>1, <4>1
      <4>3. e <= k
        BY <3>5, <3>6, <4>2
      <4>4. QED
        BY <4>1, <4>3
    <3>9. QED
      BY <3>7, <3>8
  <2>3. QED
    BY <2>1, <2>2
<1>4. QED
  BY <1>1, <1>2, <1>3

\* The place addComponent finds for w columns and h rows, and the layout with item
\* i drawn there.
NewPlace(L, P, w, h) == Rect(FindPositionX(L, P, w), NewY(L, P), w, h)
Joined(L, P, i, w, h) ==
    AddItemToPositionBox(
        CheckItemPosition([L EXCEPT !.at[i] = NewPlace(L, P, w, h)], i), i)

\* An item that is added where addComponent puts it keeps that place when it is
\* clamped and drawn, and the grid is tidy with it.
THEOREM AddingBelow ==
    ASSUME NEW L \in Layout, NEW P \in SUBSET Item, NEW i \in Item \ P, Tidy(L, P),
           NEW w \in Nat \ {0}, w <= L.maxX, NEW h \in Nat \ {0}
    PROVE  /\ Joined(L, P, i, w, h) \in Layout
           /\ Joined(L, P, i, w, h).at[i] = NewPlace(L, P, w, h)
           /\ \A j \in Item \ {i} : Joined(L, P, i, w, h).at[j] = L.at[j]
           /\ Tidy(Joined(L, P, i, w, h), P \union {i})
<1>1. PICK x \in Nat \ {0}, y \in Nat \ {0} : x = FindPositionX(L, P, w) /\ y = NewY(L, P)
  BY RoomBelow
<1>2. x + w - 1 <= L.maxX /\ \A j \in P : L.at[j].y + L.at[j].sizeY < y
  BY <1>1, RoomBelow
<1>3. PICK s \in Rectangle : s = NewPlace(L, P, w, h)
  <2>1. Rect(x, y, w, h) \in Rectangle
    BY DEF Rect, Rectangle
  <2>2. QED
    BY <1>1, <2>1 DEF NewPlace
<1>4. s.x = x /\ s.y = y /\ s.sizeX = w /\ s.sizeY = h
  BY <1>1, <1>3 DEF NewPlace, Rect
<1>5. i \in Item
  OBVIOUS
<1>6. PICK K : K = Put(L, i, s)
  OBVIOUS
<1>7. /\ K \in Layout /\ K.at[i] = s
      /\ \A j \in Item \ {i} : K.at[j] = L.at[j]
      /\ K.at = [L.at EXCEPT ![i] = s]
      /\ K.width = L.width /\ K.held = L.held /\ K.maxX = L.maxX /\ K.maxY = L.maxY
  BY <1>5, <1>6, Placed
<1>8. PICK M : M = CheckItemPosition(K, i)
  OBVIOUS
<1>9. Wide(K) /\ Promised(K, i)
  BY <1>7, TidyIs DEF Wide, Promised
<1>10. /\ M \in Layout /\ Fits(M, M.at[i]) /\ \A j \in Item \ {i} : M.at[j] = K.at[j]
       /\ M.held = K.held /\ M.maxX = K.maxX /\ Wide(M) /\ M.maxY <= Len(M.width) + 1
       /\ Len(M.width) >= Len(K.width) /\ M.at[i] = s
  <2>1. /\ 1 <= s.x /\ 1 <= s.sizeX /\ s.x + s.sizeX - 1 <= K.maxX
        /\ 1 <= s.y /\ 1 <= s.sizeY
    BY <1>2, <1>4, <1>7
  <2>2. K \in Layout /\ i \in Item /\ Wide(K) /\ Promised(K, i)
    BY <1>5, <1>7, <1>9
  <2>3. /\ M \in Layout /\ Fits(M, M.at[i]) /\ \A j \in Item \ {i} : M.at[j] = K.at[j]
        /\ M.held = K.held /\ M.maxX = K.maxX /\ Wide(M)
        /\ M.maxY <= Len(M.width) + 1 /\ Len(M.width) >= Len(K.width)
        /\ (/\ 1 <= K.at[i].x /\ 1 <= K.at[i].sizeX
            /\ K.at[i].x + K.at[i].sizeX - 1 <= K.maxX
            /\ 1 <= K.at[i].y /\ 1 <= K.at[i].sizeY) => M.at[i] = K.at[i]
    BY <1>8, <2>2, Clamping, Zenon
  <2>4. K.at[i] = s
    BY <1>7
  <2>5. M.at[i] = s
    BY <2>1, <2>3, <2>4, Zenon
  <2>6. QED
    BY <2>3, <2>5
<1>11. Tidy(M, P)
  <2>1. \A j \in P : M.at[j] = L.at[j]
    BY <1>7, <1>10
  <2>2. M.held = L.held /\ M.maxX = L.maxX /\ Len(M.width) >= Len(L.width)
    BY <1>7, <1>10
  <2>3. QED
    BY <1>10, <2>1, <2>2, OthersStay
<1>12. ASSUME NEW j \in P PROVE Cells(M, i) \intersect Cells(M, j) = {}
  <2>1. PICK t \in Rectangle : t = L.at[j]
    BY LayoutType
  <2>2. M.at[j] = t /\ M.at[i] = s
    BY <1>7, <1>10, <2>1
  <2>3. SUFFICES ASSUME NEW a, NEW b, a \in Rows(s), a \in Rows(t)
                 PROVE  FALSE
    BY <2>2, CommonCell
  <2>4. a \in Int /\ y <= a /\ a <= t.y + t.sizeY - 1
    BY <1>4, <2>3, InRectangle
  <2>5. t.y + t.sizeY < y /\ t.y \in Int /\ t.sizeY \in Int
    BY <1>2, <2>1 DEF Rectangle
  <2>6. QED
    BY <2>4, <2>5
<1>13. Joined(L, P, i, w, h) = AddItemToPositionBox(M, i)
  BY <1>3, <1>6, <1>8, Zenon DEF Joined, Put
<1>14. PICK A : A = AddItemToPositionBox(M, i)
  OBVIOUS
<1>15. A \in Layout /\ A.at = M.at /\ Tidy(A, P \union {i})
  BY <1>10, <1>11, <1>12, <1>14, DrawingKeepsTidy
<1>16. A.at[i] = s /\ \A j \in Item \ {i} : A.at[j] = L.at[j]
  BY <1>7, <1>10, <1>15
<1>17. QED
  BY <1>3, <1>13, <1>14, <1>15, <1>16
=============================================================================

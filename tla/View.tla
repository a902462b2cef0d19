-------------------------------- MODULE View --------------------------------
(***************************************************************************)
(* Drawing the sheet (programs/kalk/view.c): where rows and columns land   *)
(* with some of them locked, scrolling by the least that shows the cursor, *)
(* and the cache of finished lines.                                        *)
(*                                                                         *)
(* What a line looks like is abstracted to whether it is up to date: a     *)
(* cached line is "dirty", or "good" when composing it again would give    *)
(* the same, or else "stale"; a line on the screen is good or not.  A view *)
(* is a record, since one key calls several of these operators in turn.    *)
(***************************************************************************)
EXTENDS Integers, FiniteSets, FiniteSetsExt

CONSTANTS
  NRows,        \* KALK_ROWS
  NCols,        \* KALK_COLS
  ViewRows,     \* VIEW_ROWS
  ScreenCols    \* CON_COLS less the gutter

ASSUME ViewAssumption ==
  /\ NRows \in Nat \ {0} /\ NCols \in Nat \ {0}
  /\ ViewRows \in Nat \ {0} /\ ScreenCols \in Nat \ {0}

Rows == 0 .. NRows - 1
Cols == 0 .. NCols - 1
Lines == 0 .. ViewRows - 1          \* the rows of the screen that show the sheet
NoRow == -1
Off == -1

-----------------------------------------------------------------------------
(* Where things are. *)

\* row_y: the line a row is on, or Off.
RowY(v, r) ==
  IF r < v.titleRows THEN IF r < ViewRows THEN r ELSE Off
  ELSE LET off == v.titleRows + (r - v.topRow) IN
       IF r >= v.topRow /\ off < ViewRows THEN off ELSE Off

\* view_row_at, the other way round.
RowAt(v, y) ==
  IF y < v.titleRows THEN y
  ELSE LET r == v.topRow + (y - v.titleRows) IN IF r \in Rows THEN r ELSE NoRow

\* view_col_x: locked columns first, and not a column with no room at all.
ColX(v, c) ==
  LET step == IF c < v.titleCols THEN c ELSE v.titleCols + (c - v.leftCol) IN
  IF (c < v.titleCols \/ c >= v.leftCol) /\ step * v.width < ScreenCols
  THEN step * v.width ELSE Off

Layout(v) == [left |-> v.leftCol, locked |-> v.titleCols, width |-> v.width]

-----------------------------------------------------------------------------
(* The cache. *)

\* The cells of these rows changed, or how every line is laid out.
Changed(v, R) ==
  [v EXCEPT !.cache = [r \in Rows |-> IF r \in R /\ @[r] = "good" THEN "stale" ELSE @[r]],
            !.screen = [y \in Lines |->
              [row |-> @[y].row, good |-> @[y].good /\ @[y].row \notin R]],
            !.status = [row |-> @.row, col |-> @.col, good |-> @.good /\ @.row \notin R]]

DirtyRow(v, r) == [v EXCEPT !.cache[r] = "dirty"]
DirtyRows(v, R) == [v EXCEPT !.cache = [r \in Rows |-> IF r \in R THEN "dirty" ELSE @[r]]]
DirtyAll(v) == DirtyRows(v, Rows)

SetWidth(v, w) == DirtyAll(Changed([v EXCEPT !.width = w], Rows))
SetFmt(v) == DirtyAll(Changed(v, Rows))

-----------------------------------------------------------------------------
(* Moving. *)

TopForWholeScreen(v, row) ==                                      \* mutant
  Max({IF row < v.topRow THEN row
       ELSE IF row >= v.topRow + ViewRows THEN row - ViewRows + 1 ELSE v.topRow, v.titleRows})
TopFor(v, row) ==
  LET space == ViewRows - v.titleRows
      top == IF row < v.titleRows THEN v.topRow
             ELSE IF row < v.topRow THEN row
             ELSE IF row >= v.topRow + space THEN row - space + 1
             ELSE v.topRow
  IN Max({top, v.titleRows})

\* The left edge is pulled right one column at a time until the column fits.
LeftFor(v, col) ==
  LET fits(l) == (v.titleCols + (col - l) + 1) * v.width <= ScreenCols
      left == IF col < v.titleCols THEN v.leftCol
              ELSE IF col < v.leftCol THEN col
              ELSE Min({l \in v.leftCol .. col : fits(l)} \cup {col})
  IN Max({left, v.titleCols})

ScrolledDirtyNothing(v, left) == Changed([v EXCEPT !.leftCol = left], Rows)   \* mutant
ScrolledTo(v, left) ==
  IF left = v.leftCol THEN v ELSE DirtyAll(Changed([v EXCEPT !.leftCol = left], Rows))

MoveTo(v, row, col) ==
  IF row \notin Rows \/ col \notin Cols THEN v
  ELSE ScrolledTo([v EXCEPT !.curRow = row, !.curCol = col, !.topRow = TopFor(v, row)],
                  LeftFor(v, col))

Scrolled(v, w) == v.topRow # w.topRow \/ v.leftCol # w.leftCol

\* At most half the screen can be locked.
SetTitles(v, rows, cols) ==
  LET locked == Min({cols, NCols})
      w == [v EXCEPT !.titleRows = Min({rows, ViewRows \div 2}),
                     !.titleCols = locked,
                     !.topRow = Max({@, Min({rows, ViewRows \div 2})}),
                     !.leftCol = Max({@, locked})]
  IN IF locked = v.titleCols THEN w ELSE DirtyAll(Changed(w, Rows))

-----------------------------------------------------------------------------
(* Drawing. *)

\* Rows that are on the screen: a dirty one is composed and filed, any other
\* goes from the cache to the screen.  Either way no highlight is left on it.
DrawRows(v, R) ==
  LET shown == {r \in R : RowY(v, r) # Off}
      filed == [r \in Rows |-> IF r \in shown /\ v.cache[r] = "dirty" THEN "good" ELSE v.cache[r]]
      on(y) == {r \in shown : RowY(v, r) = y}
  IN [v EXCEPT !.cache = filed,
               !.screen = [y \in Lines |->
                  IF on(y) = {} THEN @[y]
                  ELSE LET r == CHOOSE r \in on(y) : TRUE IN
                       [row |-> r, good |-> filed[r] = "good"]],
               !.lit = {p \in @ : on(p[1]) = {}}]

\* The line buffer is left holding a row that was composed, or the cursor's.
DrawRow(v, r) ==
  LET d == DrawRows(v, {r}) IN
  IF RowY(v, r) # Off /\ (v.cache[r] = "dirty" \/ r = v.curRow)
  THEN [d EXCEPT !.line = d.screen[RowY(v, r)]] ELSE d

\* view_draw_cursor: the cell's characters out of the line buffer, reversed.
DrawCursor(v) ==
  LET y == RowY(v, v.curRow)
      x == ColX(v, v.curCol)
  IN IF x = Off \/ y = Off THEN v
     ELSE [v EXCEPT !.lit = @ \cup {<<y, x>>},
                    !.screen[y].good = @ /\ v.line = [row |-> v.curRow, good |-> TRUE]]

\* view_draw_status composes in the same line buffer.
Overwritten == [row |-> NoRow, good |-> FALSE]
DrawStatus(v) ==
  [v EXCEPT !.status = [row |-> v.curRow, col |-> v.curCol, good |-> TRUE],
            !.line = Overwritten]

\* The two rows a move touches, the row left first.
DrawTwo(v, r) == DrawStatus(DrawCursor(DrawRow(DrawRow(v, r), v.curRow)))
DrawOne(v, r) == DrawStatus(DrawCursor(DrawRow(v, r)))

\* view_draw: headers, locked rows, scrolling rows, the cursor's row again.
Draw(v) ==
  LET rows == (0 .. v.titleRows - 1) \cup (v.topRow .. v.topRow + (ViewRows - v.titleRows) - 1) IN
  DrawOne(DrawRows([v EXCEPT !.headers = Layout(v)], rows \cap Rows), v.curRow)

\* view_init, and the first view_draw.
Blank ==
  LET v == [curRow |-> 0, curCol |-> 0, topRow |-> 0, leftCol |-> 0,
            titleRows |-> 0, titleCols |-> 0, width |-> 1,
            cache |-> [r \in Rows |-> "dirty"],
            screen |-> [y \in Lines |-> Overwritten],
            line |-> Overwritten, lit |-> {},
            status |-> [row |-> NoRow, col |-> 0, good |-> FALSE],
            headers |-> [left |-> 0, locked |-> 0, width |-> 0]]
  IN Draw(v)

=============================================================================

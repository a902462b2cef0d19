----------------------------- MODULE Kalk_proofs -----------------------------
(***************************************************************************)
(* Proofs about the spreadsheet's screen, for every size of the sheet and  *)
(* of the screen and every set of widths and of rows that move together.   *)
(*                                                                         *)
(* That no cached line is stale is inductive once it is known that the     *)
(* view has a cache.  Each key calls the operators of View one after       *)
(* another on a view that goes from one to the next, so the lemmas are     *)
(* about views, not about states: Changed may leave lines stale in the     *)
(* rows that it names, and every caller dirties those rows.                *)
(*                                                                         *)
(* What is on the screen follows: a whole repaint needs nothing but a      *)
(* fresh cache and a view laid out as it should be (DrawAgrees), a partial *)
(* one that the screen was right in all other rows (AgreesBut), and a key  *)
(* repaints in part only where that is so (OnlyThatRow).                   *)
(***************************************************************************)
EXTENDS Kalk, Numbers

Filed == {"dirty", "good"}

\* A view with a cache in which nothing is stale
Fresh(v) == "cache" \in DOMAIN v /\ v.cache \in [Rows -> Filed]

\* The same with these rows out of account
FreshBut(v, R) ==
  /\ "cache" \in DOMAIN v
  /\ v.cache \in [Rows -> Filed \cup {"stale"}]
  /\ \A r \in Rows \ R : v.cache[r] # "stale"

IInv == Fresh(view)

LEMMA ChangedFresh ==
  ASSUME NEW v, NEW R, Fresh(v)
  PROVE  FreshBut(Changed(v, R), R)
BY DEF Fresh, FreshBut, Changed, Filed

LEMMA DirtyRowsFresh ==
  ASSUME NEW v, NEW R, FreshBut(v, R)
  PROVE  Fresh(DirtyRows(v, R))
BY DEF Fresh, FreshBut, DirtyRows, Filed

LEMMA DirtyAllFresh ==
  ASSUME NEW v, FreshBut(v, Rows)
  PROVE  Fresh(DirtyAll(v))
BY DirtyRowsFresh DEF DirtyAll

LEMMA DirtyRowFresh ==
  ASSUME NEW v, NEW r, FreshBut(v, {r})
  PROVE  Fresh(DirtyRow(v, r))
BY DEF Fresh, FreshBut, DirtyRow, Filed

-----------------------------------------------------------------------------
(* Moving and laying out: whatever changes every line dirties every line. *)

LEMMA RelaidFresh ==
  ASSUME NEW v, Fresh(v)
  PROVE  Fresh(DirtyAll(Changed(v, Rows)))
BY ChangedFresh, DirtyAllFresh

LEMMA SetWidthFresh ==
  ASSUME NEW v, NEW w, Fresh(v)
  PROVE  Fresh(SetWidth(v, w))
<1>1. Fresh([v EXCEPT !.width = w])
  BY DEF Fresh
<1> QED
  BY <1>1, RelaidFresh DEF SetWidth

LEMMA SetFmtFresh ==
  ASSUME NEW v, Fresh(v)
  PROVE  Fresh(SetFmt(v))
BY RelaidFresh DEF SetFmt

LEMMA MoveToFresh ==
  ASSUME NEW v, NEW r, NEW c, Fresh(v)
  PROVE  Fresh(MoveTo(v, r, c))
<1> DEFINE w == [v EXCEPT !.curRow = r, !.curCol = c, !.topRow = TopFor(v, r)]
           left == LeftFor(v, c)
<1>1. Fresh(w)
  BY DEF Fresh
<1>2. Fresh([w EXCEPT !.leftCol = left])
  BY <1>1 DEF Fresh
<1>3. Fresh(ScrolledTo(w, left))
  <2> HIDE DEF w, left
  <2> QED
    BY <1>1, <1>2, RelaidFresh DEF ScrolledTo
<1> QED
  BY <1>3 DEF MoveTo

LEMMA SetTitlesFresh ==
  ASSUME NEW v, NEW r, NEW c, Fresh(v)
  PROVE  Fresh(SetTitles(v, r, c))
<1> DEFINE locked == Min({c, NCols})
           w == [v EXCEPT !.titleRows = Min({r, ViewRows \div 2}),
                          !.titleCols = locked,
                          !.topRow = Max({@, Min({r, ViewRows \div 2})}),
                          !.leftCol = Max({@, locked})]
<1>1. Fresh(w)
  BY DEF Fresh
<1>2. Fresh(DirtyAll(Changed(w, Rows)))
  <2> HIDE DEF w
  <2> QED
    BY <1>1, RelaidFresh
<1>3. SetTitles(v, r, c) = IF locked = v.titleCols THEN w ELSE DirtyAll(Changed(w, Rows))
  BY DEF SetTitles
<1> QED
  BY <1>1, <1>2, <1>3

-----------------------------------------------------------------------------
(* Drawing: a line is filed when it has been composed, and never marked. *)

LEMMA DrawRowsFresh ==
  ASSUME NEW v, NEW R, Fresh(v)
  PROVE  Fresh(DrawRows(v, R))
BY DEF Fresh, DrawRows, Filed

LEMMA DrawRowFresh ==
  ASSUME NEW v, NEW r, Fresh(v)
  PROVE  Fresh(DrawRow(v, r))
<1> DEFINE d == DrawRows(v, {r})
<1>1. Fresh(d)
  BY DrawRowsFresh
<1>2. Fresh([d EXCEPT !.line = d.screen[RowY(v, r)]])
  <2> HIDE DEF d
  <2> QED
    BY <1>1 DEF Fresh
<1> QED
  BY <1>1, <1>2 DEF DrawRow

LEMMA DrawStatusFresh ==
  ASSUME NEW v, Fresh(v)
  PROVE  Fresh(DrawStatus(v))
BY DEF Fresh, DrawStatus

LEMMA DrawCursorFresh ==
  ASSUME NEW v, Fresh(v)
  PROVE  Fresh(DrawCursor(v))
BY DEF Fresh, DrawCursor

LEMMA DrawOneFresh ==
  ASSUME NEW v, NEW r, Fresh(v)
  PROVE  Fresh(DrawOne(v, r))
BY DrawRowFresh, DrawCursorFresh, DrawStatusFresh DEF DrawOne

LEMMA DrawTwoFresh ==
  ASSUME NEW v, NEW r, Fresh(v)
  PROVE  Fresh(DrawTwo(v, r))
<1>1. Fresh(DrawRow(v, r))
  BY DrawRowFresh
<1>2. Fresh(DrawRow(DrawRow(v, r), v.curRow))
  BY <1>1, DrawRowFresh
<1> QED
  BY <1>2, DrawCursorFresh, DrawStatusFresh DEF DrawTwo

LEMMA DrawFresh ==
  ASSUME NEW v, Fresh(v)
  PROVE  Fresh(Draw(v))
<1>1. Fresh([v EXCEPT !.headers = Layout(v)])
  BY DEF Fresh
<1> QED
  BY <1>1, DrawRowsFresh, DrawOneFresh DEF Draw

-----------------------------------------------------------------------------
(* The commands. *)

LEMMA RecalculatedFresh ==
  ASSUME NEW v, NEW R, Fresh(v)
  PROVE  Fresh(Recalculated(v, R))
BY ChangedFresh, DirtyRowsFresh DEF Recalculated

LEMMA RewrittenFresh ==
  ASSUME NEW v, Fresh(v)
  PROVE  Fresh(Rewritten(v))
BY ChangedFresh, DirtyRowFresh DEF Rewritten

LEMMA ReplacedFresh ==
  ASSUME NEW v, Fresh(v)
  PROVE  Fresh(Replaced(v))
BY RelaidFresh DEF Replaced

LEMMA RepaintedFresh ==
  ASSUME NEW v, NEW old, NEW R, NEW r, Fresh(v)
  PROVE  Fresh(Repainted(v, old, R, r))
BY DrawFresh, DrawOneFresh, DrawTwoFresh DEF Repainted

LEMMA InitFresh == Init => IInv
<1> SUFFICES ASSUME Init PROVE Fresh(Blank)
  BY DEF Init, IInv
<1> DEFINE v == [curRow |-> 0, curCol |-> 0, topRow |-> 0, leftCol |-> 0,
                 titleRows |-> 0, titleCols |-> 0, width |-> 1,
                 cache |-> [r \in Rows |-> "dirty"],
                 screen |-> [y \in Lines |-> Overwritten],
                 line |-> Overwritten, lit |-> {},
                 status |-> [row |-> NoRow, col |-> 0, good |-> FALSE],
                 headers |-> [left |-> 0, locked |-> 0, width |-> 0]]
<1>1. Fresh(v)
  BY DEF Fresh, Filed
<1>2. Fresh(Draw(v))
  <2> HIDE DEF v
  <2> QED
    BY <1>1, DrawFresh
<1> QED
  BY <1>2 DEF Blank

LEMMA StepFresh == IInv /\ [Next]_vars => IInv'
<1> SUFFICES ASSUME Fresh(view), [Next]_vars
             PROVE  Fresh(view')
  BY DEF IInv
<1>1. CASE UNCHANGED view
  BY <1>1
<1>2. CASE NavMove
  <2>1. PICK p \in Steps(view.curRow, view.curCol) :
          LET v == MoveTo(view, p[1], p[2]) IN
          view' = IF Scrolled(view, v) THEN Draw(v) ELSE DrawTwo(v, view.curRow)
    BY <1>2 DEF NavMove
  <2> QED
    BY <2>1, MoveToFresh, DrawFresh, DrawTwoFresh
<1>3. CASE NavBlankCell
  BY <1>3, RewrittenFresh, RecalculatedFresh, RepaintedFresh DEF NavBlankCell
<1>4. CASE NavRecalc
  BY <1>4, RecalculatedFresh, DrawFresh DEF NavRecalc
<1>5. CASE Commit
  <2>1. PICK R \in Spreads, p \in {<<view.curRow + 1, view.curCol>>, <<view.curRow, view.curCol + 1>>} :
          view' = Repainted(MoveTo(IF typed = 0 THEN view ELSE Recalculated(Rewritten(view), R),
                                   p[1], p[2]), view, R, view.curRow)
    BY <1>5 DEF Commit, Nav
  <2>2. Fresh(IF typed = 0 THEN view ELSE Recalculated(Rewritten(view), R))
    BY RewrittenFresh, RecalculatedFresh
  <2> QED
    BY <2>1, <2>2, MoveToFresh, RepaintedFresh
<1>6. CASE Jump
  <2>1. PICK p \in (Rows \X Cols) \cup {<<NRows, 0>>} :
          LET v == MoveTo(view, p[1], p[2]) IN
          view' = IF Scrolled(view, v) THEN Draw(v) ELSE DrawTwo(v, view.curRow)
    BY <1>6 DEF Jump, Nav
  <2> QED
    BY <2>1, MoveToFresh, DrawFresh, DrawTwoFresh
<1>7. CASE MenuBlankCell
  BY <1>7, RewrittenFresh, RecalculatedFresh, DrawFresh DEF MenuBlankCell, Finish, Nav
<1>8. CASE MenuClear
  BY <1>8, ReplacedFresh, MoveToFresh, DrawFresh DEF MenuClear, Finish, Nav
<1>9. CASE Format
  BY <1>9, RewrittenFresh, DrawFresh DEF Format, Finish, Nav
<1>10. CASE GlobalFormat
  BY <1>10, SetFmtFresh, DrawFresh DEF GlobalFormat, Finish, Nav
<1>11. CASE EditLines
  BY <1>11, ReplacedFresh, DrawFresh DEF EditLines, Finish, Nav
<1>12. CASE Titles
  BY <1>12, SetTitlesFresh, DrawFresh DEF Titles, Finish, Nav
<1>13. CASE GlobalWidth
  BY <1>13, SetWidthFresh, DrawFresh DEF GlobalWidth, Finish, Nav
<1>14. CASE LoadFile
  BY <1>14, ReplacedFresh, MoveToFresh, DrawFresh DEF LoadFile, Finish, Nav
<1>15. CASE RangeGiven
  <2>1. CASE UNCHANGED view
    BY <2>1
  <2>2. CASE view' = Draw(Replaced(view))
    BY <2>2, ReplacedFresh, DrawFresh
  <2> QED
    BY <1>15, <2>1, <2>2 DEF RangeGiven, Finish, Nav, Ask
<1>16. CASE NavEscape \/ NavType \/ NavMenu \/ Key \/ EscapeEntry
            \/ MenuEscape \/ MenuAsk \/ MenuQuit \/ Drag \/ NameKey \/ NameEmpty \/ SaveFile
  <2>1. view' = view
    BY <1>16 DEF NavEscape, NavType, NavMenu, Key, EscapeEntry, MenuEscape, MenuAsk,
                 MenuQuit, Drag, NameKey, NameEmpty, SaveFile, Ask, Cancel, Nav
  <2> QED
    BY <2>1
<1> QED
  BY <1>1, <1>2, <1>3, <1>4, <1>5, <1>6, <1>7, <1>8, <1>9, <1>10, <1>11, <1>12,
     <1>13, <1>14, <1>15, <1>16 DEF Next, vars

\* Whatever keys are typed, whatever a recalculation moves and however the view
\* is laid out, no line that view.c keeps composed is out of date.
THEOREM CacheAlwaysFresh == Spec => []CacheFresh
<1>1. IInv => CacheFresh
  BY DEF IInv, Fresh, CacheFresh, Filed
<1> QED
  BY <1>1, InitFresh, StepFresh, PTL DEF Spec
-----------------------------------------------------------------------------
(* What a view is, between any two calls. *)

LineType == [row : Int, good : BOOLEAN]
Views ==
  [curRow : Rows, curCol : Cols, topRow : Nat, leftCol : Nat,
   titleRows : Rows, titleCols : Nat, width : Nat \ {0},
   cache : [Rows -> Filed \cup {"stale"}],
   screen : [Lines -> LineType], line : LineType, lit : SUBSET (Lines \X Int),
   status : [row : Int, col : Int, good : BOOLEAN],
   headers : [left : Int, locked : Int, width : Int]]

\* Locked rows leave room for others, and what scrolls is never a locked line.
Laid(v) ==
  /\ v.titleRows < ViewRows
  /\ v.titleRows <= v.topRow
  /\ v.titleCols <= v.leftCol

Sound(v) == v \in Views /\ Laid(v) /\ Fresh(v)

\* Two views that put every cell in the same place
Still(d, v) ==
  /\ d.curRow = v.curRow /\ d.curCol = v.curCol
  /\ d.topRow = v.topRow /\ d.leftCol = v.leftCol
  /\ d.titleRows = v.titleRows /\ d.titleCols = v.titleCols
  /\ d.width = v.width

LEMMA Sizes ==
  /\ NRows \in Nat \ {0} /\ NCols \in Nat \ {0}
  /\ ViewRows \in Nat \ {0} /\ ScreenCols \in Nat \ {0}
  /\ Rows \subseteq Nat /\ Cols \subseteq Nat /\ Lines \subseteq Nat
  /\ 0 \in Rows /\ 0 \in Cols /\ NoRow \notin Rows /\ Off \notin Lines
BY ViewAssumption DEF Rows, Cols, Lines, NoRow, Off

\* RowY and RowAt are each other's inverse on the lines that show a row.
LEMMA RowLine ==
  ASSUME NEW v \in Views, Laid(v), NEW y \in Lines, NEW r \in Rows
  PROVE  RowY(v, r) = y <=> RowAt(v, y) = r
<1>1. v.titleRows \in Nat /\ v.topRow \in Nat /\ y \in Nat /\ r \in Nat /\ y < ViewRows
      /\ ViewRows \in Nat
  BY ViewAssumption DEF Views, Lines, Rows
<1> QED
  BY <1>1 DEF RowY, RowAt, Laid, NoRow, Off

LEMMA RowRange ==
  ASSUME NEW v \in Views, Laid(v)
  PROVE  /\ \A r \in Rows : RowY(v, r) \in Lines \cup {Off}
         /\ \A y \in Lines : RowAt(v, y) \in Rows \cup {NoRow}
<1>1. /\ v.titleRows \in Rows /\ v.topRow \in Nat /\ ViewRows \in Nat
      /\ Rows = 0 .. NRows - 1 /\ Lines = 0 .. ViewRows - 1 /\ NRows \in Nat
  BY Sizes DEF Views, Rows, Lines
<1> QED
  BY <1>1 DEF RowY, RowAt, Laid

LEMMA ColIsNumber ==
  ASSUME NEW v \in Views, NEW c \in Cols
  PROVE  ColX(v, c) \in Int
<1> DEFINE step == IF c < v.titleCols THEN c ELSE v.titleCols + (c - v.leftCol)
           x == step * v.width
<1>1. step \in Int /\ v.width \in Int
  BY Sizes DEF Views
<1>2. x \in Int
  BY <1>1
<1>3. ColX(v, c) \in {x, Off}
  BY DEF ColX
<1> QED
  BY <1>2, <1>3 DEF Off

LEMMA StillLaid ==
  ASSUME NEW v \in Views, NEW d \in Views, Laid(v), Still(d, v)
  PROVE  /\ Laid(d)
         /\ \A r : RowY(d, r) = RowY(v, r)
         /\ \A y : RowAt(d, y) = RowAt(v, y)
         /\ \A c : ColX(d, c) = ColX(v, c)
         /\ Layout(d) = Layout(v)
BY DEF Still, Laid, RowY, RowAt, ColX, Layout

-----------------------------------------------------------------------------
(* What drawing does to a view. *)

\* A line that shows row r as it is now
Clean(r) == [row |-> r, good |-> TRUE]

LEMMA CleanIsLine ==
  ASSUME NEW r \in Int
  PROVE  Clean(r) \in LineType /\ \A b \in BOOLEAN : b => [row |-> r, good |-> b] = Clean(r)
BY DEF Clean, LineType

LEMMA DrawRowsDoes ==
  ASSUME NEW v, Sound(v), NEW R \in SUBSET Rows
  PROVE  /\ Sound(DrawRows(v, R)) /\ Still(DrawRows(v, R), v)
         /\ DrawRows(v, R).headers = v.headers
         /\ \A y \in Lines : DrawRows(v, R).screen[y] =
              IF RowAt(v, y) \in R THEN Clean(RowAt(v, y)) ELSE v.screen[y]
         /\ DrawRows(v, R).lit = {p \in v.lit : RowAt(v, p[1]) \notin R}
<1> DEFINE shown == {r \in R : RowY(v, r) # Off}
           filed == [r \in Rows |-> IF r \in shown /\ v.cache[r] = "dirty" THEN "good" ELSE v.cache[r]]
           on(y) == {r \in shown : RowY(v, r) = y}
           screen == [y \in Lines |->
                        IF on(y) = {} THEN v.screen[y]
                        ELSE LET r == CHOOSE r \in on(y) : TRUE IN
                             [row |-> r, good |-> filed[r] = "good"]]
           lit == {p \in v.lit : on(p[1]) = {}}
           d == [v EXCEPT !.cache = filed, !.screen = screen, !.lit = lit]
<1>1. DrawRows(v, R) = d
  BY DEF DrawRows
<1>2. v \in Views /\ Laid(v) /\ v.cache \in [Rows -> Filed] /\ Fresh(v)
  BY DEF Sound, Fresh
<1>3. filed \in [Rows -> Filed] /\ \A r \in shown : filed[r] = "good"
  BY <1>2 DEF Filed
<1>4. \A y \in Lines : on(y) = IF RowAt(v, y) \in R THEN {RowAt(v, y)} ELSE {}
  <2>1. ASSUME NEW y \in Lines, NEW r
        PROVE  r \in on(y) <=> r \in R /\ RowAt(v, y) = r
    <3>1. r \in on(y) <=> r \in R /\ RowY(v, r) # Off /\ RowY(v, r) = y
      OBVIOUS
    <3>2. y # Off
      BY Sizes
    <3> QED
      BY <1>2, <3>1, <3>2, RowLine
  <2> HIDE DEF on
  <2> QED
    BY <2>1
<1>5. \A y \in Lines : screen[y] =
        IF RowAt(v, y) \in R THEN Clean(RowAt(v, y)) ELSE v.screen[y]
  <2> SUFFICES ASSUME NEW y \in Lines
               PROVE  screen[y] = IF RowAt(v, y) \in R THEN Clean(RowAt(v, y)) ELSE v.screen[y]
    OBVIOUS
  <2>1. CASE RowAt(v, y) \in R
    <3>1. PICK r \in Rows : r = RowAt(v, y) /\ on(y) = {r} /\ r \in shown
      BY <1>4, <2>1
    <3>2. (CHOOSE q \in on(y) : TRUE) = r
      BY <3>1
    <3>3. screen[y] = [row |-> r, good |-> filed[r] = "good"]
      BY <3>1, <3>2
    <3>4. [row |-> r, good |-> filed[r] = "good"] = Clean(r)
      <4>1. PICK b \in BOOLEAN : b = (filed[r] = "good")
        OBVIOUS
      <4>2. filed[r] = "good"
        BY <1>3, <3>1
      <4> HIDE DEF filed
      <4>3. b
        BY <4>1, <4>2
      <4>4. r \in Int
        BY <3>1, Sizes
      <4>5. [row |-> r, good |-> b] = Clean(r)
        BY <4>3, <4>4, CleanIsLine
      <4> QED
        BY <4>1, <4>5
    <3> QED
      BY <2>1, <3>1, <3>3, <3>4
  <2>2. CASE RowAt(v, y) \notin R
    BY <1>4, <2>2
  <2> QED
    BY <2>1, <2>2
<1>6. lit = {p \in v.lit : RowAt(v, p[1]) \notin R}
  BY <1>2, <1>4 DEF Views
<1>7. /\ screen \in [Lines -> LineType]
      /\ lit \in SUBSET (Lines \X Int)
  <2>1. \A y \in Lines : v.screen[y] \in LineType
    BY <1>2 DEF Views
  <2>2. \A r \in R : Clean(r) \in LineType
    BY Sizes, CleanIsLine
  <2>3. \A y \in Lines : screen[y] \in LineType
    BY <1>5, <2>1, <2>2
  <2>4. v.lit \in SUBSET (Lines \X Int)
    BY <1>2 DEF Views
  <2> QED
    BY <2>3, <2>4
<1> HIDE DEF filed, screen, lit
<1>8. d \in Views
  BY <1>2, <1>3, <1>7 DEF Views
<1>9. Still(d, v) /\ d.headers = v.headers /\ d.screen = screen /\ d.lit = lit
      /\ d.cache = filed
  BY <1>2 DEF Views, Still
<1>10. Fresh(d)
  BY <1>1, <1>2, DrawRowsFresh
<1>11. Sound(d)
  BY <1>2, <1>8, <1>9, <1>10, StillLaid DEF Sound
<1> QED
  BY <1>1, <1>5, <1>6, <1>9, <1>11

LEMMA DrawRowDoes ==
  ASSUME NEW v, Sound(v), NEW r \in Rows
  PROVE  /\ Sound(DrawRow(v, r)) /\ Still(DrawRow(v, r), v)
         /\ DrawRow(v, r).headers = v.headers
         /\ \A y \in Lines : DrawRow(v, r).screen[y] =
              IF RowAt(v, y) = r THEN Clean(r) ELSE v.screen[y]
         /\ DrawRow(v, r).lit = {p \in v.lit : RowAt(v, p[1]) # r}
         /\ r = v.curRow /\ RowY(v, r) # Off => DrawRow(v, r).line = Clean(r)
<1> DEFINE d == DrawRows(v, {r})
           e == [d EXCEPT !.line = d.screen[RowY(v, r)]]
<1>1. DrawRow(v, r) = IF RowY(v, r) # Off /\ (v.cache[r] = "dirty" \/ r = v.curRow) THEN e ELSE d
  BY DEF DrawRow
<1>2. /\ Sound(d) /\ Still(d, v) /\ d.headers = v.headers
      /\ \A y \in Lines : d.screen[y] = IF RowAt(v, y) \in {r} THEN Clean(RowAt(v, y)) ELSE v.screen[y]
      /\ d.lit = {p \in v.lit : RowAt(v, p[1]) \notin {r}}
  BY DrawRowsDoes
<1> HIDE DEF d
<1>3. ASSUME RowY(v, r) # Off
      PROVE  d.screen[RowY(v, r)] = Clean(r) /\ Clean(r) \in LineType
  <2>1. RowY(v, r) \in Lines /\ RowAt(v, RowY(v, r)) = r
    BY <1>3, RowRange, RowLine DEF Sound
  <2>2. d.screen[RowY(v, r)] = Clean(r)
    BY <1>2, <2>1
  <2>3. r \in Int
    BY Sizes
  <2> QED
    BY <2>2, <2>3, CleanIsLine
<1>4. ASSUME RowY(v, r) # Off
      PROVE  /\ e \in Views /\ Still(e, d) /\ e.headers = d.headers /\ e.screen = d.screen
             /\ e.lit = d.lit /\ e.cache = d.cache /\ e.line = Clean(r)
  <2>1. d \in Views
    BY <1>2 DEF Sound
  <2>2. e = [d EXCEPT !.line = Clean(r)] /\ Clean(r) \in LineType
    BY <1>3, <1>4
  <2> HIDE DEF e
  <2> QED
    BY <2>1, <2>2 DEF Views, Still
<1>5. ASSUME RowY(v, r) # Off
      PROVE  Sound(e) /\ Still(e, v)
  <2>1. Fresh(e)
    BY <1>2 DEF Sound, Fresh
  <2> HIDE DEF e
  <2> QED
    BY <1>2, <1>4, <1>5, <2>1, StillLaid DEF Sound, Still
<1> HIDE DEF e
<1>6. CASE RowY(v, r) = Off
  BY <1>1, <1>2, <1>6
<1>7. CASE RowY(v, r) # Off
  BY <1>1, <1>2, <1>4, <1>5, <1>7
<1> QED
  BY <1>6, <1>7

\* The cell under the cursor on the screen, or nothing when it is off it
CellOf(v) ==
  IF RowY(v, v.curRow) = Off \/ ColX(v, v.curCol) = Off THEN {}
  ELSE {<<RowY(v, v.curRow), ColX(v, v.curCol)>>}

LEMMA DrawCursorDoes ==
  ASSUME NEW v, Sound(v), RowY(v, v.curRow) # Off => v.line = Clean(v.curRow)
  PROVE  /\ Sound(DrawCursor(v)) /\ Still(DrawCursor(v), v)
         /\ DrawCursor(v).headers = v.headers
         /\ DrawCursor(v).screen = v.screen
         /\ DrawCursor(v).lit = v.lit \cup CellOf(v)
<1> DEFINE y == RowY(v, v.curRow)
           x == ColX(v, v.curCol)
           d == [v EXCEPT !.lit = @ \cup {<<y, x>>}]
<1>1. v \in Views /\ Laid(v) /\ Fresh(v) /\ v.curRow \in Rows /\ v.curCol \in Cols
  BY DEF Sound, Views
<1>2. CASE y = Off \/ x = Off
  <2>1. DrawCursor(v) = v /\ CellOf(v) = {}
    BY <1>2 DEF DrawCursor, CellOf
  <2> QED
    BY <1>1, <2>1 DEF Sound, Still
<1>3. CASE y # Off /\ x # Off
  <2>1. y \in Lines /\ x \in Int /\ CellOf(v) = {<<y, x>>}
    BY <1>1, <1>3, RowRange, ColIsNumber DEF CellOf
  <2>2. PICK row, good : v.screen[y] = [row |-> row, good |-> good] /\ good \in BOOLEAN
    BY <1>1, <2>1 DEF Views, LineType
  <2>3. v.line = [row |-> v.curRow, good |-> TRUE]
    BY <1>3 DEF Clean
  <2>4. DrawCursor(v) = [v EXCEPT !.lit = @ \cup {<<y, x>>},
                            !.screen[y].good = @ /\ v.line = [row |-> v.curRow, good |-> TRUE]]
    BY <1>3 DEF DrawCursor
  <2> HIDE DEF x, y
  <2>5. DrawCursor(v) = d
    <3>1. (v.screen[y].good /\ v.line = [row |-> v.curRow, good |-> TRUE]) = good
      BY <2>2, <2>3
    <3>2. [v.screen[y] EXCEPT !.good = good] = v.screen[y]
      BY <2>2
    <3>3. [v.screen EXCEPT ![y] = v.screen[y]] = v.screen
      BY <1>1, <2>1 DEF Views
    <3> DEFINE s == [v.screen EXCEPT ![y].good = @ /\ v.line = [row |-> v.curRow, good |-> TRUE]]
    <3>4. s = v.screen
      BY <3>1, <3>2, <3>3
    <3>5. DrawCursor(v) = [v EXCEPT !.lit = @ \cup {<<y, x>>}, !.screen = s]
      BY <2>4
    <3> HIDE DEF s
    <3> QED
      BY <1>1, <3>4, <3>5 DEF Views
  <2>6. d \in Views /\ Still(d, v) /\ d.headers = v.headers /\ d.screen = v.screen
        /\ d.lit = v.lit \cup {<<y, x>>}
    BY <1>1, <2>1 DEF Views, Still
  <2>7. Fresh(d)
    BY <1>1 DEF Fresh
  <2> HIDE DEF d
  <2> QED
    BY <1>1, <2>1, <2>5, <2>6, <2>7, StillLaid DEF Sound
<1> QED
  BY <1>2, <1>3

LEMMA DrawStatusDoes ==
  ASSUME NEW v, Sound(v)
  PROVE  /\ Sound(DrawStatus(v)) /\ Still(DrawStatus(v), v)
         /\ DrawStatus(v).headers = v.headers
         /\ DrawStatus(v).screen = v.screen
         /\ DrawStatus(v).lit = v.lit
         /\ DrawStatus(v).status = [row |-> v.curRow, col |-> v.curCol, good |-> TRUE]
<1> DEFINE status == [row |-> v.curRow, col |-> v.curCol, good |-> TRUE]
           d == [v EXCEPT !.status = status, !.line = Overwritten]
<1>1. v \in Views /\ Laid(v) /\ Fresh(v) /\ v.curRow \in Int /\ v.curCol \in Int
  <2>1. v \in Views /\ Laid(v) /\ Fresh(v)
    BY DEF Sound
  <2>2. v.curRow \in Rows /\ v.curCol \in Cols
    BY <2>1 DEF Views
  <2>3. v.curRow \in Int /\ v.curCol \in Int
    BY <2>2 DEF Rows, Cols
  <2> QED
    BY <2>1, <2>3
<1>2. DrawStatus(v) = d
  BY DEF DrawStatus
<1>3. status \in [row : Int, col : Int, good : BOOLEAN] /\ Overwritten \in LineType
  BY <1>1 DEF Overwritten, LineType, NoRow
<1> HIDE DEF status
<1>4. d \in Views /\ Still(d, v) /\ d.headers = v.headers /\ d.screen = v.screen
      /\ d.lit = v.lit /\ d.status = status
  BY <1>1, <1>3 DEF Views, Still
<1>5. Fresh(d)
  BY <1>1, <1>2, DrawStatusFresh
<1> HIDE DEF d
<1> QED
  BY <1>1, <1>2, <1>4, <1>5, StillLaid DEF Sound, status

-----------------------------------------------------------------------------
(* Repainting enough: what is on the screen after a key. *)

\* The screen shows the sheet as it is.
Agrees(v) ==
  /\ \A y \in Lines : RowAt(v, y) # NoRow => v.screen[y] = Clean(RowAt(v, y))
  /\ {p \in v.lit : RowAt(v, p[1]) # NoRow} = CellOf(v)
  /\ v.status = [row |-> v.curRow, col |-> v.curCol, good |-> TRUE]
  /\ v.headers = Layout(v)

\* It does but for row r, the status line, and the cursor, which is on no other row.
AgreesBut(v, r) ==
  /\ \A y \in Lines : RowAt(v, y) \notin {NoRow, r} => v.screen[y] = Clean(RowAt(v, y))
  /\ \A p \in v.lit : RowAt(v, p[1]) \in {NoRow, r}
  /\ v.headers = Layout(v)

LEMMA DrawOneAgrees ==
  ASSUME NEW v, Sound(v), AgreesBut(v, v.curRow)
  PROVE  LET d == DrawOne(v, v.curRow) IN Sound(d) /\ Still(d, v) /\ Agrees(d)
<1> DEFINE cur == v.curRow
           a == DrawRow(v, cur)
           b == DrawCursor(a)
           d == DrawStatus(b)
<1>1. v \in Views /\ Laid(v) /\ cur \in Rows
  BY DEF Sound, Views
<1>2. /\ Sound(a) /\ Still(a, v) /\ a.headers = v.headers
      /\ \A y \in Lines : a.screen[y] = IF RowAt(v, y) = cur THEN Clean(cur) ELSE v.screen[y]
      /\ a.lit = {p \in v.lit : RowAt(v, p[1]) # cur}
      /\ RowY(v, cur) # Off => a.line = Clean(cur)
  BY <1>1, DrawRowDoes
<1> HIDE DEF a
<1>3. RowY(a, a.curRow) = RowY(v, cur) /\ a.curRow = cur /\ CellOf(a) = CellOf(v)
  BY <1>1, <1>2, StillLaid DEF Sound, Still, CellOf
<1>4. /\ Sound(b) /\ Still(b, a) /\ b.headers = a.headers /\ b.screen = a.screen
      /\ b.lit = a.lit \cup CellOf(a)
  BY <1>2, <1>3, DrawCursorDoes
<1> HIDE DEF b
<1>5. /\ Sound(d) /\ Still(d, b) /\ d.headers = b.headers /\ d.screen = b.screen
      /\ d.lit = b.lit /\ d.status = [row |-> b.curRow, col |-> b.curCol, good |-> TRUE]
  BY <1>4, DrawStatusDoes
<1> HIDE DEF d
<1>6. Still(d, v) /\ d \in Views
  BY <1>2, <1>4, <1>5 DEF Still, Sound
<1>7. /\ \A y : RowAt(d, y) = RowAt(v, y)
      /\ CellOf(d) = CellOf(v) /\ Layout(d) = Layout(v)
  BY <1>1, <1>6, StillLaid DEF Still, CellOf
<1>8. ASSUME NEW y \in Lines, RowAt(d, y) # NoRow
      PROVE  d.screen[y] = Clean(RowAt(d, y))
  BY <1>2, <1>4, <1>5, <1>7, <1>8 DEF AgreesBut
<1>9. {p \in d.lit : RowAt(d, p[1]) # NoRow} = CellOf(d)
  <2>1. \A p \in a.lit : RowAt(v, p[1]) = NoRow
    BY <1>2 DEF AgreesBut
  <2>2. \A p \in CellOf(v) : RowAt(v, p[1]) # NoRow
    <3>1. SUFFICES ASSUME RowY(v, cur) # Off PROVE RowAt(v, RowY(v, cur)) # NoRow
      BY DEF CellOf
    <3>2. RowY(v, cur) \in Lines
      BY <1>1, <3>1, RowRange
    <3>3. RowAt(v, RowY(v, cur)) = cur
      BY <1>1, <3>2, RowLine
    <3> QED
      BY <1>1, <3>3, Sizes
  <2> QED
    BY <1>3, <1>4, <1>5, <1>7, <2>1, <2>2
<1>10. d.status = [row |-> d.curRow, col |-> d.curCol, good |-> TRUE]
  BY <1>5 DEF Still
<1>11. d.headers = Layout(d)
  BY <1>2, <1>4, <1>5, <1>7 DEF AgreesBut
<1>12. Agrees(d)
  BY <1>8, <1>9, <1>10, <1>11 DEF Agrees
<1>13. DrawOne(v, v.curRow) = d
  BY DEF DrawOne, a, b, d
<1> QED
  BY <1>5, <1>6, <1>12, <1>13

LEMMA DrawTwoAgrees ==
  ASSUME NEW v, Sound(v), NEW r \in Rows, AgreesBut(v, r)
  PROVE  LET d == DrawTwo(v, r) IN Sound(d) /\ Still(d, v) /\ Agrees(d)
<1> DEFINE a == DrawRow(v, r)
<1>1. /\ Sound(a) /\ Still(a, v) /\ a.headers = v.headers
      /\ \A y \in Lines : a.screen[y] = IF RowAt(v, y) = r THEN Clean(r) ELSE v.screen[y]
      /\ a.lit = {p \in v.lit : RowAt(v, p[1]) # r}
  BY DrawRowDoes
<1>2. DrawTwo(v, r) = DrawOne(a, a.curRow)
  BY <1>1 DEF DrawTwo, DrawOne, Still
<1> HIDE DEF a
<1>3. (\A y : RowAt(a, y) = RowAt(v, y)) /\ Layout(a) = Layout(v)
  BY <1>1, StillLaid DEF Sound
<1>4. AgreesBut(a, a.curRow)
  BY <1>1, <1>3 DEF AgreesBut
<1>5. LET d == DrawOne(a, a.curRow) IN Sound(d) /\ Still(d, a) /\ Agrees(d)
  BY <1>1, <1>4, DrawOneAgrees
<1> QED
  BY <1>1, <1>2, <1>5 DEF Still

\* A whole repaint needs to know nothing of what was on the screen.
LEMMA DrawAgrees ==
  ASSUME NEW v, Sound(v)
  PROVE  LET d == Draw(v) IN Sound(d) /\ Still(d, v) /\ Agrees(d)
<1> DEFINE a == [v EXCEPT !.headers = Layout(v)]
           rows == (0 .. v.titleRows - 1) \cup (v.topRow .. v.topRow + (ViewRows - v.titleRows) - 1)
           b == DrawRows(a, rows \cap Rows)
<1>1. v \in Views /\ Laid(v) /\ Fresh(v)
  BY DEF Sound
<1>2. Layout(v) \in [left : Int, locked : Int, width : Int]
  BY <1>1 DEF Views, Layout
<1>3. a \in Views /\ Still(a, v) /\ a.headers = Layout(v) /\ a.cache = v.cache
  BY <1>1, <1>2 DEF Views, Still
<1>4. Fresh(a)
  BY <1>1 DEF Fresh
<1> HIDE DEF a
<1>5. Sound(a)
  BY <1>1, <1>3, <1>4, StillLaid DEF Sound
<1>6. \A y \in Lines : RowAt(a, y) # NoRow => RowAt(a, y) \in rows \cap Rows
  <2>1. /\ v.titleRows \in Nat /\ v.topRow \in Nat /\ ViewRows \in Nat /\ v.titleRows < ViewRows
    BY <1>1, ViewAssumption DEF Views, Laid, Rows
  <2>2. ASSUME NEW y \in Lines, RowAt(v, y) # NoRow
        PROVE  RowAt(v, y) \in rows
    BY <2>1, <2>2, ViewAssumption DEF RowAt, Lines
  <2>3. \A y \in Lines : RowAt(v, y) \in Rows \cup {NoRow}
    BY <1>1, RowRange
  <2> QED
    BY <1>1, <1>3, <2>2, <2>3, StillLaid
<1> DEFINE R == rows \cap Rows
<1>7. R \in SUBSET Rows
  OBVIOUS
<1> HIDE DEF rows, R
<1>8. /\ Sound(b) /\ Still(b, a) /\ b.headers = a.headers
      /\ \A y \in Lines : b.screen[y] = IF RowAt(a, y) \in R THEN Clean(RowAt(a, y)) ELSE a.screen[y]
      /\ b.lit = {p \in a.lit : RowAt(a, p[1]) \notin R}
  BY <1>5, <1>7, DrawRowsDoes DEF R
<1>9. Draw(v) = DrawOne(b, b.curRow)
  BY <1>3, <1>8 DEF Draw, Still, a, rows
<1> HIDE DEF b
<1>10. (\A y : RowAt(b, y) = RowAt(a, y)) /\ Layout(b) = Layout(a) /\ Layout(a) = Layout(v)
  BY <1>1, <1>3, <1>5, <1>8, StillLaid DEF Sound
<1>11. \A p \in a.lit : p[1] \in Lines
  BY <1>3 DEF Views
<1>12. AgreesBut(b, b.curRow)
  BY <1>3, <1>6, <1>8, <1>10, <1>11 DEF AgreesBut, R
<1>13. LET d == DrawOne(b, b.curRow) IN Sound(d) /\ Still(d, b) /\ Agrees(d)
  BY <1>8, <1>12, DrawOneAgrees
<1> QED
  BY <1>3, <1>8, <1>9, <1>13 DEF Still

-----------------------------------------------------------------------------
(* What a command does to a view before it is drawn. *)

LEMMA ChangedDoes ==
  ASSUME NEW v \in Views, NEW R \in SUBSET Rows
  PROVE  /\ Changed(v, R) \in Views /\ Still(Changed(v, R), v)
         /\ Changed(v, R).headers = v.headers /\ Changed(v, R).lit = v.lit
         /\ \A y \in Lines : v.screen[y].row \notin R => Changed(v, R).screen[y] = v.screen[y]
<1> DEFINE cache == [r \in Rows |-> IF r \in R /\ v.cache[r] = "good" THEN "stale" ELSE v.cache[r]]
           screen == [y \in Lines |-> [row |-> v.screen[y].row,
                                       good |-> v.screen[y].good /\ v.screen[y].row \notin R]]
           status == [row |-> v.status.row, col |-> v.status.col,
                      good |-> v.status.good /\ v.status.row \notin R]
           d == [v EXCEPT !.cache = cache, !.screen = screen, !.status = status]
<1>1. Changed(v, R) = d
  BY DEF Changed
<1>2. cache \in [Rows -> Filed \cup {"stale"}]
  BY DEF Views, Filed
<1>3. \A y \in Lines : v.screen[y] \in LineType
  BY DEF Views
<1>4. screen \in [Lines -> LineType]
  <2>1. ASSUME NEW y \in Lines PROVE screen[y] \in LineType
    BY <1>3 DEF LineType
  <2> QED
    BY <2>1
<1>5. \A y \in Lines : v.screen[y].row \notin R => screen[y] = v.screen[y]
  <2> SUFFICES ASSUME NEW y \in Lines, v.screen[y].row \notin R
               PROVE  screen[y] = v.screen[y]
    OBVIOUS
  <2>1. PICK row \in Int, good \in BOOLEAN : v.screen[y] = [row |-> row, good |-> good]
    BY <1>3 DEF LineType
  <2>2. (v.screen[y].good /\ v.screen[y].row \notin R) = good
    BY <2>1
  <2> QED
    BY <2>1, <2>2
<1>6. status \in [row : Int, col : Int, good : BOOLEAN]
  BY DEF Views
<1> HIDE DEF cache, screen, status
<1>7. d \in Views /\ Still(d, v) /\ d.headers = v.headers /\ d.lit = v.lit /\ d.screen = screen
  BY <1>2, <1>4, <1>6 DEF Views, Still
<1> QED
  BY <1>1, <1>5, <1>7

LEMMA DirtyRowsDoes ==
  ASSUME NEW v \in Views, NEW R
  PROVE  /\ DirtyRows(v, R) \in Views /\ Still(DirtyRows(v, R), v)
         /\ DirtyRows(v, R).headers = v.headers /\ DirtyRows(v, R).lit = v.lit
         /\ DirtyRows(v, R).screen = v.screen
<1> DEFINE cache == [r \in Rows |-> IF r \in R THEN "dirty" ELSE v.cache[r]]
           d == [v EXCEPT !.cache = cache]
<1>1. DirtyRows(v, R) = d
  BY DEF DirtyRows
<1>2. cache \in [Rows -> Filed \cup {"stale"}]
  BY DEF Views, Filed
<1> HIDE DEF cache
<1> QED
  BY <1>1, <1>2 DEF Views, Still

LEMMA DirtyRowDoes ==
  ASSUME NEW v \in Views, NEW r \in Rows
  PROVE  /\ DirtyRow(v, r) \in Views /\ Still(DirtyRow(v, r), v)
         /\ DirtyRow(v, r).headers = v.headers /\ DirtyRow(v, r).lit = v.lit
         /\ DirtyRow(v, r).screen = v.screen
<1> DEFINE cache == [v.cache EXCEPT ![r] = "dirty"]
           d == [v EXCEPT !.cache = cache]
<1>1. DirtyRow(v, r) = d
  BY DEF DirtyRow
<1>2. cache \in [Rows -> Filed \cup {"stale"}]
  BY DEF Views, Filed
<1> HIDE DEF cache
<1> QED
  BY <1>1, <1>2 DEF Views, Still

LEMMA RelaidDoes ==
  ASSUME NEW v, Sound(v)
  PROVE  Sound(DirtyAll(Changed(v, Rows))) /\ Still(DirtyAll(Changed(v, Rows)), v)
<1> DEFINE a == Changed(v, Rows)
           d == DirtyAll(a)
<1>1. v \in Views /\ Laid(v) /\ Fresh(v)
  BY DEF Sound
<1>2. a \in Views /\ Still(a, v)
  BY <1>1, ChangedDoes
<1>3. Fresh(d)
  BY <1>1, RelaidFresh
<1> HIDE DEF a
<1>4. d \in Views /\ Still(d, a)
  BY <1>2, DirtyRowsDoes DEF DirtyAll
<1> HIDE DEF d
<1>5. Still(d, v)
  BY <1>2, <1>4 DEF Still
<1>6. Sound(d)
  BY <1>1, <1>3, <1>4, <1>5, StillLaid DEF Sound
<1> QED
  BY <1>5, <1>6 DEF a, d

LEMMA RecalculatedDoes ==
  ASSUME NEW v, Sound(v), NEW R \in SUBSET Rows
  PROVE  /\ Sound(Recalculated(v, R)) /\ Still(Recalculated(v, R), v)
         /\ Recalculated(v, R).headers = v.headers /\ Recalculated(v, R).lit = v.lit
         /\ \A y \in Lines : v.screen[y].row \notin R => Recalculated(v, R).screen[y] = v.screen[y]
<1> DEFINE a == Changed(v, R)
           d == DirtyRows(a, R)
<1>1. v \in Views /\ Laid(v) /\ Fresh(v)
  BY DEF Sound
<1>2. /\ a \in Views /\ Still(a, v) /\ a.headers = v.headers /\ a.lit = v.lit
      /\ \A y \in Lines : v.screen[y].row \notin R => a.screen[y] = v.screen[y]
  BY <1>1, ChangedDoes
<1>3. Fresh(d) /\ Recalculated(v, R) = d
  BY <1>1, RecalculatedFresh DEF Recalculated
<1> HIDE DEF a
<1>4. d \in Views /\ Still(d, a) /\ d.headers = a.headers /\ d.lit = a.lit /\ d.screen = a.screen
  BY <1>2, DirtyRowsDoes
<1> HIDE DEF d
<1>5. Still(d, v)
  BY <1>2, <1>4 DEF Still
<1>6. Sound(d)
  BY <1>1, <1>3, <1>4, <1>5, StillLaid DEF Sound
<1> QED
  BY <1>2, <1>3, <1>4, <1>5, <1>6

LEMMA RewrittenDoes ==
  ASSUME NEW v, Sound(v)
  PROVE  /\ Sound(Rewritten(v)) /\ Still(Rewritten(v), v)
         /\ Rewritten(v).headers = v.headers /\ Rewritten(v).lit = v.lit
         /\ \A y \in Lines : v.screen[y].row # v.curRow => Rewritten(v).screen[y] = v.screen[y]
<1> DEFINE a == Changed(v, {v.curRow})
           d == DirtyRow(a, v.curRow)
<1>1. v \in Views /\ Laid(v) /\ Fresh(v) /\ v.curRow \in Rows
  BY DEF Sound, Views
<1>2. /\ a \in Views /\ Still(a, v) /\ a.headers = v.headers /\ a.lit = v.lit
      /\ \A y \in Lines : v.screen[y].row \notin {v.curRow} => a.screen[y] = v.screen[y]
  BY <1>1, ChangedDoes
<1>3. Fresh(d) /\ Rewritten(v) = d
  BY <1>1, RewrittenFresh DEF Rewritten
<1> HIDE DEF a
<1>4. d \in Views /\ Still(d, a) /\ d.headers = a.headers /\ d.lit = a.lit /\ d.screen = a.screen
  BY <1>1, <1>2, DirtyRowDoes
<1> HIDE DEF d
<1>5. Still(d, v)
  BY <1>2, <1>4 DEF Still
<1>6. Sound(d)
  BY <1>1, <1>3, <1>4, <1>5, StillLaid DEF Sound
<1> QED
  BY <1>2, <1>3, <1>4, <1>5, <1>6

LEMMA SetWidthDoes ==
  ASSUME NEW v, Sound(v), NEW w \in Widths
  PROVE  Sound(SetWidth(v, w)) /\ SetWidth(v, w).curRow = v.curRow /\ SetWidth(v, w).curCol = v.curCol
<1> DEFINE a == [v EXCEPT !.width = w]
<1>1. w \in Nat \ {0} /\ v \in Views /\ Laid(v) /\ Fresh(v)
  BY KalkAssumption DEF Sound
<1>2. a \in Views /\ Laid(a) /\ a.curRow = v.curRow /\ a.curCol = v.curCol
  BY <1>1 DEF Views, Laid
<1>3. Fresh(a)
  BY <1>1 DEF Fresh
<1>4. SetWidth(v, w) = DirtyAll(Changed(a, Rows))
  BY DEF SetWidth
<1> HIDE DEF a
<1> QED
  BY <1>2, <1>3, <1>4, RelaidDoes DEF Sound, Still

\* The larger and the smaller of two
LEMMA OfTwo ==
  ASSUME NEW a \in Int, NEW b \in Int
  PROVE  /\ Max({a, b}) = IF a >= b THEN a ELSE b
         /\ Min({a, b}) = IF a <= b THEN a ELSE b
<1>1. Max({a, b}) = IF a >= b THEN a ELSE b
  BY DEF Max
<1>2. Min({a, b}) = IF a <= b THEN a ELSE b
  BY DEF Min
<1> QED
  BY <1>1, <1>2

LEMMA SetTitlesDoes ==
  ASSUME NEW v, Sound(v), NEW r \in Rows, NEW c \in Nat
  PROVE  LET d == SetTitles(v, r, c)
         IN  Sound(d) /\ d.curRow = v.curRow /\ d.curCol = v.curCol
<1> DEFINE half == ViewRows \div 2
           lines == Min({r, half})
           locked == Min({c, NCols})
           top == Max({v.topRow, lines})
           left == Max({v.leftCol, locked})
           w == [v EXCEPT !.titleRows = lines, !.titleCols = locked, !.topRow = top, !.leftCol = left]
<1>1. v \in Views /\ Laid(v) /\ Fresh(v) /\ v.topRow \in Nat /\ v.leftCol \in Nat /\ r \in Nat
  BY ViewAssumption DEF Sound, Views, Rows
<1>2. half \in Nat /\ half < ViewRows /\ NCols \in Nat /\ ViewRows \in Nat
  BY ViewAssumption
<1> HIDE DEF half
<1>3. lines \in Nat /\ lines <= r /\ lines < ViewRows
  <2>0. r \in Int /\ half \in Int
    BY <1>1, <1>2
  <2>1. lines = IF r <= half THEN r ELSE half
    BY <2>0, OfTwo, Zenon
  <2> HIDE DEF lines
  <2> QED
    BY <1>1, <1>2, <2>1
<1>4. locked \in Nat
  <2>1. locked = IF c <= NCols THEN c ELSE NCols
    BY <1>2, OfTwo
  <2> HIDE DEF locked
  <2> QED
    BY <1>2, <2>1
<1> HIDE DEF lines, locked
<1>5. top \in Nat /\ top >= lines /\ left \in Nat /\ left >= locked
  BY <1>1, <1>3, <1>4, OfTwo
<1>6. lines \in Rows
  BY <1>3, ViewAssumption DEF Rows
<1> HIDE DEF top, left
<1>7. w \in Views /\ Laid(w) /\ w.curRow = v.curRow /\ w.curCol = v.curCol
  BY <1>1, <1>3, <1>4, <1>5, <1>6 DEF Views, Laid
<1>8. Fresh(w)
  BY <1>1 DEF Fresh
<1>9. SetTitles(v, r, c) = IF locked = v.titleCols THEN w ELSE DirtyAll(Changed(w, Rows))
  BY DEF SetTitles, half, lines, locked, top, left
<1> HIDE DEF w
<1> QED
  BY <1>7, <1>8, <1>9, RelaidDoes DEF Sound, Still

-----------------------------------------------------------------------------
(* Moving. *)

\* The least of a set of columns from l on is one of them.
LEMMA LeastColumn ==
  ASSUME NEW l \in Nat, NEW c \in Nat, NEW S \in SUBSET (l .. c), S # {}
  PROVE  Min(S) \in S
<1>1. S \in SUBSET Nat
  OBVIOUS
<1>2. \E m \in S : \A n \in S : m <= n
  BY <1>1, LeastElement
<1> QED
  BY <1>2 DEF Min

\* The edge view_move_to settles on shows all of the column, if any edge does.
LEMMA LeftForFits ==
  ASSUME NEW v \in Views, Laid(v), NEW c \in Cols
  PROVE  /\ LeftFor(v, c) \in Nat /\ v.titleCols <= LeftFor(v, c)
         /\ v.titleCols <= c /\ (v.titleCols + 1) * v.width <= ScreenCols =>
              /\ LeftFor(v, c) <= c
              /\ (v.titleCols + (c - LeftFor(v, c)) + 1) * v.width <= ScreenCols
<1> DEFINE wide(l) == (v.titleCols + (c - l) + 1) * v.width
           S == {l \in v.leftCol .. c : wide(l) <= ScreenCols} \cup {c}
           left == IF c < v.titleCols THEN v.leftCol
                   ELSE IF c < v.leftCol THEN c ELSE Min(S)
<1>1. /\ v.titleCols \in Nat /\ v.leftCol \in Nat /\ c \in Nat /\ v.titleCols <= v.leftCol
  BY DEF Views, Laid, Cols
<1>2. LeftFor(v, c) = Max({left, v.titleCols})
  BY DEF LeftFor
<1>3. wide(c) = (v.titleCols + 1) * v.width
  BY <1>1
<1> HIDE DEF wide
<1>4. ASSUME c >= v.leftCol
      PROVE  /\ Min(S) \in v.leftCol .. c
             /\ wide(c) <= ScreenCols => wide(Min(S)) <= ScreenCols
  <2>1. S \in SUBSET (v.leftCol .. c) /\ S # {}
    BY <1>1, <1>4
  <2>2. Min(S) \in S
    BY <1>1, <2>1, LeastColumn
  <2> QED
    BY <2>1, <2>2
<1> HIDE DEF S
<1>5. left \in Nat
  BY <1>1, <1>4
<1>6. c >= v.titleCols => /\ left \in v.titleCols .. c
                          /\ wide(c) <= ScreenCols => wide(left) <= ScreenCols
  BY <1>1, <1>4
<1> HIDE DEF left
<1>7. LeftFor(v, c) = IF left >= v.titleCols THEN left ELSE v.titleCols
  BY <1>1, <1>2, <1>5, OfTwo
<1>8. LeftFor(v, c) \in Nat /\ v.titleCols <= LeftFor(v, c)
  BY <1>1, <1>5, <1>7
<1>9. c >= v.titleCols => LeftFor(v, c) = left
  BY <1>1, <1>6, <1>7
<1>10. ASSUME v.titleCols <= c, (v.titleCols + 1) * v.width <= ScreenCols
       PROVE  LeftFor(v, c) <= c /\ wide(LeftFor(v, c)) <= ScreenCols
  BY <1>1, <1>3, <1>6, <1>9, <1>10
<1> QED
  BY <1>8, <1>10 DEF wide

LEMMA TopForFits ==
  ASSUME NEW v \in Views, Laid(v), NEW r \in Rows
  PROVE  /\ TopFor(v, r) \in Nat /\ v.titleRows <= TopFor(v, r)
         /\ v.titleRows <= r => TopFor(v, r) <= r /\ r < TopFor(v, r) + (ViewRows - v.titleRows)
<1> DEFINE space == ViewRows - v.titleRows
           top == IF r < v.titleRows THEN v.topRow
                  ELSE IF r < v.topRow THEN r
                  ELSE IF r >= v.topRow + space THEN r - space + 1
                  ELSE v.topRow
<1>1. /\ v.titleRows \in Nat /\ v.topRow \in Nat /\ r \in Nat /\ v.titleRows <= v.topRow
      /\ space \in Nat \ {0} /\ v.titleRows + space = ViewRows
  BY ViewAssumption DEF Views, Laid, Rows
<1>2. TopFor(v, r) = Max({top, v.titleRows})
  BY DEF TopFor
<1> HIDE DEF space
<1>3. top \in Int
  BY <1>1
<1>4. TopFor(v, r) = IF top >= v.titleRows THEN top ELSE v.titleRows
  BY <1>1, <1>2, <1>3, OfTwo
<1>5. TopFor(v, r) \in Nat /\ v.titleRows <= TopFor(v, r)
  BY <1>1, <1>4
<1>6. v.titleRows <= r => TopFor(v, r) <= r /\ r < TopFor(v, r) + space
  BY <1>1, <1>4
<1> QED
  BY <1>5, <1>6 DEF space

\* What MovesIntoView asks of the view after a move
InView(v) ==
  /\ RowY(v, v.curRow) # Off
  /\ RowAt(v, RowY(v, v.curRow)) = v.curRow
  /\ \/ ColX(v, v.curCol) # Off /\ ColX(v, v.curCol) + v.width <= ScreenCols
     \/ v.curCol < v.titleCols
     \/ (v.titleCols + 1) * v.width > ScreenCols

LEMMA MoveToDoes ==
  ASSUME NEW v, Sound(v), NEW r, NEW c
  PROVE  LET d == MoveTo(v, r, c)
         IN  /\ Sound(d)
             /\ r \notin Rows \/ c \notin Cols => d = v
             /\ r \in Rows /\ c \in Cols =>
                  /\ d.curRow = r /\ d.curCol = c
                  /\ d.topRow = TopFor(v, r) /\ d.leftCol = LeftFor(v, c)
                  /\ d.titleRows = v.titleRows /\ d.titleCols = v.titleCols /\ d.width = v.width
             /\ d.leftCol = v.leftCol =>
                  d.headers = v.headers /\ d.lit = v.lit /\ d.screen = v.screen
<1> DEFINE left == LeftFor(v, c)
           top == TopFor(v, r)
           w == [v EXCEPT !.curRow = r, !.curCol = c, !.topRow = top]
           a == [w EXCEPT !.leftCol = left]
           d == DirtyAll(Changed(a, Rows))
<1>1. v \in Views /\ Laid(v) /\ Fresh(v)
  BY DEF Sound
<1>2. CASE r \notin Rows \/ c \notin Cols
  <2>1. MoveTo(v, r, c) = v
    BY <1>2 DEF MoveTo
  <2> QED
    BY <1>2, <2>1
<1>3. CASE r \in Rows /\ c \in Cols
  <2>1. left \in Nat /\ v.titleCols <= left /\ top \in Nat /\ v.titleRows <= top
    BY <1>1, <1>3, LeftForFits, TopForFits
  <2>2. MoveTo(v, r, c) = IF left = w.leftCol THEN w ELSE d
    BY <1>3 DEF MoveTo, ScrolledTo
  <2> HIDE DEF left, top
  <2>3. /\ w \in Views /\ w.leftCol = v.leftCol /\ w.topRow = top /\ w.curRow = r /\ w.curCol = c
        /\ w.titleRows = v.titleRows /\ w.titleCols = v.titleCols /\ w.width = v.width
        /\ w.headers = v.headers /\ w.lit = v.lit /\ w.screen = v.screen
    BY <1>1, <1>3, <2>1 DEF Views
  <2>4. Fresh(w) /\ Fresh(a)
    BY <1>1 DEF Fresh
  <2>5. Sound(w)
    BY <1>1, <2>1, <2>3, <2>4 DEF Sound, Laid
  <2> HIDE DEF w
  <2>6. /\ a \in Views /\ a.leftCol = left /\ a.topRow = top /\ a.curRow = r /\ a.curCol = c
        /\ a.titleRows = v.titleRows /\ a.titleCols = v.titleCols /\ a.width = v.width
    BY <2>1, <2>3 DEF Views
  <2>7. Sound(a)
    BY <1>1, <2>1, <2>4, <2>6 DEF Sound, Laid
  <2> HIDE DEF a
  <2>8. Sound(d) /\ Still(d, a)
    BY <2>7, RelaidDoes
  <2> HIDE DEF d
  <2>9. CASE left = w.leftCol
    BY <1>3, <2>2, <2>3, <2>5, <2>9 DEF left, top
  <2>10. CASE left # w.leftCol
    BY <1>3, <2>2, <2>3, <2>6, <2>8, <2>10 DEF Still, left, top
  <2> QED
    BY <2>9, <2>10
<1> QED
  BY <1>2, <1>3

LEMMA MoveToInView ==
  ASSUME NEW v, Sound(v), NEW r \in Rows, NEW c \in Cols
  PROVE  InView(MoveTo(v, r, c))
<1> DEFINE d == MoveTo(v, r, c)
<1>1. /\ Sound(d) /\ d.curRow = r /\ d.curCol = c
      /\ d.topRow = TopFor(v, r) /\ d.leftCol = LeftFor(v, c)
      /\ d.titleRows = v.titleRows /\ d.titleCols = v.titleCols /\ d.width = v.width
  BY MoveToDoes
<1> HIDE DEF d
<1>2. v \in Views /\ Laid(v) /\ d \in Views /\ Laid(d)
  BY <1>1 DEF Sound
<1>3. /\ v.titleRows \in Nat /\ v.titleCols \in Nat /\ v.width \in Nat \ {0}
      /\ r \in Nat /\ c \in Nat /\ ViewRows \in Nat /\ ScreenCols \in Nat
      /\ d.topRow \in Nat /\ d.leftCol \in Nat
  BY <1>2, ViewAssumption DEF Views, Rows, Cols
<1>4. v.titleRows <= r => d.topRow <= r /\ r < d.topRow + (ViewRows - v.titleRows)
  BY <1>1, <1>2, TopForFits
<1>5. RowY(d, r) \in Lines
  BY <1>1, <1>2, <1>3, <1>4 DEF RowY, Lines, Laid
<1>6. RowAt(d, RowY(d, r)) = r /\ RowY(d, r) # Off
  BY <1>2, <1>5, RowLine, Sizes
<1>7. ASSUME c >= v.titleCols, (v.titleCols + 1) * v.width <= ScreenCols
      PROVE  ColX(d, c) # Off /\ ColX(d, c) + d.width <= ScreenCols
  <2>1. d.leftCol <= c /\ (v.titleCols + (c - d.leftCol) + 1) * v.width <= ScreenCols
    BY <1>1, <1>2, <1>7, LeftForFits
  <2> DEFINE step == v.titleCols + (c - d.leftCol)
             x == step * v.width
  <2>2. step \in Nat
    BY <1>3, <2>1
  <2>3. ColX(d, c) = IF x < ScreenCols THEN x ELSE Off
    BY <1>1, <1>3, <1>7, <2>1 DEF ColX
  <2>4. (step + 1) * v.width <= ScreenCols
    BY <2>1
  <2> HIDE DEF step
  <2>5. (step + 1) * v.width = x + v.width /\ x \in Nat
    BY <1>3, <2>2, OneMore
  <2> HIDE DEF x
  <2> QED
    BY <1>1, <1>3, <2>3, <2>4, <2>5 DEF Off
<1>8. \/ ColX(d, c) # Off /\ ColX(d, c) + d.width <= ScreenCols
      \/ c < d.titleCols
      \/ (d.titleCols + 1) * d.width > ScreenCols
  <2> DEFINE least == (v.titleCols + 1) * v.width
  <2>1. least \in Nat
    BY <1>3
  <2>2. c < v.titleCols \/ c >= v.titleCols
    BY <1>3
  <2>3. least <= ScreenCols \/ least > ScreenCols
    <3> HIDE DEF least
    <3> QED
      BY <1>3, <2>1
  <2> QED
    BY <1>1, <1>7, <2>2, <2>3
<1> QED
  BY <1>1, <1>6, <1>8 DEF InView, d

-----------------------------------------------------------------------------
(* From key to key. *)

\* A key that finds the view u leaves the view d.
Settles(d, u) ==
  /\ Sound(d)
  /\ Agrees(d)
  /\ <<d.curRow, d.curCol>> # <<u.curRow, u.curCol>> => InView(d)

LEMMA InViewStill ==
  ASSUME NEW v \in Views, NEW d \in Views, Laid(v), Still(d, v), InView(v)
  PROVE  InView(d)
BY StillLaid DEF InView, Still

LEMMA DrawSettles ==
  ASSUME NEW u, NEW v, Sound(v), <<v.curRow, v.curCol>> # <<u.curRow, u.curCol>> => InView(v)
  PROVE  Settles(Draw(v), u)
<1> DEFINE d == Draw(v)
<1>1. Sound(d) /\ Still(d, v) /\ Agrees(d)
  BY DrawAgrees
<1> HIDE DEF d
<1>2. d.curRow = v.curRow /\ d.curCol = v.curCol /\ d \in Views /\ v \in Views /\ Laid(v)
  BY <1>1 DEF Still, Sound
<1>3. Settles(d, u)
  BY <1>1, <1>2, InViewStill DEF Settles
<1> QED
  BY <1>3 DEF d

\* What changed no more than row r, and did not scroll, is wrong in no other row.
LEMMA OnlyThatRow ==
  ASSUME NEW u, NEW v, Sound(u), Agrees(u), Sound(v),
         v.topRow = u.topRow, v.leftCol = u.leftCol, v.titleRows = u.titleRows,
         v.titleCols = u.titleCols, v.width = u.width,
         v.headers = u.headers, v.lit = u.lit,
         \A y \in Lines : u.screen[y].row # u.curRow => v.screen[y] = u.screen[y]
  PROVE  AgreesBut(v, u.curRow)
<1>1. u \in Views /\ Laid(u) /\ u.curRow \in Rows
  BY DEF Sound, Views
<1>2. (\A y : RowAt(v, y) = RowAt(u, y)) /\ Layout(v) = Layout(u)
  BY DEF RowAt, Layout
<1>3. ASSUME NEW y \in Lines, RowAt(u, y) \notin {NoRow, u.curRow}
      PROVE  v.screen[y] = Clean(RowAt(u, y))
  <2>1. u.screen[y] = Clean(RowAt(u, y))
    BY <1>3 DEF Agrees
  <2>2. u.screen[y].row # u.curRow
    BY <1>3, <2>1 DEF Clean
  <2> QED
    BY <2>1, <2>2
<1>4. ASSUME NEW p \in u.lit, RowAt(u, p[1]) # NoRow
      PROVE  RowAt(u, p[1]) = u.curRow
  <2>1. p \in CellOf(u)
    BY <1>4 DEF Agrees
  <2>2. p[1] = RowY(u, u.curRow) /\ RowY(u, u.curRow) # Off
    BY <2>1 DEF CellOf
  <2>3. p[1] \in Lines
    BY <1>1, <2>2, RowRange
  <2> QED
    BY <1>1, <2>2, <2>3, RowLine
<1> QED
  BY <1>2, <1>3, <1>4 DEF AgreesBut, Agrees

\* The command wrote at most row u.curRow (w), moved (v), and did not scroll.
LEMMA MovedBut ==
  ASSUME NEW u, NEW w, Sound(u), Agrees(u), Sound(w), Still(w, u),
         w.headers = u.headers, w.lit = u.lit,
         \A y \in Lines : u.screen[y].row # u.curRow => w.screen[y] = u.screen[y],
         NEW r, NEW c, ~ Scrolled(u, MoveTo(w, r, c))
  PROVE  AgreesBut(MoveTo(w, r, c), u.curRow)
<1> DEFINE v == MoveTo(w, r, c)
<1>1. /\ Sound(v)
      /\ r \notin Rows \/ c \notin Cols => v = w
      /\ r \in Rows /\ c \in Cols =>
           v.titleRows = w.titleRows /\ v.titleCols = w.titleCols /\ v.width = w.width
      /\ v.leftCol = w.leftCol => v.headers = w.headers /\ v.lit = w.lit /\ v.screen = w.screen
  BY MoveToDoes
<1>2. v.topRow = u.topRow /\ v.leftCol = u.leftCol
  BY DEF Scrolled
<1> HIDE DEF v
<1>3. v.titleRows = u.titleRows /\ v.titleCols = u.titleCols /\ v.width = u.width
      /\ v.headers = u.headers /\ v.lit = u.lit /\ v.screen = w.screen
  BY <1>1, <1>2 DEF Still
<1>4. AgreesBut(v, u.curRow)
  BY <1>1, <1>2, <1>3, OnlyThatRow
<1> QED
  BY <1>4 DEF v

LEMMA MovedInView ==
  ASSUME NEW u, NEW w, Sound(w), Still(w, u), NEW r, NEW c
  PROVE  LET v == MoveTo(w, r, c)
         IN  Sound(v) /\ (<<v.curRow, v.curCol>> # <<u.curRow, u.curCol>> => InView(v))
<1>1. Sound(MoveTo(w, r, c)) /\ (r \notin Rows \/ c \notin Cols => MoveTo(w, r, c) = w)
  BY MoveToDoes
<1>2. r \in Rows /\ c \in Cols => InView(MoveTo(w, r, c))
  BY MoveToInView
<1> QED
  BY <1>1, <1>2 DEF Still

\* DrawTwo, and DrawOne where the cursor stayed in its row, repaint what that takes.
LEMMA PartSettles ==
  ASSUME NEW u, Sound(u), NEW v, Sound(v), AgreesBut(v, u.curRow),
         <<v.curRow, v.curCol>> # <<u.curRow, u.curCol>> => InView(v)
  PROVE  /\ Settles(DrawTwo(v, u.curRow), u)
         /\ v.curRow = u.curRow => Settles(DrawOne(v, u.curRow), u)
<1>1. u.curRow \in Rows /\ v \in Views /\ Laid(v)
  BY DEF Sound, Views
<1>2. ASSUME NEW d, Sound(d), Still(d, v), Agrees(d)
      PROVE  Settles(d, u)
  <2>1. d.curRow = v.curRow /\ d.curCol = v.curCol /\ d \in Views
    BY <1>2 DEF Still, Sound
  <2> QED
    BY <1>1, <1>2, <2>1, InViewStill DEF Settles
<1>3. Settles(DrawTwo(v, u.curRow), u)
  BY <1>1, <1>2, DrawTwoAgrees
<1>4. ASSUME v.curRow = u.curRow
      PROVE  Settles(DrawOne(v, u.curRow), u)
  BY <1>2, <1>4, DrawOneAgrees
<1> QED
  BY <1>3, <1>4

\* do_goto and the arrow keys
LEMMA MoveSettles ==
  ASSUME NEW u, Sound(u), Agrees(u), NEW r, NEW c
  PROVE  LET v == MoveTo(u, r, c)
         IN  Settles(IF Scrolled(u, v) THEN Draw(v) ELSE DrawTwo(v, u.curRow), u)
<1> DEFINE v == MoveTo(u, r, c)
<1>1. Still(u, u)
  BY DEF Still
<1>2. Sound(v) /\ (<<v.curRow, v.curCol>> # <<u.curRow, u.curCol>> => InView(v))
  BY <1>1, MovedInView
<1>3. ~ Scrolled(u, v) => AgreesBut(v, u.curRow)
  BY <1>1, MovedBut
<1> HIDE DEF v
<1>4. CASE Scrolled(u, v)
  BY <1>2, <1>4, DrawSettles DEF v
<1>5. CASE ~ Scrolled(u, v)
  BY <1>2, <1>3, <1>5, PartSettles DEF v
<1> QED
  BY <1>4, <1>5

\* A commit or a blank: Repainted chooses a repaint that is enough.
LEMMA RepaintSettles ==
  ASSUME NEW u, Sound(u), Agrees(u), NEW w, Sound(w), Still(w, u), NEW R,
         R = {} => /\ w.headers = u.headers /\ w.lit = u.lit
                   /\ \A y \in Lines : u.screen[y].row # u.curRow => w.screen[y] = u.screen[y],
         NEW r, NEW c
  PROVE  Settles(Repainted(MoveTo(w, r, c), u, R, u.curRow), u)
<1> DEFINE v == MoveTo(w, r, c)
<1>1. Sound(v) /\ (<<v.curRow, v.curCol>> # <<u.curRow, u.curCol>> => InView(v))
  BY MovedInView
<1>2. R = {} /\ ~ Scrolled(u, v) => AgreesBut(v, u.curRow)
  BY MovedBut
<1> HIDE DEF v
<1>3. CASE R # {} \/ Scrolled(u, v)
  <2>1. Repainted(v, u, R, u.curRow) = Draw(v)
    BY <1>3 DEF Repainted
  <2> QED
    BY <1>1, <2>1, DrawSettles DEF v
<1>4. CASE ~ (R # {} \/ Scrolled(u, v))
  <2>1. Repainted(v, u, R, u.curRow) =
          IF u.curRow = v.curRow THEN DrawOne(v, u.curRow) ELSE DrawTwo(v, u.curRow)
    BY <1>4 DEF Repainted
  <2> QED
    BY <1>1, <1>2, <1>4, <2>1, PartSettles DEF v
<1> QED
  BY <1>3, <1>4

\* A cell was written and a recalculation moved R: what NavBlankCell and Commit repaint.
LEMMA WrittenDoes ==
  ASSUME NEW u, Sound(u), NEW R \in SUBSET Rows
  PROVE  LET w == Recalculated(Rewritten(u), R)
         IN  /\ Sound(w) /\ Still(w, u)
             /\ R = {} => /\ w.headers = u.headers /\ w.lit = u.lit
                          /\ \A y \in Lines : u.screen[y].row # u.curRow => w.screen[y] = u.screen[y]
<1> DEFINE a == Rewritten(u)
           w == Recalculated(a, R)
<1>1. /\ Sound(a) /\ Still(a, u) /\ a.headers = u.headers /\ a.lit = u.lit
      /\ \A y \in Lines : u.screen[y].row # u.curRow => a.screen[y] = u.screen[y]
  BY RewrittenDoes
<1> HIDE DEF a
<1>2. /\ Sound(w) /\ Still(w, a) /\ w.headers = a.headers /\ w.lit = a.lit
      /\ \A y \in Lines : a.screen[y].row \notin R => w.screen[y] = a.screen[y]
  BY <1>1, RecalculatedDoes
<1> HIDE DEF w
<1>3. Still(w, u)
  BY <1>1, <1>2 DEF Still
<1>4. ASSUME R = {}
      PROVE  \A y \in Lines : u.screen[y].row # u.curRow => w.screen[y] = u.screen[y]
  BY <1>1, <1>2, <1>4
<1>5. /\ Sound(w) /\ Still(w, u)
      /\ R = {} => /\ w.headers = u.headers /\ w.lit = u.lit
                   /\ \A y \in Lines : u.screen[y].row # u.curRow => w.screen[y] = u.screen[y]
  BY <1>1, <1>2, <1>3, <1>4
<1> QED
  BY <1>5 DEF w, a

LEMMA BlankAgrees == Sound(Blank) /\ Agrees(Blank)
<1> DEFINE v == [curRow |-> 0, curCol |-> 0, topRow |-> 0, leftCol |-> 0,
                 titleRows |-> 0, titleCols |-> 0, width |-> 1,
                 cache |-> [r \in Rows |-> "dirty"],
                 screen |-> [y \in Lines |-> Overwritten],
                 line |-> Overwritten, lit |-> {},
                 status |-> [row |-> NoRow, col |-> 0, good |-> FALSE],
                 headers |-> [left |-> 0, locked |-> 0, width |-> 0]]
<1>1. /\ Overwritten \in LineType /\ 0 \in Rows /\ 0 \in Cols
      /\ [row |-> NoRow, col |-> 0, good |-> FALSE] \in [row : Int, col : Int, good : BOOLEAN]
  BY Sizes DEF Overwritten, LineType, NoRow
<1>2. v \in Views
  BY <1>1 DEF Views, Filed
<1>3. Laid(v) /\ Fresh(v)
  BY Sizes DEF Laid, Fresh, Filed
<1>4. Blank = Draw(v)
  BY DEF Blank
<1> HIDE DEF v
<1> QED
  BY <1>2, <1>3, <1>4, DrawAgrees DEF Sound

\* The entry line asks for what the next key will be taken as.
Prompted ==
  mode # "quit" =>
    CASE mode = "nav" -> entry \in {"blank", "esc", "report"}
      [] mode \in {"edit", "goto"} -> entry = "typed"
      [] OTHER -> entry = mode

\* The inductive invariant of ScreenAgrees and MovesIntoView
SInv ==
  /\ Sound(view)
  /\ Agrees(view)
  /\ Prompted

LEMMA ViewSettles ==
  ASSUME Sound(view), Agrees(view), [Next]_vars
  PROVE  Settles(view', view)
<1>1. CASE view' = view
  BY <1>1 DEF Settles
<1>2. ASSUME NEW v, view' = Draw(v), Sound(v),
             <<v.curRow, v.curCol>> # <<view.curRow, view.curCol>> => InView(v)
      PROVE  Settles(view', view)
  BY <1>2, DrawSettles
<1>3. ASSUME NEW v, view' = Draw(v), Sound(v), v.curRow = view.curRow, v.curCol = view.curCol
      PROVE  Settles(view', view)
  BY <1>2, <1>3
<1>4. \A R \in Spreads : R \in SUBSET Rows
  BY KalkAssumption
<1>5. CASE NavMove
  <2>1. PICK p \in Steps(view.curRow, view.curCol) :
          LET v == MoveTo(view, p[1], p[2]) IN
          view' = IF Scrolled(view, v) THEN Draw(v) ELSE DrawTwo(v, view.curRow)
    BY <1>5 DEF NavMove
  <2> QED
    BY <2>1, MoveSettles
<1>6. CASE Jump
  <2>1. PICK p \in (Rows \X Cols) \cup {<<NRows, 0>>} :
          LET v == MoveTo(view, p[1], p[2]) IN
          view' = IF Scrolled(view, v) THEN Draw(v) ELSE DrawTwo(v, view.curRow)
    BY <1>6 DEF Jump, Nav
  <2> QED
    BY <2>1, MoveSettles
<1>7. CASE NavBlankCell
  <2>1. PICK R \in Spreads :
          view' = Repainted(Recalculated(Rewritten(view), R), view, R, view.curRow)
    BY <1>7 DEF NavBlankCell
  <2> DEFINE w == Recalculated(Rewritten(view), R)
  <2>2. /\ Sound(w) /\ Still(w, view)
        /\ R = {} => /\ w.headers = view.headers /\ w.lit = view.lit
                     /\ \A y \in Lines : view.screen[y].row # view.curRow => w.screen[y] = view.screen[y]
    BY <1>4, WrittenDoes
  <2> HIDE DEF w
  <2>3. MoveTo(w, NRows, 0) = w
    BY ViewAssumption DEF MoveTo, Rows
  <2>4. Settles(Repainted(MoveTo(w, NRows, 0), view, R, view.curRow), view)
    BY <2>2, RepaintSettles
  <2> QED
    BY <2>1, <2>3, <2>4 DEF w
<1>8. CASE Commit
  <2>1. PICK R \in Spreads, p \in {<<view.curRow + 1, view.curCol>>, <<view.curRow, view.curCol + 1>>} :
          /\ typed = 0 => R = {}
          /\ view' = Repainted(MoveTo(IF typed = 0 THEN view ELSE Recalculated(Rewritten(view), R),
                                      p[1], p[2]), view, R, view.curRow)
    BY <1>8 DEF Commit, Nav
  <2> DEFINE w == IF typed = 0 THEN view ELSE Recalculated(Rewritten(view), R)
  <2>2. /\ Sound(w) /\ Still(w, view)
        /\ R = {} => /\ w.headers = view.headers /\ w.lit = view.lit
                     /\ \A y \in Lines : view.screen[y].row # view.curRow => w.screen[y] = view.screen[y]
    <3>1. CASE typed = 0
      BY <3>1 DEF Still
    <3>2. CASE typed # 0
      BY <1>4, <3>2, WrittenDoes
    <3> QED
      BY <3>1, <3>2
  <2> HIDE DEF w
  <2>3. Settles(Repainted(MoveTo(w, p[1], p[2]), view, R, view.curRow), view)
    BY <2>2, RepaintSettles
  <2> QED
    BY <2>1, <2>3 DEF w
<1>9. CASE NavRecalc
  BY <1>3, <1>4, <1>9, RecalculatedDoes DEF NavRecalc, Still
<1>10. CASE MenuBlankCell
  <2>1. PICK R \in Spreads : view' = Draw(Recalculated(Rewritten(view), R))
    BY <1>10 DEF MenuBlankCell, Finish, Nav
  <2> QED
    BY <1>3, <1>4, <2>1, WrittenDoes DEF Still
<1>11. CASE MenuClear \/ LoadFile
  <2> DEFINE w == Replaced(view)
             v == MoveTo(w, 0, 0)
  <2>1. view' = Draw(v)
    BY <1>11 DEF MenuClear, LoadFile, Finish, Nav
  <2>2. Sound(w)
    BY RelaidDoes DEF Replaced
  <2> HIDE DEF w
  <2>3. Sound(v) /\ InView(v)
    BY <2>2, MoveToDoes, MoveToInView, Sizes
  <2> HIDE DEF v
  <2> QED
    BY <1>2, <2>1, <2>3
<1>12. CASE Format
  BY <1>3, <1>12, RewrittenDoes DEF Format, Finish, Nav, Still
<1>13. CASE GlobalFormat
  BY <1>3, <1>13, RelaidDoes DEF GlobalFormat, Finish, Nav, SetFmt, Still
<1>14. CASE EditLines
  BY <1>3, <1>14, RelaidDoes DEF EditLines, Finish, Nav, Replaced, Still
<1>15. CASE Titles
  <2>1. PICK t \in {<<view.titleRows, view.curCol>>, <<view.curRow, view.titleCols>>,
                    <<view.curRow, view.curCol>>, <<0, 0>>} :
          view' = Draw(SetTitles(view, t[1], t[2]))
    BY <1>15 DEF Titles, Finish, Nav
  <2>2. /\ view.titleRows \in Rows /\ view.curRow \in Rows /\ view.curCol \in Cols
        /\ view.titleCols \in Nat
    BY DEF Sound, Views
  <2>3. t[1] \in Rows /\ t[2] \in Nat
    <3>1. 0 \in Rows /\ 0 \in Nat /\ view.curCol \in Nat
      BY <2>2, Sizes
    <3> QED
      BY <2>1, <2>2, <3>1
  <2> QED
    BY <1>3, <2>1, <2>3, SetTitlesDoes
<1>16. CASE GlobalWidth
  <2>1. CASE view' = Draw(view)
    BY <1>3, <2>1
  <2>2. CASE \E w \in Widths : view' = Draw(SetWidth(view, w))
    BY <1>3, <2>2, SetWidthDoes
  <2> QED
    BY <1>16, <2>1, <2>2 DEF GlobalWidth, Finish, Nav
<1>17. CASE RangeGiven
  <2>1. CASE view' = Draw(Replaced(view))
    BY <1>3, <2>1, RelaidDoes DEF Replaced, Still
  <2> QED
    BY <1>1, <1>17, <2>1 DEF RangeGiven, Finish, Nav, Ask
<1>18. CASE NavEscape \/ NavType \/ NavMenu \/ Key \/ EscapeEntry
            \/ MenuEscape \/ MenuAsk \/ MenuQuit \/ Drag \/ NameKey \/ NameEmpty \/ SaveFile
  <2>1. view' = view
    BY <1>18 DEF NavEscape, NavType, NavMenu, Key, EscapeEntry, MenuEscape, MenuAsk,
                 MenuQuit, Drag, NameKey, NameEmpty, SaveFile, Ask, Cancel, Nav
  <2> QED
    BY <1>1, <2>1
<1> QED
  BY <1>1, <1>5, <1>6, <1>7, <1>8, <1>9, <1>10, <1>11, <1>12, <1>13, <1>14, <1>15,
     <1>16, <1>17, <1>18 DEF Next, vars

LEMMA PromptStays == Prompted /\ [Next]_vars => Prompted'
<1> SUFFICES ASSUME Prompted, [Next]_vars PROVE Prompted'
  OBVIOUS
<1>1. CASE UNCHANGED <<mode, entry>>
  BY <1>1 DEF Prompted
<1>2. CASE mode' = "nav" /\ entry' \in {"blank", "report"}
  BY <1>2 DEF Prompted
<1>3. ASSUME NEW m \in Asking \cup Naming, mode' = m /\ entry' = m
      PROVE  Prompted'
  BY <1>3 DEF Prompted, Asking, Naming, Filing
<1>4. CASE mode' = "quit"
  BY <1>4 DEF Prompted
<1>5. CASE NavMove \/ NavBlankCell \/ NavRecalc \/ Key
  BY <1>1, <1>5 DEF NavMove, NavBlankCell, NavRecalc, Key
<1>6. CASE NavEscape
  BY <1>6 DEF NavEscape, Prompted
<1>7. CASE NavType
  BY <1>7 DEF NavType, Prompted
<1>8. CASE NavMenu \/ MenuAsk
  BY <1>3, <1>8 DEF NavMenu, MenuAsk, Ask, Asking, Naming, Filing
<1>9. CASE EscapeEntry \/ MenuEscape \/ NameEmpty
  BY <1>2, <1>9 DEF EscapeEntry, MenuEscape, NameEmpty, Cancel, Nav
<1>10. CASE Commit \/ Jump
  BY <1>2, <1>10 DEF Commit, Jump, Nav
<1>11. CASE MenuBlankCell \/ MenuClear \/ Format \/ GlobalFormat \/ EditLines \/ Titles
            \/ GlobalWidth \/ LoadFile
  BY <1>2, <1>11 DEF MenuBlankCell, MenuClear, Format, GlobalFormat, EditLines, Titles,
                     GlobalWidth, LoadFile, Finish, Nav
<1>12. CASE MenuQuit
  BY <1>4, <1>12 DEF MenuQuit
<1>13. CASE Drag
  BY <1>13 DEF Drag, Prompted
<1>14. CASE NameKey
  BY <1>3, <1>14 DEF NameKey
<1>15. CASE SaveFile
  BY <1>2, <1>4, <1>15 DEF SaveFile, Nav
<1>16. CASE RangeGiven
  BY <1>2, <1>3, <1>16 DEF RangeGiven, Finish, Nav, Ask, Naming
<1> QED
  BY <1>1, <1>5, <1>6, <1>7, <1>8, <1>9, <1>10, <1>11, <1>12, <1>13, <1>14, <1>15, <1>16
  DEF Next, vars

LEMMA SInvHolds == Spec => []SInv
<1>1. Init => SInv
  BY BlankAgrees DEF Init, SInv, Prompted
<1>2. SInv /\ [Next]_vars => SInv'
  <2> SUFFICES ASSUME SInv, [Next]_vars PROVE SInv'
    OBVIOUS
  <2>1. Settles(view', view)
    BY ViewSettles DEF SInv
  <2>2. Prompted'
    BY PromptStays DEF SInv
  <2> QED
    BY <2>1, <2>2 DEF SInv, Settles
<1> QED
  BY <1>1, <1>2, PTL DEF Spec

\* However little of it a key repaints, the screen is the sheet's between two keys:
\* every line shows its row as it is, the one cell in reverse is the cursor's, and
\* the status line, the column letters and the entry line agree (kalk.c: main).
THEOREM ScreenIsTheSheet == Spec => []ScreenAgrees
<1>1. SInv => ScreenAgrees
  BY DEF SInv, Agrees, Clean, CellOf, CellLit, Prompted, ScreenAgrees
<1> QED
  BY <1>1, SInvHolds, PTL

\* view_move_to scrolls by enough: the cell a key moves to is on the screen, at its
\* whole width where the locked columns leave that much room.
THEOREM MovesShowTheCell == Spec => MovesIntoView
<1>1. SInv /\ [Next]_vars =>
        [<<view'.curRow, view'.curCol>> # <<view.curRow, view.curCol>> => InView(view')]_vars
  BY ViewSettles DEF SInv, Settles
<1>2. MovesIntoView <=>
        [][<<view'.curRow, view'.curCol>> # <<view.curRow, view.curCol>> => InView(view')]_vars
  BY DEF MovesIntoView, InView
<1> QED
  BY <1>1, <1>2, SInvHolds, PTL DEF Spec
=============================================================================

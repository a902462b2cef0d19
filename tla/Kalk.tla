-------------------------------- MODULE Kalk --------------------------------
(***************************************************************************)
(* The program around the sheet (programs/kalk/kalk.c): one key at a time, *)
(* read in one of the modes navigating, typing, jumping and the states of  *)
(* the / menu, and the partial repaints each key gets away with.           *)
(*                                                                         *)
(* What the cells hold is Sheet's business.  Here a command changes the    *)
(* cells of some rows, and the recalculation after it those of any others. *)
(***************************************************************************)
EXTENDS View

CONSTANTS
  Widths,       \* column widths /GC is given
  EntryMax,     \* ENTRY_MAX less one, and the room of a name
  Spreads       \* the sets of rows a recalculation may move values in

ASSUME KalkAssumption ==
  /\ Widths \subseteq Nat \ {0} /\ 1 \in Widths
  /\ EntryMax \in Nat \ {0}
  /\ Spreads \subseteq SUBSET Rows

VARIABLES
  view,         \* what view.c keeps, and what is on the screen
  mode,         \* which part of the loop the next key goes to
  typed,        \* how many characters have been typed
  entry         \* what the entry line carries

vars == <<view, mode, typed, entry>>

Asking == {"menu", "F", "G", "GF", "I", "D", "S", "T", "M"}
Filing == {"SL", "SS", "SQ"}
Naming == {"GC", "from", "to"} \cup Filing
Modes == {"nav", "edit", "goto", "quit"} \cup Asking \cup Naming

-----------------------------------------------------------------------------
(* Commands on the cells. *)

\* Values moved in R: recalc has dirtied those rows.
Recalculated(v, R) == DirtyRows(Changed(v, R), R)

\* The cell under the cursor was written; the cache cannot see that.
Rewritten(v) == DirtyRow(Changed(v, {v.curRow}), v.curRow)

\* Every cell may have moved, or the sheet is another one.
Replaced(v) == DirtyAll(Changed(v, Rows))

RepaintedTwo(v, old, R, r) == DrawTwo(v, r)                        \* mutant
\* After a commit or a blank: the whole screen when a value moved elsewhere
\* or the view scrolled, or else the rows that can have changed.
Repainted(v, old, R, r) ==
  IF R # {} \/ Scrolled(old, v) THEN Draw(v)
  ELSE IF r = v.curRow THEN DrawOne(v, r) ELSE DrawTwo(v, r)

-----------------------------------------------------------------------------
(* Leaving a command. *)

Nav(v, line) ==
  /\ view' = v
  /\ mode' = "nav"
  /\ typed' = 0
  /\ entry' = line

\* A command that changed the sheet repaints all of it; a report stays.
Finish(v, line) == Nav(Draw(v), line)
Cancel == Nav(view, "blank")

Ask(m) ==
  /\ mode' = m
  /\ typed' = 0
  /\ entry' = m
  /\ UNCHANGED <<view>>

Init ==
  /\ view = Blank
  /\ mode = "nav"
  /\ typed = 0
  /\ entry = "blank"

-----------------------------------------------------------------------------
(* Navigating. *)

\* Where a key takes the cursor from here; a key at the edge takes it nowhere.
Steps(r, c) ==
  {<<r, c - 1>>, <<r, c + 1>>, <<r - 1, c>>, <<r + 1, c>>, <<0, 0>>,
   <<IF r > ViewRows THEN r - ViewRows ELSE 0, c>>,
   <<IF r + ViewRows < NRows THEN r + ViewRows ELSE NRows - 1, c>>}
  \cap (Rows \X Cols)

NavMove ==
  /\ mode = "nav"
  /\ \E p \in Steps(view.curRow, view.curCol) :
       LET v == MoveTo(view, p[1], p[2]) IN
       view' = IF Scrolled(view, v) THEN Draw(v) ELSE DrawTwo(v, view.curRow)
  /\ UNCHANGED <<mode, typed, entry>>

NavBlankCell ==
  /\ mode = "nav"
  /\ \E R \in Spreads :
       view' = Repainted(Recalculated(Rewritten(view), R), view, R, view.curRow)
  /\ UNCHANGED <<mode, typed, entry>>

NavRecalc ==
  /\ mode = "nav"
  /\ \E R \in Spreads : view' = Draw(Recalculated(view, R))
  /\ UNCHANGED <<mode, typed, entry>>

\* ESC leaves nothing, and says so.
NavEscape ==
  /\ mode = "nav"
  /\ entry' = "esc"
  /\ UNCHANGED <<view, mode, typed>>

\* A character, F2 with what the cell holds, or > with nothing yet.
NavType ==
  /\ mode = "nav"
  /\ \E m \in {"edit", "goto"}, n \in 0 .. EntryMax :
       /\ m = "goto" => n = 0
       /\ mode' = m
       /\ typed' = n
  /\ entry' = "typed"
  /\ UNCHANGED <<view>>

NavMenu == mode = "nav" /\ Ask("menu")

-----------------------------------------------------------------------------
(* Typing. *)

Typing == mode \in {"edit", "goto"}

Key ==
  /\ Typing
  /\ typed' \in {Min({typed + 1, EntryMax}), Max({typed - 1, 0})}
  /\ UNCHANGED <<view, mode, entry>>

EscapeEntry == Typing /\ Nav(view, "blank")

\* Return goes down and Tab goes right, whether anything was typed or not.
Commit ==
  /\ mode = "edit"
  /\ \E R \in Spreads, p \in {<<view.curRow + 1, view.curCol>>, <<view.curRow, view.curCol + 1>>} :
       LET written == IF typed = 0 THEN view ELSE Recalculated(Rewritten(view), R)
           v == MoveTo(written, p[1], p[2])
       IN /\ typed = 0 => R = {}
          /\ Nav(Repainted(v, view, R, view.curRow), "blank")

\* A name that is not a cell moves nothing; the repaint is made either way.
\* do_goto returns whether it scrolled.
Jump ==
  /\ mode = "goto"
  /\ \E p \in (Rows \X Cols) \cup {<<NRows, 0>>} :
       LET v == MoveTo(view, p[1], p[2]) IN
       Nav(IF Scrolled(view, v) THEN Draw(v) ELSE DrawTwo(v, view.curRow), "blank")

-----------------------------------------------------------------------------
(* The / menu. *)

\* ESC backs out of any of its states, and so does a key that is not asked for.
MenuEscape == mode \in Asking \cup Naming /\ Cancel

MenuAsk ==
  \/ mode = "menu" /\ \E m \in {"F", "G", "S", "I", "D", "from", "T", "M"} : Ask(m)
  \/ mode = "G" /\ \E m \in {"GC", "GF"} : Ask(m)
  \/ mode = "S" /\ \E m \in Filing : Ask(m)

MenuBlankCell ==
  /\ mode = "menu"
  /\ \E R \in Spreads : Finish(Recalculated(Rewritten(view), R), "blank")

MenuClear ==
  /\ mode = "menu"
  /\ Finish(MoveTo(Replaced(view), 0, 0), "blank")

MenuQuit ==
  /\ mode = "menu"
  /\ mode' = "quit"
  /\ UNCHANGED <<view, typed, entry>>

\* /F: this cell's format, and its row is dirty.
Format == mode = "F" /\ Finish(Rewritten(view), "blank")

GlobalFormat == mode = "GF" /\ Finish(SetFmt(view), "blank")

\* /IR /IC /DR /DC, and /R once both its ranges are in.
EditLines == mode \in {"I", "D"} /\ Finish(Replaced(view), "blank")

Titles ==
  /\ mode = "T"
  /\ \E t \in {<<view.titleRows, view.curCol>>, <<view.curRow, view.titleCols>>,
               <<view.curRow, view.curCol>>, <<0, 0>>} :
       Finish(SetTitles(view, t[1], t[2]), "blank")

\* /M hears none of the arrow keys: a key with no character is dropped before
\* the states of the menu are looked at.
Drag == mode = "M" /\ entry' = "M" /\ UNCHANGED <<view, mode, typed>>

NameKey ==
  /\ mode \in Naming
  /\ typed' \in {Min({typed + 1, EntryMax}), Max({typed - 1, 0})}
  /\ entry' = mode
  /\ UNCHANGED <<view, mode>>

\* An empty answer cancels.
NameEmpty == mode \in Naming \ {"GC"} /\ typed = 0 /\ Cancel

GlobalWidth ==
  /\ mode = "GC"
  /\ \/ typed = 0 /\ Finish(view, "blank")
     \/ typed > 0 /\ \E w \in Widths : Finish(SetWidth(view, w), "blank")

\* Loaded or not, the sheet has changed; the report outlives the repaint.
LoadFile ==
  /\ mode = "SL" /\ typed > 0
  /\ Finish(MoveTo(Replaced(view), 0, 0), "report")

\* /SQ leaves only when the save worked.
SaveFile ==
  /\ mode \in {"SS", "SQ"} /\ typed > 0
  /\ \/ Nav(view, "report")
     \/ /\ mode = "SQ"
        /\ mode' = "quit"
        /\ UNCHANGED <<view, typed, entry>>

\* A range that does not parse is reported and ends the command.
RangeGiven ==
  /\ mode \in {"from", "to"} /\ typed > 0
  /\ \/ Nav(view, "report")
     \/ mode = "from" /\ Ask("to")
     \/ mode = "to" /\ Finish(Replaced(view), "blank")

-----------------------------------------------------------------------------

Next ==
  \/ NavMove \/ NavBlankCell \/ NavRecalc \/ NavEscape \/ NavType \/ NavMenu
  \/ Key \/ EscapeEntry \/ Commit \/ Jump
  \/ MenuEscape \/ MenuAsk \/ MenuBlankCell \/ MenuClear \/ MenuQuit
  \/ Format \/ GlobalFormat \/ EditLines \/ Titles \/ Drag
  \/ NameKey \/ NameEmpty \/ GlobalWidth
  \/ LoadFile \/ SaveFile \/ RangeGiven

Spec == Init /\ [][Next]_vars

-----------------------------------------------------------------------------

\* view.c on its cache: "Anything else that can change what a row looks like
\* belongs on the list" of what invalidates it.  No cached line is stale.
CacheFresh == \A r \in Rows : view.cache[r] # "stale"

CellLit ==
  LET y == RowY(view, view.curRow)
      x == ColX(view, view.curCol)
  IN IF y = Off \/ x = Off THEN {} ELSE {<<y, x>>}

\* Between two keys the screen is the sheet: each line that has a row shows
\* that row as it is now, the one cell in reverse is the cursor's, the status
\* line names it, the column letters are those of the columns below, and the
\* entry line asks for what the next key will be taken as.
ScreenAgrees ==
  mode # "quit" =>
  /\ \A y \in Lines : RowAt(view, y) # NoRow =>
       view.screen[y] = [row |-> RowAt(view, y), good |-> TRUE]
  /\ {p \in view.lit : RowAt(view, p[1]) # NoRow} = CellLit
  /\ view.status = [row |-> view.curRow, col |-> view.curCol, good |-> TRUE]
  /\ view.headers = Layout(view)
  /\ CASE mode = "nav" -> entry \in {"blank", "esc", "report"}
       [] mode \in {"edit", "goto"} -> entry = "typed"
       [] OTHER -> entry = mode

\* A move brings the cell under the cursor onto the screen, whole, unless the
\* column is locked or wider than what the locked ones leave.
MovesIntoView ==
  [][<<view'.curRow, view'.curCol>> # <<view.curRow, view.curCol>> =>
       LET v == view' IN
       /\ RowY(v, v.curRow) # Off
       /\ RowAt(v, RowY(v, v.curRow)) = v.curRow
       /\ \/ ColX(v, v.curCol) # Off /\ ColX(v, v.curCol) + v.width <= ScreenCols
          \/ v.curCol < v.titleCols
          \/ (v.titleCols + 1) * v.width > ScreenCols]_vars

=============================================================================

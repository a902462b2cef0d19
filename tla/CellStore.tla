------------------------------ MODULE CellStore ------------------------------
(***************************************************************************)
(* The storage of the sheet (programs/kalk/cell.c): a grid that is never   *)
(* cleared as a whole, a bit per row that says the row has been cleared, a *)
(* watermark, and an arena that texts are only ever added to.              *)
(*                                                                         *)
(* A store is a record, so that the loops of sheet.c can be folds.         *)
(***************************************************************************)
EXTENDS CellText

CONSTANTS
  ArenaBytes,  \* ARENA_BYTES
  TextMax,     \* CELL_TEXT_MAX
  Formats      \* format codes; "none" is a cell nobody formatted

ASSUME CellStoreAssumption ==
  /\ ArenaBytes \in Nat \ {0}
  /\ TextMax \in Nat \ {0}
  /\ "none" \in Formats

Flag == {"ERROR", "NA"}
CellTypes == {"empty", "number", "label", "formula"}
Cell == [type : CellTypes, text : 0 .. ArenaBytes, value : Int,
         flags : SUBSET Flag, fmt : Formats]

\* Sixteen zero bytes, and what a row may hold before it is cleared.
ZeroCell ==
  [type |-> "empty", text |-> 0, value |-> 0, flags |-> {}, fmt |-> "none"]
Garbage == [ZeroCell EXCEPT !.type = "number", !.value = 99]

\* cell_init: MEM_ALLOC does not clear what it hands out.
FreshStore ==
  [grid   |-> [r \in Rows |-> [c \in Cols |-> Garbage]],
   live   |-> {},
   maxRow |-> 0,
   maxCol |-> 0,
   any    |-> FALSE,
   arena  |-> <<>>,
   next   |-> 1]

RowEmpty(st, r) == r \notin st.live

CellGet(st, r, c) ==
  IF r \notin Rows \/ c \notin Cols \/ RowEmpty(st, r)
  THEN ZeroCell ELSE st.grid[r][c]

RowMadeLive(st, r) ==
  IF r \in st.live THEN st
  ELSE [st EXCEPT !.grid[r] = [c \in Cols |-> ZeroCell], !.live = @ \cup {r}]

CellPut(st, r, c, cl) ==
  IF r \notin Rows \/ c \notin Cols THEN st
  ELSE LET lv == RowMadeLive(st, r) IN
       [lv EXCEPT !.grid[r][c] = cl,
                  !.any = TRUE,
                  !.maxRow = IF lv.any /\ r <= @ THEN @ ELSE r,
                  !.maxCol = IF lv.any /\ c <= @ THEN @ ELSE c]

\* Rows are forgotten, not cleared; the arena starts again from its base.
ClearAll(st) ==
  [st EXCEPT !.live = {}, !.maxRow = 0, !.maxCol = 0, !.any = FALSE,
             !.next = 1, !.arena = <<>>]

\* Where cell_text_put would put the text: 0 when it does not fit.
TextSlot(st, s) == IF st.next + Length(s) + 1 > ArenaBytes THEN 0 ELSE st.next

TextPut(st, s) ==
  IF TextSlot(st, s) = 0 THEN st
  ELSE [st EXCEPT !.arena = [o \in DOMAIN @ \cup {st.next} |->
                               IF o = st.next THEN s ELSE @[o]],
                  !.next = @ + Length(s) + 1]

TextGet(st, off) == IF off = 0 \/ off >= st.next THEN <<>> ELSE st.arena[off]

TextOf(st, r, c) == TextGet(st, CellGet(st, r, c).text)

\* What a sheet shows of a store: type, text, value and flags of every cell.
Contents(st) ==
  [r \in Rows |-> [c \in Cols |->
     LET cl == CellGet(st, r, c) IN
     [type |-> cl.type, text |-> TextGet(st, cl.text), value |-> cl.value,
      flags |-> cl.flags, fmt |-> cl.fmt]]]

=============================================================================

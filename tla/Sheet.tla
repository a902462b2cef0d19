------------------------------- MODULE Sheet -------------------------------
(***************************************************************************)
(* The document of kalk (programs/kalk/sheet.c) with the recalculation of  *)
(* kalk.c: typing into a cell, inserting, deleting and swapping lines with *)
(* the references of every formula following, replicating a block, saving  *)
(* as CSV and loading it again.                                            *)
(*                                                                         *)
(* Each command is one action, the call into sheet.c and the recalculation *)
(* kalk.c always makes after it.  The loops over cells are folds in the    *)
(* order of the loops, so what a later step of a loop reads is what an     *)
(* earlier one has left.                                                   *)
(***************************************************************************)
EXTENDS Expr

CONSTANTS
  RefRoom,        \* what rewrite_refs keeps free for one more reference
  RecalcPasses,   \* RECALC_PASSES
  Sessions,       \* the sheets a session may start with, each with the file on the card
  Typed,          \* the lines a user types
  TypedAt,         \* the cells they are typed into
  Blocks,         \* the ranges named in /R
  MaxOps          \* how many commands a session has

ASSUME SheetAssumption ==
  /\ RefRoom \in Nat /\ MaxOps \in Nat
  /\ RecalcPasses \in Nat \ {0}

VARIABLES
  store,      \* the cells and their texts
  file,       \* the CSV file on the card
  saved,      \* what the sheet was when the file was last written whole
  op,         \* the last command, with its arguments and its answer
  ops         \* how many there have been

vars == <<store, file, saved, op, ops>>

-----------------------------------------------------------------------------
(* Cells and the recalculation. *)

Placed(st, r, c, cl, s) ==
  CellPut(TextPut(st, s), r, c, [cl EXCEPT !.text = TextSlot(st, s)])

Emptied(cl) == [cl EXCEPT !.type = "empty", !.flags = {}, !.text = 0, !.value = 0]

Answered(cl, answer) ==
  [cl EXCEPT !.flags = IF answer.status = "OK" THEN {} ELSE {answer.status},
             !.value = IF answer.status = "OK" THEN answer.value ELSE 0]

\* sheet_set_text: the rule for a typed line, and for a field of a file.
SetText(st, r, c, s) ==
  LET cl == [CellGet(st, r, c) EXCEPT !.flags = {}] IN
  CASE s = <<>> -> CellPut(st, r, c, Emptied(cl))
    [] s # <<>> /\ Head(s) = Quote ->
         Placed(st, r, c, [cl EXCEPT !.type = "label"], Tail(s))
    [] IsFormula(s) ->
         Placed(st, r, c, Answered([cl EXCEPT !.type = "formula"], Eval(st, s)), s)
    [] IsNumber(s) ->
         CellPut(st, r, c, [cl EXCEPT !.type = "number", !.text = 0,
                                      !.value = ValueOf(s[1])])
    [] OTHER -> Placed(st, r, c, [cl EXCEPT !.type = "label"], s)

\* The cells a sweep visits, in its order: up to the watermark, row by row,
\* leaving out the rows nothing was written to.
Sites(st) ==
  LET w == st.maxCol + 1
      all == [i \in 1 .. (st.maxRow + 1) * w |-> <<(i - 1) \div w, (i - 1) % w>>]
  IN IF ~ st.any THEN <<>> ELSE SelectSeq(all, LAMBDA p : ~ RowEmpty(st, p[1]))

RecalcPass(st) ==
  LET Recalculated(s, p) ==
        LET cl == CellGet(s, p[1], p[2]) IN
        IF cl.type # "formula" THEN s
        ELSE CellPut(s, p[1], p[2], Answered(cl, Eval(s, TextGet(s, cl.text))))
  IN FoldLeft(Recalculated, st, Sites(st))

RecalcOnce(st) == RecalcPass(st)                                  \* mutant
\* A pass that changes nothing ends the loop; more of them change nothing.
Recalc(st) ==
  FoldLeft(LAMBDA s, i : RecalcPass(s), st, [i \in 1 .. RecalcPasses |-> i])

-----------------------------------------------------------------------------
(* Rewriting references. *)

Limit(axis) == IF axis = "row" THEN NRows ELSE NCols
Shift(axis, at, ins) == [mode |-> "shift", axis |-> axis, at |-> at, ins |-> ins]
Swap(axis, at, to) == [mode |-> "swap", axis |-> axis, at |-> at, to |-> to]
Offset(dr, dc) == [mode |-> "offset", drow |-> dr, dcol |-> dc]

Clamp(v, lim) == IF v < 0 THEN 0 ELSE IF v >= lim THEN lim - 1 ELSE v

RefApplyPast(w, t) ==                                             \* mutant
  IF w.mode = "shift" THEN [t EXCEPT ![w.axis] = IF @ <= w.at THEN @ ELSE IF w.ins THEN @ + 1 ELSE @ - 1]
  ELSE t
\* Insert shifts at the line, delete shifts past it, and both ignore the
\* dollars; only a replicate looks at them.
RefApply(w, t) ==
  CASE w.mode = "swap" ->
         [t EXCEPT ![w.axis] = IF @ = w.at THEN w.to ELSE IF @ = w.to THEN w.at ELSE @]
    [] w.mode = "shift" /\ w.ins ->
         [t EXCEPT ![w.axis] = IF @ >= w.at /\ @ + 1 < Limit(w.axis) THEN @ + 1 ELSE @]
    [] w.mode = "shift" /\ ~ w.ins ->
         [t EXCEPT ![w.axis] = IF @ > w.at THEN @ - 1 ELSE @]
    [] OTHER ->
         [t EXCEPT !.row = IF t.ar THEN @ ELSE Clamp(@ + w.drow, NRows),
                   !.col = IF t.ac THEN @ ELSE Clamp(@ + w.dcol, NCols)]

\* The walk is by characters: the tail of an exponent is rewritten too.
RewriteLexeme(w, t) ==
  IF RefIn(t) = {} THEN <<t>>
  ELSE LET n == RefApply(w, CHOOSE u \in RefIn(t) : TRUE) IN
       IF IsRef(t) THEN <<n>>
       ELSE IF n.col = ExpCol THEN <<Exp(t.man, n.row + 1)>>
       ELSE <<Num(t.man), n>>

RewriteRefs(w, s) == FlattenSeq([i \in DOMAIN s |-> RewriteLexeme(w, s[i])])

\* Room is asked for before a reference is written, for the longest one.
RewriteFits(w, s) ==
  \A i \in DOMAIN s :
    LET start == Length(RewriteRefs(w, SubSeq(s, 1, i - 1))) IN
    IF RefIn(s[i]) = {} THEN start + Width(s[i]) < TextMax
    ELSE start + (IF IsRef(s[i]) THEN 0 ELSE 1) + RefRoom < TextMax

FixFormulas(st, w) ==
  LET Fixed(s, p) ==
        LET cl == CellGet(s, p[1], p[2])
            src == TextGet(s, cl.text)
        IN IF cl.type # "formula" THEN s
           ELSE IF ~ RewriteFits(w, src)
                THEN CellPut(s, p[1], p[2], [cl EXCEPT !.flags = @ \cup {"ERROR"}])
           ELSE IF RewriteRefs(w, src) = src THEN s
           ELSE Placed(s, p[1], p[2], cl, RewriteRefs(w, src))
  IN FoldLeft(Fixed, st, Sites(st))

-----------------------------------------------------------------------------
(* Structural edits. *)

PutEmpty(st, r, c) == CellPut(st, r, c, Emptied(CellGet(st, r, c)))
CopyCell(st, dr, dc, sr, sc) == CellPut(st, dr, dc, CellGet(st, sr, sc))
SwapCells(st, ar, ac, br, bc) ==
  CellPut(CellPut(st, ar, ac, CellGet(st, br, bc)), br, bc, CellGet(st, ar, ac))

Up(a, b) == [i \in 1 .. (b - a + 1) |-> a + i - 1]
Down(b, a) == [i \in 1 .. (b - a + 1) |-> b - i + 1]

\* A loop over the columns of the watermark, as it stood before the command.
LiveCols(st) == Up(0, st.maxCol)
LiveRows(st) == SelectSeq(Up(0, st.maxRow), LAMBDA r : ~ RowEmpty(st, r))

EmptyRow(st0, st, r) ==
  IF RowEmpty(st, r) THEN st ELSE FoldLeft(LAMBDA s, c : PutEmpty(s, r, c), st, LiveCols(st0))

\* Two empty rows need nothing done to them.
CopyRow(st0, st, to, from) ==
  IF RowEmpty(st, to) /\ RowEmpty(st, from) THEN st
  ELSE FoldLeft(LAMBDA s, c : CopyCell(s, to, c, from, c), st, LiveCols(st0))

InsertRow(st, at) ==
  LET last == Min({st.maxRow, NRows - 2})
      moved == FoldLeft(LAMBDA s, r : CopyRow(st, s, r + 1, r), st, Down(last, at))
  IN IF ~ st.any THEN st
     ELSE FixFormulas(EmptyRow(st, moved, at), Shift("row", at, TRUE))

DeleteRow(st, at) ==
  LET moved == FoldLeft(LAMBDA s, r : CopyRow(st, s, r, r + 1), st, Up(at, st.maxRow - 1))
  IN IF ~ st.any THEN st
     ELSE FixFormulas(EmptyRow(st, moved, st.maxRow), Shift("row", at, FALSE))

InsertCol(st, at) ==
  LET last == Min({st.maxCol, NCols - 2})
      InRow(s, r) ==
        PutEmpty(FoldLeft(LAMBDA t, c : CopyCell(t, r, c + 1, r, c), s, Down(last, at)), r, at)
  IN IF ~ st.any THEN st
     ELSE FixFormulas(FoldLeft(InRow, st, LiveRows(st)), Shift("col", at, TRUE))

DeleteCol(st, at) ==
  LET InRow(s, r) ==
        PutEmpty(FoldLeft(LAMBDA t, c : CopyCell(t, r, c, r, c + 1), s, Up(at, st.maxCol - 1)),
                 r, st.maxCol)
  IN IF ~ st.any THEN st
     ELSE FixFormulas(FoldLeft(InRow, st, LiveRows(st)), Shift("col", at, FALSE))

SwapRows(st, a, b) ==
  LET swapped == FoldLeft(LAMBDA s, c : SwapCells(s, a, c, b, c), st, LiveCols(st)) IN
  FixFormulas(IF ~ st.any \/ (RowEmpty(st, a) /\ RowEmpty(st, b)) THEN st ELSE swapped,
              Swap("row", a, b))

SwapCols(st, a, b) ==
  LET swapped == FoldLeft(LAMBDA s, r : SwapCells(s, r, a, r, b), st, LiveRows(st)) IN
  FixFormulas(IF st.any THEN swapped ELSE st, Swap("col", a, b))

-----------------------------------------------------------------------------
(* Replicate.  A block is [r1, c1, r2, c2]. *)

Height(b) == b.r2 - b.r1 + 1
Breadth(b) == b.c2 - b.c1 + 1
Single(b) == b.r1 = b.r2 /\ b.c1 = b.c2

\* A single cell as the target is where the block goes; a range is filled.
Extent(b, t) ==
  IF Single(t) THEN [t EXCEPT !.r2 = t.r1 + Height(b) - 1, !.c2 = t.c1 + Breadth(b) - 1]
  ELSE t

ReplicateCell(st, sr, sc, dr, dc) ==
  LET cl == CellGet(st, sr, sc)
      src == TextGet(st, cl.text)
      w == Offset(dr - sr, dc - sc)
  IN CASE sr = dr /\ sc = dc -> st
       [] cl.type = "formula" /\ RewriteFits(w, src) -> Placed(st, dr, dc, cl, RewriteRefs(w, src))
       [] cl.type = "formula" -> CellPut(st, dr, dc, [cl EXCEPT !.flags = @ \cup {"ERROR"}])
       [] cl.type = "label" -> Placed(st, dr, dc, cl, src)
       [] OTHER -> CellPut(st, dr, dc, cl)

Forwards(from, to, e1, e2) == Up(e1, e2)                          \* mutant
Order(from, to, e1, e2) == IF to > from THEN Down(e2, e1) ELSE Up(e1, e2)

\* The direction is chosen by where the target lies; what falls off the
\* grid is left out.
Replicate(st, b, t) ==
  LET e == Extent(b, t)
      rows == Order(b.r1, t.r1, e.r1, e.r2)
      cols == Order(b.c1, t.c1, e.c1, e.c2)
      InRow(s, dr) ==
        FoldLeft(LAMBDA u, dc : ReplicateCell(u, b.r1 + ((dr - e.r1) % Height(b)),
                                                 b.c1 + ((dc - e.c1) % Breadth(b)), dr, dc),
                 s, SelectSeq(cols, LAMBDA c : c \in Cols))
  IN FoldLeft(InRow, st, SelectSeq(rows, LAMBDA r : r \in Rows))

-----------------------------------------------------------------------------
(* Files.  A file is its lines, each a sequence of fields, and whether the *)
(* last line ends in a newline.                                            *)

Field(s, quoted) == [text |-> s, quoted |-> quoted]
NoField == Field(<<>>, FALSE)
EmptyFile == [lines |-> <<>>, newline |-> TRUE]

Special(s) == \E i \in DOMAIN s : s[i] \in {Comma, Quote}
QuotesForCommas(s) == Special(s)                                  \* mutant
NeedsQuotes(s) == s # <<>> /\ (Special(s) \/ IsFormula(s) \/ IsNumber(s))

FieldOf(st, r, c) ==
  LET cl == CellGet(st, r, c)
      s == TextGet(st, cl.text)
  IN CASE cl.type = "label"   -> Field(s, NeedsQuotes(s))
       [] cl.type = "formula" -> Field(s, Special(s))
       [] cl.type = "number"  -> Field(<<Num(cl.value)>>, FALSE)
       [] OTHER               -> NoField

\* sheet_save_csv: up to the watermark, whatever is empty there.
CsvOf(st) ==
  IF ~ st.any THEN EmptyFile
  ELSE [lines |-> [r \in 1 .. st.maxRow + 1 |->
                     [c \in 1 .. st.maxCol + 1 |-> FieldOf(st, r - 1, c - 1)]],
        newline |-> TRUE]

Clip(s, n) ==
  SubSeq(s, 1, Max({0} \cup {i \in DOMAIN s : Length(SubSeq(s, 1, i)) <= n}))

\* One field: a quoted one is given back the quote that forces a label, in
\* the same number of characters; the last one of a file with no newline
\* after it is read as it stands.
LoadField(st, r, c, f, last) ==
  LET s == Clip(f.text, TextMax - 1) IN
  IF s = <<>> /\ ~ f.quoted THEN st
  ELSE IF f.quoted /\ ~ last
       THEN SetText(st, r, c, <<Quote>> \o Clip(s, TextMax - 2))
  ELSE SetText(st, r, c, s)

TooBig(f) ==
  \/ \E l \in DOMAIN f.lines : Len(f.lines[l]) > NCols
  \/ Len(f.lines) - (IF f.newline THEN 0 ELSE 1) >= NRows

LoadAll(st, f) ==
  LET n == Len(f.lines)
      Final(l, i) == ~ f.newline /\ l = n /\ i = Len(f.lines[l])
      Line(s, l) ==
        FoldLeft(LAMBDA t, i : LoadField(t, l - 1, i - 1, f.lines[l][i], Final(l, i)),
                 s, Up(1, Len(f.lines[l])))
  IN FoldLeft(Line, ClearAll(st), Up(1, n))

-----------------------------------------------------------------------------
(* What is compared: the types and the texts, and the number of a number. *)

Image(st) ==
  [r \in Rows |-> [c \in Cols |->
     LET cl == CellGet(st, r, c) IN
     [type |-> cl.type, text |-> TextGet(st, cl.text),
      value |-> IF cl.type = "number" THEN cl.value ELSE 0]]]

Nothing == [tall |-> FALSE, image |-> <<>>]

-----------------------------------------------------------------------------
(* The commands. *)

Init ==
  /\ \E s \in Sessions : store = Recalc(s[1]) /\ file = s[2]
  /\ saved = Nothing
  /\ op = [cmd |-> "none"]
  /\ ops = 0

\* Every command but a save ends in a recalculation.
Command(what, st) ==
  /\ ops < MaxOps
  /\ ops' = ops + 1
  /\ op' = what
  /\ store' = Recalc(st)

Edits(what, st) == Command(what, st) /\ UNCHANGED <<file, saved>>

Type(r, c, s) ==
  Edits([cmd |-> "type", r |-> r, c |-> c, s |-> s], SetText(store, r, c, s))

BlankCell(r, c) == Edits([cmd |-> "blank", r |-> r, c |-> c], PutEmpty(store, r, c))

ClearSheet == Edits([cmd |-> "clear"], ClearAll(store))

InsertRowAt(at) == Edits([cmd |-> "insert", axis |-> "row", at |-> at], InsertRow(store, at))
InsertColAt(at) == Edits([cmd |-> "insert", axis |-> "col", at |-> at], InsertCol(store, at))
DeleteRowAt(at) == Edits([cmd |-> "delete", axis |-> "row", at |-> at], DeleteRow(store, at))
DeleteColAt(at) == Edits([cmd |-> "delete", axis |-> "col", at |-> at], DeleteCol(store, at))

\* The two neighbours of a line are what /M trades it with.
SwapRowsAt(a, b) ==
  /\ b \in {a - 1, a + 1}
  /\ Edits([cmd |-> "swap", axis |-> "row", at |-> a, to |-> b], SwapRows(store, a, b))
SwapColsAt(a, b) ==
  /\ b \in {a - 1, a + 1}
  /\ Edits([cmd |-> "swap", axis |-> "col", at |-> a, to |-> b], SwapCols(store, a, b))

ReplicateTo(b, t) ==
  Edits([cmd |-> "replicate", from |-> b, to |-> t], Replicate(store, b, t))

\* Whatever of these lines was on the card when a save stopped.
Cut(lines) == {[EmptyFile EXCEPT !.lines = SubSeq(lines, 1, n)] : n \in 0 .. Len(lines)}

\* Creating truncates, so from then on what was there is gone; a write that
\* comes up short leaves what had been flushed, and a create that fails may
\* already have freed the old file's clusters.
Save ==
  /\ ops < MaxOps
  /\ ops' = ops + 1
  /\ UNCHANGED store
  /\ \/ /\ op' = [cmd |-> "save", result |-> "ok"]
        /\ file' = CsvOf(store)
        /\ saved' = [tall |-> store.any /\ store.maxRow = NRows - 1, image |-> Image(store)]
     \/ /\ op' = [cmd |-> "save", result |-> "io"]
        /\ file' \in Cut(CsvOf(store).lines)
        /\ saved' = Nothing
     \/ /\ op' = [cmd |-> "save", result |-> "nofile"]
        /\ \/ UNCHANGED <<file, saved>>
           \/ file' \in Cut(file.lines) /\ saved' = Nothing

\* The sheet is cleared as soon as the file is open.
Load ==
  /\ UNCHANGED <<file, saved>>
  /\ \/ /\ ~ TooBig(file)
        /\ Command([cmd |-> "load", result |-> "ok"], LoadAll(store, file))
     \/ /\ TooBig(file)
        /\ Command([cmd |-> "load", result |-> "big"], ClearAll(store))
     \/ Command([cmd |-> "load", result |-> "io"], ClearAll(store))
     \/ /\ ops < MaxOps
        /\ ops' = ops + 1
        /\ op' = [cmd |-> "load", result |-> "nofile"]
        /\ UNCHANGED store

Next ==
  \/ \E p \in TypedAt : (\E s \in Typed : Type(p[1], p[2], s)) \/ BlankCell(p[1], p[2])
  \/ ClearSheet
  \/ \E at \in Rows : InsertRowAt(at) \/ DeleteRowAt(at)
  \/ \E at \in Cols : InsertColAt(at) \/ DeleteColAt(at)
  \/ \E a, b \in Rows : SwapRowsAt(a, b)
  \/ \E a, b \in Cols : SwapColsAt(a, b)
  \/ \E b, t \in Blocks : ReplicateTo(b, t)
  \/ Save
  \/ Load

Spec == Init /\ [][Next]_vars

-----------------------------------------------------------------------------
(* Structural edits and replicates, as moves of whole cells. *)

Places == Rows \X Cols
Nowhere == <<>>

\* Where an edit takes the line it is given; a deleted line, and one pushed
\* off the far edge, go nowhere.
LineTo(o, v) ==
  CASE o.cmd = "swap"   -> IF v = o.at THEN o.to ELSE IF v = o.to THEN o.at ELSE v
    [] o.cmd = "insert" -> IF v >= o.at THEN v + 1 ELSE v
    [] OTHER            -> IF v = o.at THEN Limit(o.axis) ELSE IF v > o.at THEN v - 1 ELSE v

PlaceTo(o, p) ==
  LET q == IF o.axis = "row" THEN <<LineTo(o, p[1]), p[2]>> ELSE <<p[1], LineTo(o, p[2])>> IN
  IF q \in Places THEN q ELSE Nowhere

\* A reference names the same cell as before, or the same place when that
\* cell is gone.
Follow(o, t) ==
  LET q == PlaceTo(o, <<t.row, t.col>>) IN
  IF ~ IsRef(t) \/ q = Nowhere THEN t ELSE [t EXCEPT !.row = q[1], !.col = q[2]]

\* A copied reference keeps its distance, but for the parts with a dollar.
Carry(dr, dc, t) ==
  IF ~ IsRef(t) THEN t
  ELSE [t EXCEPT !.row = IF t.ar THEN @ ELSE Min({Max({@ + dr, 0}), NRows - 1}),
                 !.col = IF t.ac THEN @ ELSE Min({Max({@ + dc, 0}), NCols - 1})]

Renamed(F(_), cl) ==
  IF cl.type = "formula" THEN [cl EXCEPT !.text = [i \in DOMAIN @ |-> F(@[i])]] ELSE cl

\* A cell as a user knows it, but for what a formula works out to; an empty
\* one looks the same in every format, and a line moved away leaves its own.
Shown(st, p) ==
  LET cl == CellGet(st, p[1], p[2]) IN
  [type |-> cl.type, text |-> TextGet(st, cl.text),
   fmt |-> IF cl.type = "empty" THEN "none" ELSE cl.fmt,
   value |-> IF cl.type = "number" THEN cl.value ELSE 0]

(***************************************************************************)
(* The known gaps.  The tail of an exponent is taken for a reference, a    *)
(* formula too near the length limit keeps its text, and the arena never   *)
(* gives a text back: the model keeps all three, and the properties leave  *)
(* out the sheets they touch.                                              *)
(***************************************************************************)
Formulas(st) == {p \in Places : CellGet(st, p[1], p[2]).type = "formula"}
Mistakable(st) ==
  \E p \in Formulas(st) : LET s == TextOf(st, p[1], p[2]) IN
    \E i \in DOMAIN s : IsExp(s[i]) /\ RefIn(s[i]) # {}
LongFormula(st) ==
  \E p \in Formulas(st) : LET s == TextOf(st, p[1], p[2]) IN
    (\E i \in DOMAIN s : IsRef(s[i])) /\ Length(s) + RefRoom > TextMax
\* Not room for the texts of these cells once more.
TextBytes(st, p) == Length(TextOf(st, p[1], p[2])) + 1
ArenaLow(st, P) == st.next + MapThenSumSet(LAMBDA p : TextBytes(st, p), P) > ArenaBytes

\* Deleting a line past the last used one empties the last used one.
PastTheEnd(st, o) ==
  o.cmd = "delete" /\ o.at > (IF o.axis = "row" THEN st.maxRow ELSE st.maxCol)

Follows(o) ==
  /\ \A p \in Places : LET q == PlaceTo(o, p) IN
       q # Nowhere => Shown(store', q) = Renamed(LAMBDA t : Follow(o, t), Shown(store, p))
  /\ \A q \in Places \ {PlaceTo(o, p) : p \in Places} : Shown(store', q).type = "empty"

Structural == {"insert", "delete", "swap"}

\* Inserting, deleting and swapping move every cell once, whole, and every
\* reference in every formula follows the cell it named.
EditsFollow ==
  [][LET o == op' IN
     o.cmd \in Structural =>
       \/ Mistakable(store) \/ LongFormula(store)
       \/ ArenaLow(store, Formulas(store))
       \/ PastTheEnd(store, o)
       \/ Follows(o)]_vars

\* sheet.h of a delete: "everything after it moves", with no exception for
\* a line past the last used one, where there is nothing to move.
DeletesFollow ==
  [][LET o == op' IN
     o.cmd = "delete" =>
       \/ Mistakable(store) \/ LongFormula(store)
       \/ ArenaLow(store, Formulas(store))
       \/ Follows(o)]_vars

Within(b, p) == p[1] \in b.r1 .. b.r2 /\ p[2] \in b.c1 .. b.c2

\* A fill that overlaps its block out of step with it reads what it wrote.
OutOfStep(b, t) ==
  /\ ~ Single(t)
  /\ \E p \in Places : Within(b, p) /\ Within(t, p)
  /\ Height(t) > Height(b) \/ Breadth(t) > Breadth(b)
  /\ (b.r1 - t.r1) % Height(b) # 0 \/ (b.c1 - t.c1) % Breadth(b) # 0

\* The cell of the block that lands on p.
SourceOf(b, t, p) ==
  <<b.r1 + ((p[1] - t.r1) % Height(b)), b.c1 + ((p[2] - t.c1) % Breadth(b))>>
Landing(b, t) == {p \in Places : Within(Extent(b, t), p)}

Copied(b, t) ==
  \A p \in Places :
    LET s == SourceOf(b, t, p) IN
    Shown(store', p) =
      IF p \in Landing(b, t)
      THEN Renamed(LAMBDA t1 : Carry(p[1] - s[1], p[2] - s[2], t1), Shown(store, s))
      ELSE Shown(store, p)

\* A replicate copies the block as it was before the command, overlapping
\* or not, anchored parts of references staying where they are, and nothing
\* outside the target changes.
ReplicaRight ==
  [][LET o == op' IN
     o.cmd = "replicate" =>
       \/ Mistakable(store) \/ LongFormula(store)
       \/ store.next + MapThenSumSet(LAMBDA p : TextBytes(store, SourceOf(o.from, o.to, p)),
                                     Landing(o.from, o.to)) > ArenaBytes
       \/ OutOfStep(o.from, o.to)
       \/ Copied(o.from, o.to)]_vars

\* Three things do not come back: a label with nothing in it, the last
\* character of a quoted text of full length, and a formula with a comma or
\* a quote in it, which is quoted and so comes back as a label.
Returned(image) ==
  [r \in Rows |-> [c \in Cols |->
     LET i == image[r][c] IN
     CASE i.type = "label" /\ i.text = <<>> -> [i EXCEPT !.type = "empty"]
       [] i.type = "formula" /\ Special(i.text) ->
            [i EXCEPT !.type = "label", !.text = Clip(@, TextMax - 2)]
       [] i.type = "label" /\ NeedsQuotes(i.text) -> [i EXCEPT !.text = Clip(@, TextMax - 2)]
       [] OTHER -> i]]

NoCells == [r \in Rows |-> [c \in Cols |-> [type |-> "empty", text |-> <<>>, value |-> 0]]]

\* What was saved whole loads as the same sheet, but for those three and
\* unless its last row is in use; a load that is cut short leaves the sheet
\* empty.
RoundTrip ==
  [][LET o == op' IN
     o.cmd = "load" =>
       /\ saved # Nothing /\ o.result \in {"ok", "big"} =>
            IF saved.tall THEN Image(store') = NoCells
            ELSE o.result = "ok" /\ Image(store') = Returned(saved.image)
       /\ o.result \in {"io", "big"} => Image(store') = NoCells]_vars

\* sheet.h of the files of kalk: "a sheet written here always reads back as
\* itself".  So every formula of a sheet saved whole is one again when the
\* file is loaded.
FormulasReturn ==
  [][LET o == op' IN
     o.cmd = "load" /\ o.result = "ok" /\ saved # Nothing =>
       \A p \in Places :
         saved.image[p[1]][p[2]].type = "formula" =>
           Image(store')[p[1]][p[2]] = saved.image[p[1]][p[2]]]_vars

\* The cells a formula reads.
ReadsOf(st, p) ==
  LET s == TextOf(st, p[1], p[2])
      RangeFrom(i) ==
        IF i + 2 \in DOMAIN s /\ WholeRange(Past(Start(s), i - 1))
        THEN RangeOf(Past(Start(s), i - 1)) ELSE [r1 |-> 1, r2 |-> 0, c1 |-> 1, c2 |-> 0]
  IN {<<s[i].row, s[i].col>> : i \in {j \in DOMAIN s : IsRef(s[j])}} \cup
     {q \in Places : \E i \in DOMAIN s : Within(RangeFrom(i), q)}

\* The formulas that some chain of reads leads on from with at least n
\* reads of a cell that comes later in the sweep, or of themselves.
Before(p, q) == p[1] < q[1] \/ (p[1] = q[1] /\ p[2] <= q[2])
RECURSIVE Feeds(_, _)
Feeds(reads, S) ==
  LET more == {p \in DOMAIN reads : reads[p] \cap S # {}} IN
  IF more \subseteq S THEN S ELSE Feeds(reads, S \cup more)
RECURSIVE Late(_, _)
Late(reads, n) ==
  IF n = 0 THEN DOMAIN reads
  ELSE LET later == Late(reads, n - 1) IN
       Feeds(reads, {p \in DOMAIN reads : \E q \in reads[p] \cap later : Before(p, q)})

\* RecalcPasses is enough passes for every chain of formulas.
PassesEnough(st) ==
  LET reads == [p \in Formulas(st) |-> ReadsOf(st, p)] IN Late(reads, RecalcPasses) = {}

\* After a command no formula is stale: each shows what its text works out
\* to, unless some chain of formulas runs on against the sweep for as many
\* steps as there are passes, as a cycle always does.
Settled ==
  PassesEnough(store) =>
    \A p \in Formulas(store) :
      LET cl == CellGet(store, p[1], p[2]) IN
      cl = Answered(cl, Eval(store, TextOf(store, p[1], p[2])))

=============================================================================

------------------------------- MODULE CCursor -------------------------------
(***************************************************************************)
(* The text console (runtime/console.c) and its blinking cursor            *)
(* (runtime/ccursor.s).  The console draws through VERA's address registers*)
(* and data ports, one register at a time; the cursor draws through the    *)
(* same registers from the VSYNC interrupt, between any two of those       *)
(* accesses.  A console call is the sequence, `todo`, of the accesses and  *)
(* assignments it makes; the interrupt is one step.                        *)
(***************************************************************************)
EXTENDS Integers, Sequences, SequencesExt

CONSTANTS
  Cols, Rows,  \* CON_COLS, CON_ROWS: 80 and 60
  Glyphs,      \* the characters printed
  Pens,        \* the attributes set with con_color
  Blink,       \* CCUR_BLINK: frames between toggles
  Calls,       \* the console calls made in this instance
  ArmTwice     \* whether ccur_on may be called while the cursor is on

Space == 32
AttrDefault == 1
NoColumn == 255                       \* "no such column: force a redraw"

\* A cell is two bytes; the map has a column beyond the screen.
RowBytes == 2 * (Cols + 1)
Addresses == 0 .. (Rows * RowBytes - 1)
GlyphOf(x, y) == y * RowBytes + 2 * x
AttrOf(x, y) == GlyphOf(x, y) + 1
IsAttr(a) == a % 2 = 1

\* The same two colours, reversed: the nibbles swapped.
Reversed(p) == (p % 16) * 16 + p \div 16

ASSUME ConsoleAssumption ==
  /\ Cols \in Nat \ {0} /\ Cols < NoColumn /\ Rows \in Nat \ {0, 1}
  /\ Pens \subseteq 0 .. 255 /\ AttrDefault \in Pens
  /\ \A p, q \in Pens : Reversed(p) # q
  /\ Blink \in Nat \ {0} /\ ArmTwice \in BOOLEAN

VARIABLES
  vram,        \* the tile map
  addr,        \* VERA's two data-port addresses
  ctrl,        \* ADDRSEL: the port the address registers belong to
  curx, cury,  \* con_curx, con_cury
  pen,         \* con_attr
  todo,        \* what the console call in progress still has to do
  slot,        \* the VSYNC slot holds ccur_vsync
  armed,       \* ccur_armed
  shown,       \* ccur_shown
  tick,        \* ccur_tick
  lastx, lasty,\* ccur_lastx, ccur_lasty
  text         \* history: the tile map if there were no cursor

vera == <<vram, addr, ctrl>>
place == <<curx, cury, pen>>
cursor == <<slot, armed, shown, tick, lastx, lasty>>
vars == <<vera, place, todo, cursor, text>>

Idle == todo = <<>>

Blank(p) == [a \in Addresses |-> IF IsAttr(a) THEN p ELSE Space]

\* con_init(), before the kernel turns the cursor on
Init ==
  /\ vram = Blank(AttrDefault) /\ text = Blank(AttrDefault)
  /\ addr = [port \in {0, 1} |-> 0] /\ ctrl = 0
  /\ curx = 0 /\ cury = 0 /\ pen = AttrDefault
  /\ todo = <<>>
  /\ slot = FALSE /\ armed = FALSE /\ shown = FALSE
  /\ tick = 0 /\ lastx = 0 /\ lasty = 0

(***************************************************************************)
(* What console calls do, in order.  A data access names the address the   *)
(* console means, which only the history uses.                             *)
(***************************************************************************)
Do(what, v) == <<[do |-> what, v |-> v]>>
Data(v, at) == <<[do |-> "data0", v |-> v, at |-> at]>>
CopyByte(from, to) == <<[do |-> "copy", from |-> from, to |-> to]>>

Address(port, low, row) == Do("ctrl", port) \o Do("low", low) \o Do("row", row)

\* n steps, one after the other
Each(n, StepOf(_)) == FlattenSeq([i \in 1 .. n |-> StepOf(i - 1)])

WriteCell(ch, x, y) == Data(ch, GlyphOf(x, y)) \o Data(pen, AttrOf(x, y))
WriteRun(s, x, y) == Each(Len(s), LAMBDA i : WriteCell(s[i + 1], x + i, y))

UndrawThenDisarm == Do("hide", 0) \o Do("armed", 0)              \* mutant
DisarmThenUndraw == Do("armed", 0) \o Do("hide", 0)
SuspendNothing == <<>>                                              \* mutant
Suspend == DisarmThenUndraw
Forget == Do("shown", 0) \o Do("tick", 0) \o Do("lastx", NoColumn)
ResumeForgetting == IF armed THEN Forget ELSE <<>>                  \* mutant
Resume == IF armed THEN Forget \o Do("armed", 1) ELSE <<>>

\* Port 0 reads a row, port 1 writes the one above.
CopyRow(row) ==
  Address(0, 0, row + 1) \o Address(1, 0, row) \o Do("ctrl", 0)
  \o Each(2 * Cols, LAMBDA i : CopyByte(GlyphOf(0, row + 1) + i, GlyphOf(0, row) + i))

BlankLine == [i \in 1 .. Cols |-> Space]

Scroll ==
  Suspend \o Each(Rows - 1, CopyRow)
  \o Address(0, 0, Rows - 1) \o WriteRun(BlankLine, 0, Rows - 1)
  \o Resume

Newline ==
  Do("curx", 0) \o (IF cury + 1 >= Rows THEN Scroll ELSE Do("cury", cury + 1))

\* con_putc() of a character with a glyph
PutC(ch) ==
  Address(0, 2 * curx, cury) \o WriteCell(ch, curx, cury)
  \o Do("curx", curx + 1) \o (IF curx + 1 >= Cols THEN Newline ELSE <<>>)

Backspace == IF curx > 0 THEN Do("curx", curx - 1) ELSE <<>>
CarriageReturn == Do("curx", 0)

\* con_putraw(), con_putrun() and con_putrun_far(): a run is cut at the edge.
PutRun(s, x, y) ==
  LET fits == IF x + Len(s) > Cols THEN SubSeq(s, 1, Cols - x) ELSE s
  IN  IF x >= Cols \/ y >= Rows THEN <<>>
      ELSE Address(0, 2 * x, y) \o WriteRun(fits, x, y)

Cls ==
  Address(0, 0, 0)
  \o Each(Rows * (Cols + 1), LAMBDA i : Data(Space, 2 * i) \o Data(pen, 2 * i + 1))
  \o Do("curx", 0) \o Do("cury", 0)

GotoXY(x, y) ==
  (IF x < Cols THEN Do("curx", x) ELSE <<>>) \o (IF y < Rows THEN Do("cury", y) ELSE <<>>)

CursorOn == Do("slot", 1) \o Forget \o Do("armed", 1)
CursorOff == DisarmThenUndraw \o Do("slot", 0)

Call(name, steps) ==
  /\ Idle /\ name \in Calls
  /\ todo' = steps
  /\ UNCHANGED <<vera, place, cursor, text>>

(***************************************************************************)
(* One step of a call.                                                     *)
(***************************************************************************)
LowSet(a, low) == (a - (a % RowBytes)) + low
RowSet(a, row) == row * RowBytes + (a % RowBytes)
Next1(a) == IF a + 1 \in Addresses THEN a + 1 ELSE 0

Registers(st) ==
  /\ ctrl' = IF st.do = "ctrl" THEN st.v ELSE ctrl
  /\ addr' = CASE st.do = "low"   -> [addr EXCEPT ![ctrl] = LowSet(@, st.v)]
               [] st.do = "row"   -> [addr EXCEPT ![ctrl] = RowSet(@, st.v)]
               [] st.do = "data0" -> [addr EXCEPT ![0] = Next1(@)]
               [] st.do = "copy"  -> [port \in {0, 1} |-> Next1(addr[port])]
               [] OTHER           -> addr

\* ccur_hide from the main program: the handler is already disarmed.
Screen(st) ==
  vram' = CASE st.do = "data0" -> [vram EXCEPT ![addr[0]] = st.v]
            [] st.do = "copy"  -> [vram EXCEPT ![addr[1]] = vram[addr[0]]]
            [] st.do = "hide" /\ shown -> [vram EXCEPT ![AttrOf(lastx, lasty)] = pen]
            [] OTHER           -> vram

Intended(st) ==
  text' = CASE st.do = "data0" -> [text EXCEPT ![st.at] = st.v]
            [] st.do = "copy"  -> [text EXCEPT ![st.to] = text[st.from]]
            [] OTHER           -> text

Assigned(st, name, old) == IF st.do = name THEN st.v ELSE old
Flag(st, name, old) == IF st.do = name THEN st.v = 1 ELSE old

Step ==
  /\ ~ Idle
  /\ LET st == Head(todo)
     IN  /\ Registers(st) /\ Screen(st) /\ Intended(st)
         /\ curx' = Assigned(st, "curx", curx)
         /\ cury' = Assigned(st, "cury", cury)
         /\ pen' = Assigned(st, "pen", pen)
         /\ slot' = Flag(st, "slot", slot)
         /\ armed' = Flag(st, "armed", armed)
         /\ shown' = IF st.do = "hide" THEN FALSE ELSE Flag(st, "shown", shown)
         /\ tick' = Assigned(st, "tick", tick)
         /\ lastx' = Assigned(st, "lastx", lastx)
  /\ todo' = Tail(todo)
  /\ UNCHANGED lasty

(***************************************************************************)
(* The interrupt.                                                          *)
(***************************************************************************)
\* ccur_put() writes through port 1 and leaves VERA as it was.
PutKeepingPort(screen) == vram' = screen /\ ctrl' = 1 /\ UNCHANGED addr  \* mutant
Put(screen) == vram' = screen /\ UNCHANGED <<addr, ctrl>>

Drawn(screen, a, v) == [screen EXCEPT ![a] = v]
Here == AttrOf(lastx, lasty)

Moved == <<curx, cury>> # <<lastx, lasty>>
OldCellUndrawn == IF shown THEN Drawn(vram, Here, pen) ELSE vram

Follow ==
  /\ slot /\ armed /\ Moved
  /\ Put(Drawn(OldCellUndrawn, AttrOf(curx, cury), Reversed(pen)))
  /\ lastx' = curx /\ lasty' = cury
  /\ shown' = TRUE /\ tick' = 0
  /\ UNCHANGED <<place, todo, slot, armed, text>>

NextTick == IF tick + 1 < Blink THEN tick + 1 ELSE 0

Wait ==
  /\ slot /\ armed /\ ~ Moved /\ tick + 1 < Blink
  /\ tick' = NextTick
  /\ UNCHANGED <<vera, place, todo, slot, armed, shown, lastx, lasty, text>>

Toggle ==
  /\ slot /\ armed /\ ~ Moved /\ tick + 1 >= Blink
  /\ tick' = NextTick
  /\ shown' = ~ shown
  /\ Put(Drawn(vram, Here, IF shown THEN pen ELSE Reversed(pen)))
  /\ UNCHANGED <<place, todo, slot, armed, lastx, lasty, text>>

Vsync == Follow \/ Wait \/ Toggle

Next ==
  \/ \E ch \in Glyphs : Call("putc", PutC(ch))
  \/ Call("newline", Newline)
  \/ Call("backspace", Backspace)
  \/ Call("return", CarriageReturn)
  \/ \E ch \in Glyphs, x \in 0 .. (Cols - 1), y \in 0 .. (Rows - 1) :
       Call("run", PutRun(<<ch, ch>>, x, y))
  \/ Call("cls", Cls)
  \/ \E x \in 0 .. (Cols - 1), y \in 0 .. (Rows - 1) : Call("goto", GotoXY(x, y))
  \/ \E p \in Pens : Call("color", Do("pen", p))
  \/ (ArmTwice \/ ~ slot) /\ Call("on", CursorOn)
  \/ Call("off", CursorOff)
  \/ Step
  \/ Vsync

\* Frames keep coming; a call that is begun goes on.
Spec == Init /\ [][Next]_vars /\ WF_vars(Vsync) /\ WF_vars(Step)
-----------------------------------------------------------------------------
(***************************************************************************)
(* Properties.                                                             *)
(***************************************************************************)
\* Registers and flags keep their ranges; con_curx passes through the column
\* after the last one.
TypeOK ==
  /\ \A a \in Addresses : vram[a] \in (IF IsAttr(a) THEN Pens \cup {Reversed(p) : p \in Pens}
                                       ELSE Glyphs \cup {Space})
  /\ addr \in [{0, 1} -> Addresses] /\ ctrl \in {0, 1}
  /\ curx \in 0 .. Cols /\ cury \in 0 .. (Rows - 1) /\ pen \in Pens
  /\ lastx \in (0 .. Cols) \cup {NoColumn} /\ lasty \in 0 .. (Rows - 1)
  /\ tick \in 0 .. (Blink - 1)

\* ccursor.s:35, curtest.c check 5: the handler is invisible to the console.
\* Every glyph is the one printed there, wherever a frame fell.
Transparent == \A a \in Addresses : IsAttr(a) \/ vram[a] = text[a]

\* curtest.c checks 3 and 4: the only reversed cell is the one the cursor shows
\* at; nothing trails behind the prompt, and no scroll carries it along.
NoTrail ==
  \A a \in Addresses :
    IsAttr(a) /\ vram[a] \notin Pens => shown /\ a = Here

\* console.c:50-52: text already on screen keeps the attribute it was written
\* with.  (The undraw uses the pen of the moment: it does not.)
TextKeepsItsColour == Idle /\ ~ armed => vram = text

\* ccursor.s:240: a cursor that is off does not show.
OffMeansOff == Idle /\ ~ armed => ~ shown

\* A cursor the program has turned on comes back at the console's position,
\* whatever was printed and scrolled before.
CursorReturns ==
  <>[](slot /\ Idle) => []<>(shown /\ ~ Moved)

=============================================================================

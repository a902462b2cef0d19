# A verification development of the X816 kernel and its programs

This directory holds TLA+ models of the X816 operating software: a small
kernel for a 65816 machine (memory allocator, FAT32 file system, file calls,
interrupt dispatcher, text console), the prompt and the desktop that hand the
machine to programs, and the spreadsheet that is the largest of those
programs. The models are translated from the C and assembler sources under
`src/`; TLC checks them on small instances and TLAPS proves the central
theorems for every value of the constants. `PROJECT.json` gives, for each
definition, the source lines it stands for.

Run a check with `tlc -workers 2 -config KMem.cfg MCKMem` and a proof with
`tlapm KMem_proofs.tla`.

## 1. The system

The machine is a 24-bit 65816 with 16-bit registers, a VERA video chip, two VIAs, a
YM2151 and an SD card. There is one CPU, no threads and no preemption of one
program by another. **Concurrency** comes from interrupts: the main
program can be interrupted between any two instructions by an IRQ (unless it
is masked) and by an NMI. **Failure** comes from the SD card: each sector
read or write may fail, the power may go between any two of them, the card
may be out. Programs use the kernel through a jump table; most state is in a
few global variables, and a program is ended by restarting the firmware, or
replaced in place by another with K_EXEC.

| Component | State it keeps | Operations | What is hard |
|---|---|---|---|
| Flat-memory allocator (`kmem.c`) | sorted table of (base, size), number live, ceiling | MEM_ALLOC, MEM_FREE, MEM_TOP, MEM_RELEASE | unsigned gap arithmetic on a table that must be sorted; 2^32 wrap of a request; full table; table bytes that survive a reset |
| FAT32 writing calls (`fat32.c`) | FAT copies, directory sectors, one open handle, `io_error` | create (truncates), write, close, unlink, rename, mkdir, rmdir | one call is many sector writes: power loss, a failed write, a failed FAT read; directory end marker; volume full halfway |
| FAT32 reading and the file cursor (`fat32.c`, `kfs.c`) | position, cluster, offset in cluster | read, read_far (DMA), write, seek | cluster and sector boundaries, end of file, retries after an error |
| FAT32 mounting and listing (`fat32.c`) | geometry of the volume | mount, opendir, readdir | integer widths of the layout arithmetic |
| Kernel file calls (`kfs.c`) | two handle tables, the working directory, whether it is mounted | FS_OPEN .. FS_RMDIR | slots that outlive their program, a close that fails, relative paths |
| Interrupts and clocks (`kirq.s`) | table of handlers, one jump pointer, snapshot, frame counter | IRQ_SET, TIME_GET, TIME_SET, the IRQ, NMI, BRK, COP entries | two-word handlers, level-sensitive devices, edges against acknowledges, NMI over IRQ |
| Console and cursor (`console.c`, `ccursor.s`) | position, pen, VERA's registers; armed, shown, tick, last cell | con_putc, run writers, scroll, cls, gotoxy, color; ccur_on/off/suspend/resume, the VSYNC handler | the handler drives the registers that the console is using |
| Keyboard (`console.c`, `smc.s`) | modifiers, locks, pending prefix | con_getkey over I2C | prefix sequences |
| Program loading, hand-over (`kexec.c`, `exec.s`, `goshell.c`, `kfs.c`) | the carry-over block in fixed memory | K_EXEC, K_EXIT, reset, boot | state that survives a restart, a launch refused halfway |
| Kernel call table (`kerntab.s`) | none of its own | register marshalling | - |
| Shell (`shell.c`) | memory, and all of the above | commands | loops of calls that fail halfway; overlapping moves; a copy onto itself |
| Desktop (`desktop.c`) | tiles, listing, selection, resume flag | navigate, browse, run, leave | which of two shells a program comes back to |
| Spreadsheet: document (`cell.c`, `sheet.c`, `expr.c`) | cells, watermarks, arena of texts | typing, insert/delete/swap lines, replicate, CSV, recalculation | references that follow edits, overlapping copies, exhausted storage, formulas read out of order |
| Spreadsheet: screen (`view.c`, `kalk.c`) | position, titles, widths, cache of finished lines, mode | keys | partial repaints against what has really changed |
| Floating point, fonts, start-up, build tools, tests | - | - | not modelled: see section 8 |

**Interactions.** The shell and every program call the kernel through
`kerntab.s`, which calls `kmem.c`, `kfs.c`, `console.c`, `kirq.s` directly.
`kfs.c` turns handles into `fat32_file` structures and calls `fat32.c`, which
calls the SD driver. The shell, the desktop and a program follow each other
on the machine: `kfs.c` writes the directory of a launch, and the desktop the
wish to be resumed, into a block of memory that the next start of the
kernel reads. `ccursor.s` installs its VSYNC handler with IRQ_SET and
reads `con_curx`, `con_cury` and `con_attr` of `console.c`; `console.c` parks
the cursor around a scroll. K_EDIT turns the cursor off and on and enters an
editor that owns the region of memory MEM_RELEASE gives to the allocator.
K_EXIT and the reset button restart the firmware, which empties the
allocator's table and every handle. In the spreadsheet `kalk.c` calls
`sheet.c` for each command, recalculates with `expr.c`, tells `view.c` which
rows have changed, and repaints as little as it can.

**What makes each component correct.** Allocator: no two blocks share a
page, no call disturbs a block it does not own. File system: no entry leads
into free clusters, no two files share one, a call about one name leaves the
others alone, whatever fails. Cursor of a file: it names the byte at the
position of the handle, and reads return that byte. Handles: a slot is taken
exactly while somebody has it, and a handle is the file it was opened on.
Hand-over: the machine comes back to the directory and to the shell it was
launched from. Shell: OK means done, an error means nothing was launched, and
neither touches another name. Interrupts: every
dispatch runs a whole handler, no edge is lost, the frame count misses only the
frames VERA has merged, a stuck device does not stop the machine. Console: the blinking cursor is invisible to what
is printed. Spreadsheet: only formulas have numbers, references follow the
cells they name, copies are of the block as it was, files come back, nothing is
stale after a command, in the cells or on the screen.

## 2. Modules

    Heap        <--refines--  KMem         <-- MCKMem, KMem_proofs
    ByteFile    <--refines--  FileCursor   <-- MCFileCursor, FileCursor_proofs
                              Fat32        <-- MCFat32, Fat32_proofs
                              KIrq         <-- MCKIrq, KIrq_proofs
                              CCursor      <-- MCCCursor, CCursor_proofs
    Card  <-- Kfs  <-- Shell  <-- System   <-- MCSystem, System_proofs
    CellText  <-- CellStore  <-- Expr  <-- Calc    <-- MCCalc
                                       <-- Sheet   <-- MCSheet
                       View  <-- Kalk              <-- MCKalk, Kalk_proofs
                       Numbers  <-- all the proofs but KIrq_proofs

An arrow to the left is EXTENDS. `Card` stands for `Fat32` under the file
calls, as a tree of names; `Kalk` stands for `Sheet` as a set of rows that
changed.

| Module | Code | Contents |
|---|---|---|
| `Heap` | `kmem.h` | abstract: a set of page blocks, lowest fit, honest refusals |
| `KMem` | `kmem.c`, `k_edit` in `kerntab.s` | the table, with its widths and shifts |
| `KMem_proofs` | | proofs about `KMem` |
| `Fat32` | `fat32.c` 208-310, 560-1170 | writing calls as sequences of sector writes |
| `Fat32_proofs` | | proofs about `Fat32` |
| `ByteFile` | `kernel.h`, `kfs.h` | abstract: an open file is a byte sequence and a position |
| `FileCursor` | `fat32.c` 455-560, 860-930; `kfs.c` seek | one handle, one step for each turn of a loop |
| `FileCursor_proofs` | | proofs about `FileCursor` |
| `KIrq` | `kirq.s` | devices, main program, dispatcher and traps |
| `KIrq_proofs` | | proofs about `KIrq` |
| `CCursor` | `console.c` 50-321, `ccursor.s` | console calls access by access, and the blink |
| `CCursor_proofs` | | proofs about `CCursor` |
| `Card` | `fat32.h`, `fat32.c` | the tree of names, and what each call does to it, failing or not |
| `Kfs` | `kfs.c` | handles, paths, working directory, carry-over block |
| `Shell` | `shell.c`, `kexec.c`, `goshell.c` | commands, launches, K_EXIT, reset, power-up |
| `System` | `desktop.c` | the desktop, programs that call in any order, the whole machine |
| `System_proofs` | | proofs about `System` |
| `CellText` | `cell.h`, `sheet.c` | the lexemes a text is made of, and their lengths |
| `CellStore` | `cell.c` | cells, row presence, watermarks, arena of texts |
| `Expr` | `expr.c` | the evaluator as the functions of its grammar |
| `Calc` | `expr.h` | the grammar as a definition, and the evaluator against it |
| `Sheet` | `sheet.c`, the recalculation of `kalk.c` | commands on the document |
| `View` | `view.c` | layout, scrolling, titles, the cache and the drawing calls |
| `Kalk` | `kalk.c` | the main loop: a key in a mode |
| `Kalk_proofs` | | proofs about `Kalk` |
| `Numbers` | | arithmetic, and parts of sequences, for the proofs |

### KMem

`limit`, `live`, `tbase` and `tsize` are `page_limit`, `live` and the base and size words
of the table; the constants are the code's
(`PAGE_FIRST` ...). `Alloc` is the whole of `kmem_alloc`: the zero check, the
size check *before* the rounding, the table check, the first-fit scan with
16-bit subtraction, and `insert`. `Free` is `kmem_free` with its shift. A
refusal is an action of its own, whose guard is the code's early returns.
`Reboot` is what cstartup does: `live` and `page_limit` are initialised, the
table keeps its bytes. `Edit` and `EditReturns` bracket the editor: no
memory call is made while it runs.

### Fat32

Each call first reads what it needs and then performs `plan`, its writes in
the order of the code. `Begin` computes the plan (one operator per call:
`CreatePlans`, `WritePlans`, ...), `Step` performs one sector write or one
update of the handle. Between two steps the power may go (`PowerLoss`), or
the next write may fail (`WriteFails`). A *chain* fault is one failed FAT or
directory read while the call makes its plan: `fat_next` answers end-of-chain,
`dir_find` not-found and `dir_is_empty` not-empty, exactly as the code does;
`Walks` names the reads each call makes. An *entry* fault is one in the loop
that locates the entry of a file that `fat32_create` finds in its way: by then
the chain of the file is free.

Data: a cluster is one sector and holds `DirSlots` entries; names are model
values (8.3 folding is left out); a file is written a cluster at a time, so that its
size is its number of clusters. What happens inside a cluster is
`FileCursor`'s subject. Subdirectories are made in the root only.

### FileCursor and ByteFile

`h` is the `fat32_file`. A transfer is a `job`; each turn of the loops of
`fat32_read`, `fat32_read_far` and `fat32_write` is one step, and each device
access in it may fail (`Fault`), with the answer the code makes of it: a link
that cannot be read is the end of the chain, to a read, to a seek, to the scan
for a free cluster and to a write, which then claims a cluster and links it in
place of the rest of the file (`Claims`). Where the file grows, each of
the FAT writes, of both copies, and each sector of the zeroing may be the last
one done (`GrowFails`). Units of data are numbered by sector order
on the card, so an offset that runs past its cluster names whatever lies
next, as on the device. `ByteFile` is what the caller sees: a sequence of
bytes, a position, transfers that move some bytes at a time and end only
where they may. After a device failure the place in the file may be `lost`;
a caller is told once.

### KIrq

`vec` and `tgt` are pairs of words and every load and store of a word is an
action. The dispatcher's program counter is `irq.at`; NMI, BRK and COP run in
`trap`. `Raise` is a device: an edge may come while its bit is still set from the
one before, since interrupts are masked, a dispatch is under way, or an SD
transfer has frozen the CPU. VERA then has one bit for two, and the history
variables `vsyncs` and `merged` count the vertical blanks and those that fell
together. `MainRuns` says when the main program may take a
step: no handler runs, and no unmasked interrupt is pending. Handlers are
assumed to serve their device and return, as `kirq.s` 35-48 asks of them.

### CCursor

A console call is a sequence `todo` of VERA accesses and assignments, made by
the operator named after the function; `Step` does the next one. The
interrupt, `Vsync`, is a single step and may fall anywhere: `ccur_vsync` runs
with interrupts masked, and its own register save and restore is the content
of `Put`. `text` is a history variable: the screen as the console
writes it, at the address it *means*, which is how a misdirected access shows.

### Card, Kfs, Shell, System

One machine in four layers. `Card` has the volume as a function from paths to
directories and files, a file a sequence of *pieces* (what the loops of the
shell move at a time), `ClusterPieces` to a cluster. A call has a set of
outcomes: a tree, and whether it answers that it worked. With `io` true a device
access may fail, and the volume be full: the tree stays as it was or, where a
call frees a chain before it writes the entry, a file is left torn or empty.
`Mistakes` says which failed reads the code takes for an answer: that of a sector
of the directory, "find", which is a name that is not there, and that of a link,
"link", which is the end of the directory. With them a call may answer that it
worked and have made a second entry of a name (`Hidden`: every search finds the
first), written a file over a directory, hung the directory's new cluster in
the middle of it (`CutOff`), or removed a directory with files in it. `Fat32`
shows each of these in detail.

`Kfs` has the tables `fmode`/`files` and `dused`/`dirs`, `cwd`, `mounted` and
the carry-over block. `held` is a history variable: for each handle a program
was given and has not given back, what it was given for. `lost` is the
handles of programs that K_EXEC has replaced. `Shell` has a record for a typed line
(`word`, its arguments) and an operator for each command; memory is a window
of `RamTop` cells. `runs` is who has the machine, and two more history
variables say where a hand-over was made from (`home`) and who made it
(`from`). Between two commands the program that has the machine may make any
of its calls, in any order, or end; a reset may come at any time. `typed` is
the line the last step carried out, so that a property can compare a command
with its effect.

### CellText, CellStore, Expr, Calc, Sheet

A text is a sequence of lexemes (a number, a reference with its dollars, a
function name, a sign), each with a width in characters, since the limits of
the code are in characters: `TEXT_MAX`, the room `rewrite_refs` keeps, the
arena. The evaluator is the recursive descent of `expr.c`: a parser state
passes through one operator per function of the code. `Calc` has the grammar of
`expr.h` stated by where a formula can be cut, with no parser, and compares
the two on every text of `MaxPieces` runs of lexemes.

A command of `Sheet` is a whole call into `sheet.c` with the recalculation
that follows it. Its loops are folds in the loops' order, so that an
overlapping copy reads what the code reads. The properties state what the
document looks like after a command by its *rendering* before it
(`Shown`: type, text, and for a formula its references), moved as a whole.

### View, Kalk

A line of the screen is not its characters but whether they are up to date:
`Changed` makes every cached or displayed line of a row that was not marked
stale. The view is one record because a key calls several operators of
`view.c` in turn, each on the result of the one before. `Recalculated`
takes any set of rows in `Spreads`: which formulas a change reaches is not
`Kalk`'s business.

## 3. Runs

| Run | States | What it shows |
|---|---|---|
| `KMem` | 29 thousand | table sorted, inside the arena, disjoint; a live block stays until MEM_FREE is given its own base; each answer is one `Heap` gives |
| `Fat32` | 584 thousand | every interleaving of the writing calls, healthy card, two FAT copies: structure (nothing dangles, is shared or shows data as entries), accounts (sizes, no leaks, equal copies), unique names, bystanders untouched, rmdir only of empty directories |
| `Fat32Faults` | 733 thousand | one fault in every behaviour, but for the reads with which a file just emptied is looked up again: the structure holds |
| `Cursor` | 302 thousand | a read handle and a written handle, with one device failure (a read of a link inside the written file excepted): the cursor names the byte at the position, reads are right, nothing is written outside the volume, the handle implements `ByteFile` |
| `KIrq` | 938 thousand | whole handlers, no lost edge, a frame count that misses only the vertical blanks VERA merged, polled bits kept, the machine stays alive; no deadlock |
| `CCursor` | 432 thousand | a frame between any two accesses: glyphs land where printed, only the shown cell is reversed, off is off, the cursor comes back |
| `Calc` | 812 thousand | every text over three sheets: a number only for a formula, and the number the grammar gives |
| `Sheet` | 25 thousand | two commands on each of six sheets: cells move once and whole with their references, copies are of the block as it was, files come back but for the three things `RoundTrip` names, no formula is stale |
| `Kalk` | 737 thousand | every key in every mode: no cached line is stale, the screen shows the sheet after each key, a move brings its cell onto the screen |
| `System` | 584 thousand | the machine: handles are what they were opened for and none is lost but a replaced program's, the way back from a program, the truth of what commands report when every failed access is reported |
| `Commands` | 24 thousand | card commands one after the other, with the failed reads that `fat32.c` takes for an answer: what an OK of a command is worth, and what no command touches |
| `CopySelf` | violation | copying a file of several clusters onto itself under another spelling answers OK and cuts it to one |

Other configurations show disagreements between the code and its comments and are
run by hand; section 6 names them.

### Bounds, and why they are enough

- `KMem`: six pages, three table entries. A gap before, between and after
  blocks, a full table with room left, and a full arena with a free entry all
  occur. Requests include exact pages, one byte over, more than the arena,
  and the largest 32-bit number, whose rounding wraps.
- `Fat32`: two names, five clusters, two slots in a cluster. A subdirectory is
  born full (`.` and `..`), so the first file in it makes it grow; the
  volume fills up; a file has up to three clusters. Two FAT copies show
  every order between their writes. Names are symmetric.
- `Fat32Faults`: four clusters, one FAT copy and `MaxFaults` = 1. Power loss
  and failed writes are enabled for create, write, close, rename and mkdir;
  failed reads of the FAT and of directories for all calls. Unlink, rmdir and the
  truncating create free a chain before they touch the entry: they violate
  `NoDangling`, a part of `Structure`, under a power loss (`Fat32Unlink`), and the
  truncating create also when it cannot read the directory for that entry
  (`Fat32Truncate`). These faults are therefore left out of this run.
- `Cursor`: two sectors of two units, three clusters, all orders of a file's
  clusters, and another file in the middle; lengths 1, 3, 4 and 9 end
  inside a sector, at a cluster, across clusters and past the end of any file.
  Every device access may fail but one: the read of a link inside a file that is
  being overwritten, with which the properties are false (`CursorCut`).
- `KIrq`: three assertions in a behaviour, a frame counter modulo three, four
  devices: one of each kind. An NMI comes wherever no dispatch runs (the other
  case is `KIrqNmi`). A VIA behaves as the FIFO does and is not wired.
- `CCursor`: two rows of two columns with the column beyond the screen, so that
  a character wraps and scrolls; a blink of two frames. One pen, since with
  two, `CCursorColour` applies; `ccur_on` is called only while the cursor is
  off (`ArmTwice`, see section 6).
- `Calc`: up to four runs out of nineteen, among them the heads of five
  functions and a range with its closing parenthesis, so that
  `a + b * c`, `f(x, A1...A3)` and everything between them and garbage occurs.
  `MaxDepth` is 3, and four runs go beyond it. The sheets have keys with
  gaps for @LOOKUP, both flags, or nothing at all.
- `Sheet`: four rows by three columns, lines of sixteen characters and an
  arena of 70 bytes, which two commands fill. The six sheets have labels
  that look like numbers, formulas that read forwards and backwards, a chain
  that runs against the sweep (`RecalcPasses` is 2), an exponent, a reference at the end
  of a full line, a formula with a comma, and two files, one of them too wide. The six blocks overlap
  their targets in both directions and run off the grid. Two commands, since
  the effect of an edit shows in the next one (references that were shifted,
  an arena nearly full, a file saved and loaded).
- `Kalk`: six rows on a screen of four, three columns on a screen of two, so
  both directions scroll, with up to two locked rows, half the screen; widths 1
  and 2 make a column that does not fit. A recalculation moves no row, one, or all.
- `System`: directories of depth two (`MaxDepth`), two files and one directory
  open at a time, five names, files of at most three pieces, a window of four
  cells of memory, three tiles (two columns), a browser of two entries that
  shows one. The programs' calls open the same file under two spellings,
  exhaust both tables, replace the program by itself and by the desktop's
  image. With and without a card, and with both positions of the OSD switch. No
  `Mistakes`: with them the trees are too many for this run. The cfg's
  VIEW leaves out `answer` and `typed`: no action reads them, and action
  properties are evaluated on the steps themselves.

- `Commands`: the machine of `System` with both kinds of `Mistakes`, at its prompt:
  no programs, one cell of memory, a card with a directory that has two files in
  it. The commands are on names that are free, taken by a file, taken by a directory and full,
  and each may be typed again on what the others have left. A name is in
  a directory at most twice (`Entered`).

### Fairness

Only two specifications have any. `KIrq`: weak fairness of `Enter`, of the
dispatcher and of the traps: the CPU takes a pending interrupt and executes
instructions. Strong fairness of the two stores of IRQ_SET: an NMI, the press
of a button, may come between any two instructions but does not come before
every one of them. No fairness is asked of devices, programs or the NMI.
`CCursor`: frames keep coming (`Vsync`), and a call once begun goes on
(`Step`). All other properties are safety properties: a prompt, a desktop and
a spreadsheet wait for a key that need not come.

A cfg turns the deadlock check off where a behaviour of the model ends: the
bounds on commands, calls and faults of `Sheet`, `Fat32`, `Fat32Faults` and
`Cursor`, the one evaluation of `Calc`, and `/SQ` in `Kalk`.

## 4. What is assumed

- **Callers leave alone the file they are writing** (`NotBeingWritten` in
  `Fat32`): they do not delete, rename or create it anew while its handle is open.
  In `System` a program also gives back every handle on a name before it
  removes it, renames something onto it or makes it anew (`Idle`). Nothing in `kfs.c`
  enforces this. In `Fat32` one handle is open for writing at a time.
- A sector write is atomic: it is on the card or it is not.
- `Cursor` never seeks a written handle forward, and reads every link inside a
  file it overwrites (`WriterStays` in the proofs): `CursorStray` and `CursorCut`
  show what happens otherwise.
- Callers of `fat32_write` and `fat32_read_far` clear `io_error` first, as
  `shell.c` does.
- Interrupt handlers serve their source and return; none calls IRQ_SET.
- `CCursor`: no program takes the VSYNC slot from the cursor.
- `System`: no command or program pokes the carry-over block; the firmware
  holds a kernel, so that a return from a program is a restart of it; the OSD
  switch and the presence of a card do not change while the machine is on.
- `Sheet`: a field of a loaded file is a text the lexemes can spell.

## 5. What is proved

All theorems hold for every value of the constants that satisfies the named
assumptions of the modules; what else one assumes is said with it. Every
assumption holds in the runs, and every hypothesis in the run that checks the
property (for `FaultsSpared` that is `Fat32`).

| Theorem | Module | Statement |
|---|---|---|
| `TypeCorrect`, `HeapSafe`, `LiveBlocksStay` | `KMem_proofs` | `[]TypeOK`, `[]HeapWellFormed`, `BlocksStay` |
| `AllocatorIsAHeap` | `KMem_proofs` | `ImplementsHeap` |
| `TypesHold`, `StructureHolds`, `NamesStayUnique` | `Fat32_proofs` | `[]TypeOK`, `[]Structure`, `[]NamesUnique`, if `FaultsSpared` |
| `BystandersStay`, `RmdirNeedsEmpty` | `Fat32_proofs` | `BystandersUntouched`, `RmdirOnlyEmpty`, if `FaultsSpared` |
| `BooksBalance` | `Fat32_proofs` | `[]Accounted`, if only the power fails, and that in `Building` calls |
| `TypesHold`, `WritesStayInside`, `CursorNamesItsByte`, `ReadsGiveTheContent` | `FileCursor_proofs` | `[]TypeOK`, `[]NoStrayWrite`, `[]CursorRight`, `[]ReadsAreRight`, if `WriterStays` |
| `HandleIsAByteFile` | `FileCursor_proofs` | `ImplementsByteFile`, if `WriterStays` |
| `TypesHold`, `EdgesAreServed`, `DisabledEdgesStay` | `KIrq_proofs` | `[]TypeOK`, `[]NoEdgeLost`, `DisabledKeepsItsBit` |
| `BlanksAreCountedOrMerged` | `KIrq_proofs` | `[]FramesCountedOrMerged`, if no program turns VSYNC on and off |
| `DeviceDispatchIsWhole`, `DispatchIsWhole` | `KIrq_proofs` | every dispatch runs its slot's handler, if no NMI comes inside one |
| `CursorIsTransparent`, `OffIsOff`, `TypesHold` | `CCursor_proofs` | `[]Transparent`, `[]OffMeansOff`, `[]TypeOK` |
| `NothingTrails` | `CCursor_proofs` | `[]NoTrail`, unless `ArmTwice` |
| `HandlesStayRight` | `System_proofs` | `[]HandlesRight`, if `ModesFit` |
| `MachineComesHome`, `DesktopGetsItsOwn` | `System_proofs` | `ComesHome`, `DesktopOwed` |
| `CacheAlwaysFresh`, `ScreenIsTheSheet`, `MovesShowTheCell` | `Kalk_proofs` | `[]CacheFresh`, `[]ScreenAgrees`, `MovesIntoView` |

`Numbers` has the lemmas that several of them use: sets of naturals
have a least element, numbers cut in pieces, and what a part of a sequence holds
and how two parts that follow each other join.

**The allocator.** The inductive invariant is `IInv == TypeOK /\
HeapWellFormed`. Sortedness is not only the result but what makes the search
sound: the gap before an entry is an unsigned difference, which equals the
true gap only if the entry before it ends at or below its base
(`GapsInOrder`). From that, a fit leaves room for the block between its
neighbours (`FitHasRoom`), and insertion keeps order and disjointness
(`AllocInv`). `NeedInRange` shows that a request which passes the byte check
cannot wrap when rounded: the reason the check comes first. `FreeInv` follows
the shift of the table entry by entry. `LiveBlocksStay` uses the same
invariant: bases are distinct, so the entry freed is the only one with that
base (`FreeTakesOneBlock`), and a block goes only when MEM_FREE is given its own
base. The refinement maps the table to the set of its
live entries. `Heap` knows no gaps, only free runs of pages, so its heart is
`FreeRunIsInAGap`: any free run lies inside one of the gaps the search looks
at. A refusal is then honest and the first gap that fits is the lowest
address that fits.

**The volume.** `Owned` is the invariant of the card: a map from the places
of entries to chains, such that the FAT spells the chains, no cluster is in
them twice, every entry leads to its own, behind an end marker there are
only end markers, names in a directory differ and the handle stands at the
end of its file. It does not hold by itself, since in the middle of a call the rest
of the plan matters: a sector that is about to be linked must have been zeroed. So
the invariant `FInv` says, as for the console, that the rest of the plan has a *run*
(`Runs`): a machine for each point between two writes, each of them `Owned`,
from the card as it is to the one the call leaves. While a chain is freed
the FAT spells only what is left of it (`Owned`'s last parameter is its
place). One lemma for each call (`CreateRunsOn`, `MkdirRunsOn`, ...) shows that its plan
has a run on any sound card; these are put together from lemmas about the writes
(`ClaimRuns`, `GrowRuns`, `FreeChainRuns`, `NewEntryRuns`, ...), and what the plan
reads first is right because a walk along an owned chain ends where the chain
does (`WalkExists` shows that the recursive function `Chain` exists at all,
`ChainStops` what it is, `DirectoryReads` and `NameIsFound` what dir_find
gets). Each move of a run also spares whoever the call is not about
(`Spares`), which is `BystandersStay`. `FaultsSpared`: the power goes, or a
write fails, only in a call that frees nothing, and no read of the FAT or of a
directory fails. Without it the theorems are false: `Fat32Unlink`,
`Fat32Truncate`, `Fat32Rmdir` and `Fat32Twice` are the counterexamples.
`BooksBalance` needs more of the same machines. `Sized`, a part of `Owned`, says
that a closed entry holds the length of its chain; `Settled`, that the handle
has counted all of a file whose entry still leads nowhere, so that closing it
writes the right length; `Tidy`, that the copies of the FAT agree and a cluster
in use that is nobody's is among those the call is about to link. Each lemma about
a call also shows that it leaves the books as it found them (`Balances`). A failed
write of data is left out because with it the property is false: the handle is already
in the new cluster, which its size does not count, and `fat32_close` writes that
size. A call that was cut short is not asked about its copies or its leaks, only its
sizes.

**A file.** `CInv` says where a cursor can be: in the k-th cluster of the
chain, at the end of it, nowhere yet, past the chain, or astray after a
failed read of the FAT. It rests on `Chain` being the one sequence that the
FAT spells (two chains from the same cluster agree up to the least place
where they would differ, and a chain that names no cluster twice is no
longer than the volume), so that the step that links a new cluster has the
old chain with one more (`ChainGrows`), and a growth that fails on the way has
one of the two, according to how far it came (`FailedGrowth`, `ChainSurvives`). Reads are right because what was moved
before and what comes next are one part of the content (`PartsJoin`). The
refinement needs that a write changes only the bytes it was given, for which
no two bytes of a file share a place on the card (`WriteMaps`). `WriterStays`: a
handle opened for writing is neither read nor sought forward, and the links of
the chain it has can be read, in a seek back and where a write goes on in the next
cluster. Every other access of a written file may fail: the scan for a free
cluster, the FAT writes, the zeroing, the data. `fat32_write` follows the
chain without looking at what it gets, so outside the hypothesis `NoStrayWrite`
and `ImplementsByteFile` are false, as `CursorStray` and `CursorCut` show.

**Interrupts.** `IInv` is the shape of the three programs that interleave
(main program, dispatcher, trap) and why nothing they share moves under
another's feet: an edge is acknowledged only while it is enabled and still
in the ISR, and a slot is torn only between the two stores of IRQ_SET, when the
dispatcher is out. `EdgesAreServed` and `DisabledEdgesStay` need nothing
else. `BlanksAreCountedOrMerged` follows the count across its wrap: what it has,
what is still in the ISR or in the dispatcher's hands, and what was merged are
together the vertical blanks that there were. A program that turns
VSYNC off and polls takes frames the kernel then does not count. For whole
dispatches `PointerInv` adds that the jump pointer holds the word of the
slot it was loaded from. That is false once an NMI comes inside a dispatch,
since both load the same pointer (`KIrqNmi`); and the mask of IRQ_SET does not
hold off an NMI, so `DispatchIsWhole`, which speaks of traps too, also
assumes that no program moves the NMI's own slot. `DeviceDispatchIsWhole`
does without that.

**The console.** The interrupt may come between any two accesses of a call, so
the invariant must say what the rest of the call will do. A piece of a call
is a *course*: a sequence of machines, one for each point between two
accesses (`Runs`), each of which the interrupt may find (`Fits`). `Leads(todo,
Now(h))` says that what is left to do has one that starts at the machine as it is
and ends where calls end. A step then follows its course, and an interrupt
changes nothing a course depends on, since `ccur_vsync` puts back the
registers and touches attributes only (`VsyncKeepsCourse`). What remains is one
lemma for each call, that its program has a course from any machine at rest; programs
are put end to end as courses are. The characters of a run and the rows of a scroll are
joined by `FlattenSeq`, a recursive function: `JoinsExist` shows that the function
exists and `FlattenJoins` that it joins, both by the least length at which
they would fail. The handler sees the cursor armed; a scroll and
`ccur_off` first disarm it, and then undraw: from there to the end of the copy a
course has no reversed cell, so that `CopyRow` has none to carry along. This is
what `OnCourse` records in its bit h, and what an `ccur_on` that finds the
cursor armed would break (`ArmTwice`). TLC checked the
invariant before it was proved, with `ArmTwice` and without.

**The machine.** `HandlesRight` is nearly inductive: `HInv` adds the shape of
the two tables. The steps that matter are a close that fails on the card and
still frees the slot, and a K_EXEC, which moves what the program had to `lost`.
`ModesFit` says that the mode of an open, plus one, is not zero in a byte:
`kfs_open` (`kfs.c` 264) stores it in `fmode[]`, where zero means free, and
checks no mode. `CarryInv` says what each of the four that may have the
machine finds in the carry-over block: who armed it, with which directory,
and whether the desktop's wish to be resumed is in it. The way home and the
shell that is owed follow from it, through every chain of launches, refusals,
exits and resets. None of the three asks which `Mistakes` a failed read leads to:
they hold for every set of them.

**The spreadsheet's screen.** `CacheFresh` is inductive with the shape of the
view. What carries its proof is a weaker fact that holds *inside* a key:
`FreshBut(v, R)`, only the rows of R may be stale. `ChangedFresh` shows that a
change of the cells of R leaves it true, and each command that changes cells
then dirties R or every row. This is the list that the comment of `view.c`
asks for, complete: without the `DirtyAll` of a sideways scroll, for one, the
proof does not go through. On that rests the screen. The invariant `SInv` is
`ScreenAgrees` for a view with a fresh cache and a sound layout (`Sound`).
`RowLine` shows that `RowY` and `RowAt` are each other's inverse on the lines
that show a row. A whole repaint makes any sound view agree, whatever was on the
screen (`DrawAgrees`). A partial one does if the screen was right in all
rows but one (`AgreesBut`, `DrawOneAgrees`, `DrawTwoAgrees`), and
`OnlyThatRow` shows that the loop paints in part only then: it has not
scrolled, no value moved elsewhere, and the cursor was in the row it left.
`MovesShowTheCell` rests on `TopForFits` and `LeftForFits`: the
edges the code settles on show the cell.

Only model-checked, and why:

- `Fat32`'s `Structure` under a failed FAT read (`Fat32Faults`): with one, chains
  are cut short wherever the walk was, so the map of owners would have to say
  what is lost.
- `Calc`, `Sheet`: recursive evaluation and folds over texts and cells.
- `System`'s `CommandsTell`: a move of overlapping blocks is a fold over the
  pieces moved, induction again.
- Liveness (`MachineAlive`, `CursorReturns`): fairness and ENABLED are out of
  the prover's reach.

## 6. Divergences

One has a listed run, `CopySelf`, quoted in `PROJECT.json`. The others here are run
by hand with `tlc -config <name>.cfg <module>`; each is a counterexample. Where
the table names a run's own configuration, put the property in the place of its
properties:

| Configuration | Module | Property | What it shows |
|---|---|---|---|
| `Fat32Unlink` | `MCFat32` | `PowerLossOnlyLeaks` | power loss inside unlink leaves an entry on freed clusters (`fat32.c` 1000-1003) |
| `Fat32Truncate` | `MCFat32` | `NoDangling` | `fat32_create` frees the chain of a file and then cannot read the directory to find its entry, which goes on naming free clusters (`fat32.c` 795, 809, 826) |
| `Fat32Rmdir` | `MCFat32` | `RmdirOnlyEmpty` | a failed FAT read makes rmdir take a directory that is not empty (`fat32.c` 1112, against `fat32.h` 134-136) |
| `Fat32Twice` | `MCFat32` | `NamesUnique` | a directory sector that cannot be read makes rename take a name in use for free, and the directory has it twice (`fat32.c` 269, 1063, against `fat32.h` 119-121) |
| `CursorStray` | `MCFileCursor` | `NoStrayWrite` | a write after a seek to the end of a full last cluster goes outside the volume (`fat32.c` 875) |
| `CursorCut` | `MCFileCursor` | `NothingCutOff` | a link that cannot be read in a file being overwritten passes for its end: a new cluster is linked in, the rest of the file is cut off, and the write goes on (`fat32.c` 886-893, against 209-212) |
| `CursorShort` | `MCFileCursor` | `ShortMeansFull` | a write cut short by a failing `fat_set` or `cluster_zero` leaves the error flag clear and looks like a full volume (`fat32.c` 882-893, against `fat32.h` 163-165) |
| `CursorRetry` | `MCFileCursor` | `ShortMeansEof` | a retry after a failed FAT fetch reports end of file in mid-file (`fat32.c` 502, `kfs.c` 316-318) |
| `KIrqNmi` | `MCKIrq` | `DispatchesWhole` | an NMI inside a dispatch redirects the dispatch (`kirq.s` 303, 322) |
| `CCursorColour` | `MCCCursor` | `TextKeepsItsColour` | changing the colour repaints a character already on screen (`ccursor.s` 173, `console.c` 50-52) |
| `Calc` | `MCCalc` | `ErrorBeatsNa` | a formula that meets NA before ERROR answers NA: `@NA-2/0`, or a sum over an NA cell and then an ERROR cell (`expr.c` 143, 693, 735, against `expr.c` 34-35 and `exprtest.c` 22-24) |
| `Sheet` | `MCSheet` | `DeletesFollow` | deleting a row or column past the last used one empties the last used one (`sheet.c` 660-662, against `sheet.h` 117) |
| `Sheet` | `MCSheet` | `FormulasReturn` | a formula with a comma (`@NPV`, `@LOOKUP`) is saved in quotes, and a quoted field loads as a label: it comes back as text (`sheet.c` 203-220, 324-339, against `sheet.h` 36-37 and `sheettest.c` 18-20) |

In `Commands` a command that met a failed read may print OK and have done
something else; `CommandsTell` says which (`InTheWay`). With a sector of the
directory that cannot be read, mkdir and rename give a taken name a
second entry, and save and copy write a file over the entry of a
directory, whose files are then lost. With a link that cannot be read, rmdir
takes a directory that is not empty, and a new entry ends the directory where
the walk ended: the entries behind it are cut off (`fat32.c` 218-221, 269, 689,
826, 1063, 1128). The shell looks at `fat32_ioerr()` after a transfer, and
after none of these (`shell.c` 934). `CCursor` with `ArmTwice` TRUE
violates `NoTrail`: `ccur_on` resets `shown` without undrawing (`ccursor.s`
254-256). The kernel turns the cursor on at boot, and `kerntab.s` 234-238
tells programs to turn it on at each key wait: called while it shows, and
after the position has moved, it leaves a reversed cell.

Seen while translating, with nothing to run:

- **Allocator.** `kmem.c` 72-73 says that no two entries of the table touch;
  first fit places a block directly behind its predecessor (`kmem.c` 213).
  `kmem.h` 109-110 says `edit` asks whether its region is still reserved;
  `k_edit` (`kerntab.s` 488) enters the editor without asking.
- **Files.** A forward seek on a handle being written meets the cursor in the
  form a write leaves it (`fat32.c` 875), which a read does not take;
  `kfs.c` 390 calls either form correct. A short `fat32_write` after a failed
  `fat_set` or `cluster_zero` leaves the error flag clear if the failure was
  a write (`fat32.c` 882-893), so the caller takes it for a full volume
  (`fat32.h` 163-165); FS_WRITE looks at no flag at all (`kfs.c` 359). The FAT
  copies are written one after another and never compared (`fat32.c` 592).
  A handle closed after its name was deleted or truncated rewrites an
  entry that is not its own any more (`fat32.c` 949). `bytes_per_cluster` is 16 bits
  wide and a volume of 128 sectors in a cluster mounts (`fat32.c` 199).
- **Interrupts.** K_EDIT ends with `ccur_on` (`kerntab.s` 517), also for a
  program that had turned the cursor off, and `ccur_off` empties the VSYNC
  slot rather than give back the handler that was there. TIME_GET reads a
  latched counter in two halves (`kirq.s` 587), and IRQ_SET parks its arguments
  with interrupts on (`kirq.s` 535): a handler that makes the same call moves them.
- **Handles.** `kfs_open` checks no mode: 255 opens a file for reading and
  leaves its slot free, and the handle it returns names nothing (`kfs.c` 264).
- **Hand-over.** K_EXEC leaves the caller's handles open, so a few launches
  exhaust the tables (`lost` in `System`; `kexec.c` 25-28 speaks of the
  restart only). It neither mounts nor resolves a relative path. A launch
  from the desktop moves the directory of the launch: who entered the
  desktop from `/GAMES` comes back in the program's. A reset while a program
  runs counts as a return and skips the boot into the desktop. `rmdir` of
  the working directory leaves it standing.
- **Spreadsheet, document.** `cell_text_put` says "Refuse rather than truncate"
  and clips at 127 characters; a full arena loses the text and nothing is
  reported, and the arena never compacts. `rewrite_refs` walks characters: the
  tail of `1e6` and of `@LOG10(` is taken for a reference. A formula whose
  rewriting does not fit is flagged, and the recalculation clears the flag.
  A fill that overlaps its source out of step reads cells it has
  overwritten, where `sheet.h` says that overlap is handled. A sheet whose
  last row is in use saves, and its file does not load; a quoted last field with no
  newline comes back as a number or formula; an empty label is lost; a
  load that fails before it opens the file leaves the sheet, where the
  comment says empty. RECALC_PASSES is not enough for a long chain against the
  sweep, where the comment says it is.
- **Spreadsheet, screen.** The test at `kalk.c` 682 makes the drag of `/M` dead
  code. `view_set_titles` says the move is run again, and it is not. F2 on a
  label of full length cuts it. `fmt.c` prints -0.001 in `$` as `-0.00`.

## 7. Plan

Built: everything in section 2. What would come next, in this order:

1. `KTime` (`kirq.s` 582-640): the latched two-half counter read while a handler
   reads it too, and the offset stored in two halves.
2. `Mount` (`fat32.c` 86-205): layout arithmetic with its widths, and the
   theorem that a cluster of an accepted volume lies inside the partition.
3. `Keyboard` (`console.c` 361-476) and the line editor over it.
4. `fmt.c`: number formats, as digits.

Theorems to come: of `System`, the part of `CommandsTell` that is about other
names; of `Fat32`, `Structure` when a read of the FAT or of a directory fails.

## 8. Not modelled

- **Mounting** beyond whether it works, **TIME_GET and TIME_SET**, the
  **keyboard**: in the plan.
- **The shell's** line editor, its parsing of numbers, the commands that only
  print (help, ver, cls, dump, peek, mem, pwd) and the editor commands.
- **goshell without a kernel in the firmware**, which reloads it from the card.
- **Kernel call table**: marshalling of registers, no state of its own.
- **Number formats** (`fmt.c`) and the contents of a line of the sheet.
- **Floating point**: thin calls into a ROM image outside the repository;
  `Expr` takes small integers for its numbers, with a domain for each function.
- **Fonts, start-up code, linker scripts, converter, tests and demos**: data,
  build time, or drivers for the machine. They were read for the states and
  the inputs the code meets.
- **Timing**: how long a DMA or an interrupt takes, and I2C bit timing.
- **Printing and parsing**: wording, 8.3 folding, columns.

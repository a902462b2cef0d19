------------------------------- MODULE System -------------------------------
(***************************************************************************)
(* The whole machine between two power cycles: the prompt, the desktop     *)
(* (programs/desktop/desktop.c) and a program of anybody's, one of which   *)
(* has the machine at a time, the kernel's file calls under them and the   *)
(* card under those.                                                       *)
(***************************************************************************)
EXTENDS Shell

CONSTANTS
  Card,         \* what may be on the card at the start
  Lines,        \* lines that are typed
  Tiles,        \* the paths of the tiles; none for FILES and EXIT
  TileCols,     \* TILE_COLS
  TileFiles, TileExit,       \* TILE_FILES and TILE_EXIT, counted from 0
  BrowseMax, BrowseRows,     \* BROWSE_MAX and BROWSE_ROWS
  Calls,        \* the calls programs make
  Writable,     \* pieces that programs write
  FileMax       \* bound: pieces in a file that a program writes

ASSUME SystemAssumption ==
  /\ Tiles \in Seq(Paths) /\ Tiles # <<>>
  /\ TileCols \in Nat \ {0} /\ BrowseMax \in Nat \ {0} /\ BrowseRows \in Nat \ {0}
  /\ TileFiles \in 0 .. Len(Tiles) - 1 /\ TileExit \in 0 .. Len(Tiles) - 1

VARIABLES
  desk,         \* what the desktop keeps: selected, and the browser's own
  typed         \* the line the last step carried out, and whether a device access
                \* may have failed under it

vars == <<shellVars, desk, typed>>

-----------------------------------------------------------------------------
(* The desktop. *)

NewDesk == [sel |-> 0, browsing |-> FALSE, path |-> Root, list |-> <<>>, row |-> 0, top |-> 0]

AtTiles == runs = "desktop" /\ ~desk.browsing
AtFiles == runs = "desktop" /\ desk.browsing
Shows(d) == desk' = d /\ UNCHANGED shellVars

\* main(): the keys that move the selection
Digit(n) == AtTiles /\ Shows([desk EXCEPT !.sel = n])
DeskLeft == AtTiles /\ desk.sel > 0 /\ Shows([desk EXCEPT !.sel = @ - 1])
DeskRight == AtTiles /\ desk.sel + 1 < Len(Tiles) /\ Shows([desk EXCEPT !.sel = @ + 1])
DeskUp == AtTiles /\ desk.sel >= TileCols /\ Shows([desk EXCEPT !.sel = @ - TileCols])
DeskDown ==
  /\ AtTiles /\ desk.sel + TileCols < Len(Tiles)
  /\ Shows([desk EXCEPT !.sel = @ + TileCols])

\* chdir_to() the program's own directory; nobody looks whether it worked.
Chdired(dir, ready, io) == IF ready /\ MayEnter(dir, io) THEN dir ELSE cwd

LaunchedUnflagged(c, dir, ok) ==                                   \* mutant
  IF ok THEN Saved(c, dir) ELSE [c EXCEPT !.resume = FALSE]
\* The flag is up when K_EXEC is called and down when it comes back.
Launched(c, dir, ok) == [(IF ok THEN Saved(c, dir) ELSE c) EXCEPT !.resume = ok]

\* launch()
Launch(p, ioDir, io) ==
  LET ready == Ready(ioDir)
      dir == Chdired(Front(p), ready, ioDir)
  IN  /\ mounted' = ready /\ cwd' = dir
      /\ Kexec(p, ready, dir, "desktop", io)
      /\ carry' = Launched(carry, dir, ExecRuns(p, ready, io))
      /\ desk' = IF ExecRuns(p, ready, io) THEN NewDesk ELSE desk

\* load_entries(): directories and programs, as many as there is room for
Runnable(p, n) == IsDir(tree, Append(p, n)) \/ n[2] = "BIN"
Entries(p, io) ==
  LET all == Plain(SelectSeq(Listing(tree, p), LAMBDA n : Runnable(p, n)))
      most == IF Len(all) < BrowseMax THEN Len(all) ELSE BrowseMax
  IN  {SubSeq(all, 1, n) : n \in IF io THEN 0 .. most ELSE {most}}

LoadEntries(p, io) ==
  /\ IF Ready(io) /\ FreeDirs # {} /\ IsDir(tree, p)
     THEN \E list \in Entries(p, io) :
            desk' = [desk EXCEPT !.browsing = TRUE, !.path = p, !.list = list,
                                 !.row = 0, !.top = 0]
     ELSE desk' = [desk EXCEPT !.browsing = TRUE, !.path = p, !.list = <<>>,
                               !.row = 0, !.top = 0]
  /\ mounted' = Ready(io)
  /\ answer' = "none"
  /\ UNCHANGED <<inserted, tree, cwd, files, dirs, carry, held, lost, machine, osd>>

\* exit_prompt(): the flag down, then K_EXIT
ExitPrompt(io) ==
  /\ AtTiles
  /\ Restart(ResumeTaken(carry), io)
  /\ desk' = NewDesk

\* The key b, wherever the selection is, as e is EXIT
Browse(io) == AtTiles /\ LoadEntries(Root, io)

\* Return on a tile
OpenTile(ioDir, io) ==
  /\ AtTiles /\ desk.sel # TileExit
  /\ IF desk.sel # TileFiles /\ Tiles[desk.sel + 1] # Root
     THEN Launch(Tiles[desk.sel + 1], ioDir, io)
     ELSE LoadEntries(Root, io)

\* browser()
FilesEsc == AtFiles /\ Shows([NewDesk EXCEPT !.sel = desk.sel])
FilesParent(io) ==
  AtFiles /\ LoadEntries(IF desk.path = Root THEN Root ELSE Front(desk.path), io)
FilesUp ==
  /\ AtFiles /\ desk.row > 0
  /\ Shows([desk EXCEPT !.row = @ - 1, !.top = IF desk.row - 1 < @ THEN desk.row - 1 ELSE @])
FilesDown ==
  /\ AtFiles /\ desk.row + 1 < Len(desk.list)
  /\ Shows([desk EXCEPT !.row = @ + 1, !.top = IF desk.row + 1 >= @ + BrowseRows
                                              THEN desk.row + 2 - BrowseRows ELSE @])
FilesOpen(ioDir, io) ==
  /\ AtFiles /\ desk.row < Len(desk.list) /\ Len(desk.path) < MaxDepth
  /\ LET p == Append(desk.path, desk.list[desk.row + 1]) IN
     IF IsDir(tree, p) THEN LoadEntries(p, io) ELSE Launch(p, ioDir, io)

DesktopKey ==
  \/ \E n \in 0 .. Len(Tiles) - 1 : Digit(n)
  \/ DeskLeft \/ DeskRight \/ DeskUp \/ DeskDown
  \/ FilesEsc \/ FilesUp \/ FilesDown
  \/ \E io \in BOOLEAN : Browse(io) \/ FilesParent(io) \/ ExitPrompt(io)
  \/ \E ioDir, io \in BOOLEAN : OpenTile(ioDir, io) \/ FilesOpen(ioDir, io)

-----------------------------------------------------------------------------
(* A program: kernel calls in any order. *)

ByProgram == runs = "program" /\ UNCHANGED <<machine, osd, desk>>

\* A program gives a handle back before it does away with the name, or uses it
\* for something else.
IdleAt(p) == \A h \in DOMAIN held : ~IsPrefix(p, Plain(held[h][2]))
Idle(arg) == IdleAt(Abspath(arg).path)

FsCall(c, io) ==
  \/ c.call = "open" /\ (c.mode = 1 => Idle(c.arg)) /\ FsOpen(c.arg, c.mode, io)
  \/ c.call = "close" /\ FsClose(c.h, io)
  \/ c.call = "write" /\ c.h \in DOMAIN held /\ Len(files[c.h].data) < FileMax
                      /\ \E v \in Writable : FsWrite(c.h, v, io)
  \/ c.call = "delete" /\ Idle(c.arg) /\ FsDelete(c.arg, io)
  \/ c.call = "rename" /\ Idle(c.arg) /\ IdleAt(Sibling(Abspath(c.arg).path, c.name))
                       /\ FsRename(c.arg, c.name, io)
  \/ c.call = "mkdir" /\ Idle(c.arg) /\ FsMkdir(c.arg, io)
  \/ c.call = "rmdir" /\ Idle(c.arg) /\ FsRmdir(c.arg, io)
  \/ c.call = "diropen" /\ FsDirOpen(c.arg, io)
  \/ c.call = "dirnext" /\ FsDirNext(c.h, io)
  \/ c.call = "dirclose" /\ FsDirClose(c.h)
  \/ c.call = "chdir" /\ FsChdir(c.arg, io)

ProgramCalls == \E c \in Calls, io \in BOOLEAN : ByProgram /\ FsCall(c, io)

\* A path that is not absolute is no path to fat32_open().
ProgramExec ==
  \E c \in Calls, io \in BOOLEAN :
    /\ runs = "program" /\ c.call = "exec"
    /\ Kexec(c.arg.segs, mounted /\ c.arg.abs, cwd, from, io)
    /\ carry' = IF ExecRuns(c.arg.segs, mounted /\ c.arg.abs, io)
                THEN Saved(carry, cwd) ELSE carry
    /\ UNCHANGED <<mounted, cwd, desk>>

-----------------------------------------------------------------------------

NoLine == [word |-> "nothing", args |-> <<>>, name |-> Here, io |-> FALSE]

Init ==
  /\ inserted \in BOOLEAN /\ tree \in Card /\ osd \in BOOLEAN
  /\ mounted = FALSE /\ cwd = Root /\ carry = Unarmed
  /\ files = [h \in FileHandles |-> Closed] /\ dirs = [h \in DirHandles |-> Unread]
  /\ held = <<>> /\ lost = {} /\ answer = "none"
  /\ runs = "off" /\ base = Zero /\ ram = [c \in Cells |-> Zero]
  /\ home = Root /\ from = "prompt"
  /\ desk = NewDesk /\ typed = NoLine

Prompt == \E line \in Lines, io \in BOOLEAN :
  /\ ShExec(line, io)
  /\ typed' = [word |-> line.word, args |-> line.args, name |-> line.name, io |-> io]
  /\ UNCHANGED desk
Returns == \E io \in BOOLEAN :
  (ProgramExit(io) \/ Reset(io) \/ PowerUp(io)) /\ desk' = NewDesk
Power == PowerDown /\ desk' = NewDesk

Silently == typed' = NoLine
Next ==
  \/ Prompt
  \/ DesktopKey /\ Silently
  \/ ProgramCalls /\ Silently
  \/ ProgramExec /\ Silently
  \/ Returns /\ Silently
  \/ Power /\ Silently

Spec == Init /\ [][Next]_vars

-----------------------------------------------------------------------------
(* Properties. *)

\* Whatever was launched, chained to or refused in between, and wherever the
\* program went (kfs_chdir), the machine comes back to the directory the last
\* hand-over was made from; a reset of an idle prompt comes back to the root
\* (run_image, kexec, launch, kfs_carry_restore).
ComesHome ==
  [][ \A io \in BOOLEAN :
        /\ ProgramExit(io) \/ ExitPrompt(io) => cwd' = home
        /\ (runs = "prompt" /\ Reset(io)) \/ PowerUp(io) => cwd' = Root ]_vars

\* What can be loaded in the place of the desktop, when it is its turn
DesktopLoads == inserted /\ Loadable(DesktopPath) /\ HasMagic(tree[DesktopPath].data)

\* A program ends in the desktop when it was launched from there, at whatever
\* distance, and at the prompt otherwise; EXIT in the desktop reaches the
\* prompt, whatever the switch of the OSD says (sh_run, launch, exit_prompt).
DesktopOwed ==
  [][ \A io \in BOOLEAN :
        /\ ProgramExit(io) =>
             (runs' # "prompt" <=> from = "desktop" /\ DesktopLoads /\ ~io)
        /\ ExitPrompt(io) => runs' = "prompt" ]_vars

\* A handle is the file its program opened with it, in its mode, and no slot is
\* taken that neither this program nor one it replaced still has (kfs_open,
\* kfs_close, kfs_diropen, kfs_dirclose).
Taken == {h \in FileHandles : files[h].mode # 0} \cup {h \in DirHandles : dirs[h].used}
HandlesRight ==
  /\ Taken = DOMAIN held \cup lost /\ DOMAIN held \cap lost = {}
  /\ \A h \in DOMAIN held :
       held[h] = IF h \in FileHandles THEN <<files[h].mode, files[h].path>>
                 ELSE <<0, dirs[h].path>>

At(k) == Abspath(typed'.args[k]).path
Target == IF typed'.word = "copy" THEN At(2) ELSE At(1)
NewName == Sibling(At(1), typed'.args[2])

\* What the line may change on the card: its own names, with what is under
\* them, and where a directory is cut off its other entries.
Touches(p) ==
  LET Under(d) == IsPrefix(d, Plain(p)) IN
  CASE typed'.word = "rename" -> Under(At(1)) \/ Under(NewName)
    [] typed'.word \in {"del", "rmdir"} -> Under(At(1))
    [] typed'.word \in {"mkdir", "save", "copy"} ->
         IF typed'.io THEN Under(Front(Target)) ELSE Plain(p) = Target
    [] OTHER -> FALSE

\* A name is gone, unless its directory held it twice.
Gone(p) == Exists(tree', p) => Exists(tree, Hidden(p))

\* What the line has done when it says OK
Done ==
  LET word == typed'.word
      args == typed'.args
      Block(d, n, V(_)) == [c \in Cells |-> IF c \in d .. d + n - 1 THEN V(c - d) ELSE ram[c]]
      Handed(p) == base' = tree[p].data[1] /\ base' \in Images /\ runs' # "prompt"
  IN
  CASE word = "cd" -> cwd' = At(1) /\ IsDir(tree, cwd')
    [] word = "ls" -> IsDir(tree, IF args = <<>> THEN cwd ELSE At(1))
    [] word = "type" -> IsFile(tree, At(1))
    [] word = "copy" -> At(1) # At(2) => tree'[At(2)] = tree[At(1)]
    [] word = "save" -> tree'[At(1)] = File([k \in 1 .. args[3] |-> ram[args[2] + k - 1]])
    [] word = "load" -> \A k \in DOMAIN tree[At(1)].data :
         ram'[(IF Len(args) = 2 THEN args[2] ELSE Stage) + k - 1] = tree[At(1)].data[k]
    [] word = "del" -> IsFile(tree, At(1)) /\ Gone(At(1))
    [] word = "mkdir" -> ~Exists(tree, At(1)) /\ IsDir(tree', At(1))
    [] word = "rmdir" -> Within(tree, At(1)) = {} /\ Gone(At(1))
    [] word = "rename" -> Gone(At(1)) /\ ~Exists(tree, NewName) /\ tree'[NewName] = tree[At(1)]
    [] word = "poke" -> ram' = Block(args[1], 1, LAMBDA k : args[2])
    [] word = "fill" -> ram' = Block(args[1], args[2], LAMBDA k : args[3])
    [] word = "move" -> ram' = Block(args[1], args[3], LAMBDA k : ram[args[2] + k])
    [] word = "run" -> Handed(At(1))
    [] word = "x" -> Handed(DesktopPath)
    [] word = "go" -> base' = base /\ base \in Images /\ runs' # "prompt"

\* What a command that says OK and has not done it was asked to make a name of,
\* or to take for empty
InTheWay ==
  CASE typed'.word \in {"mkdir", "save", "copy"} -> Exists(tree, Target)
    [] typed'.word = "rename" -> Exists(tree, NewName)
    [] typed'.word = "rmdir" -> Within(tree, At(1)) # {}
    [] OTHER -> FALSE

\* A command that answers OK has done what it says, a move of overlapping blocks
\* included, unless a device access may have failed under it while something was
\* in the way of the name it makes or of the directory it removes; one that
\* answers with an error has launched nothing and left the directory and the
\* carry-over block alone; and neither has touched a name but its own, or with
\* a failed access those it shares a directory with (the cmd_ functions, sh_exec).
CommandsTell ==
  [][ typed' # NoLine /\ typed'.word # "a program" =>
        /\ IF answer' = "OK" THEN Done \/ (typed'.io /\ InTheWay)
           ELSE cwd' = cwd /\ carry' = carry /\ runs' = "prompt"
        /\ \A p \in DOMAIN tree \cup DOMAIN tree' :
             Touches(p) \/ (p \in DOMAIN tree \cap DOMAIN tree' /\ tree'[p] = tree[p]) ]_vars

\* A copy that answers OK has made the destination what the source was, the
\* source itself included (cmd_copy).
CopyTells ==
  [][ typed'.word = "copy" /\ answer' = "OK" => tree'[At(2)] = tree[At(1)] ]_vars
=============================================================================

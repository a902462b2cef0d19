------------------------------- MODULE Shell -------------------------------
(***************************************************************************)
(* The prompt (runtime/shell.c), what it hands the machine to, and how the *)
(* machine comes back: K_EXEC (runtime/kexec.c), K_EXIT, a reset.          *)
(*                                                                         *)
(* Memory is a window of RamTop cells a piece wide; the staging area of an *)
(* image begins at cell 0.                                                 *)
(***************************************************************************)
EXTENDS Kfs

CONSTANTS
  RamTop,       \* cells of memory the commands are given
  ExecMax,      \* X816_EXEC_MAX
  Desktop,      \* the first piece of the desktop's image
  Images,       \* first pieces that carry the magic
  DesktopPath,  \* /DESKTOP/X.BIN
  MaxArgs       \* SH_MAX_ARGS, less the command

ASSUME ShellAssumption ==
  /\ RamTop \in Nat \ {0} /\ ExecMax \in 1 .. RamTop
  /\ Images \subseteq Pieces /\ Desktop \in Images
  /\ DesktopPath \in Paths \ {Root}

VARIABLES
  runs,         \* who has the machine
  base,         \* the first piece of what is at $01:0000
  ram,          \* memory
  osd,          \* the switch "boot desktop" is on
  home,         \* the working directory when a program was last handed over to
  from          \* who launched the program, if a chain of them the first

machine == <<runs, base, ram, home, from>>
shellVars == <<kfsVars, machine, osd>>

Cells == 0 .. RamTop - 1
Stage == 0

-----------------------------------------------------------------------------
(* Handing over. *)

\* Memory from a on, as far as there are pieces of data
Overlaid(a, data) ==
  [c \in Cells |-> IF c \in a .. a + Len(data) - 1 THEN data[c - a + 1] ELSE ram[c]]

\* load_file(), goshell.c and kexec.c: whole clusters, the rest, and the total
Loadable(p) == IsFile(tree, p) /\ Len(tree[p].data) \in 1 .. ExecMax
HasMagic(data) == data[1] \in Images

\* The staging area after a load of p, or of as much as came before io
Staged(p, a, io) ==
  \E n \in IF io THEN 0 .. Len(tree[p].data) - 1 ELSE {Len(tree[p].data)} :
    ram' = Overlaid(a, SubSeq(tree[p].data, 1, n))

\* exec.s moves the image down and enters it.
Enter(image, dir, by) ==
  /\ base' = image
  /\ runs' = IF image = Desktop THEN "desktop" ELSE "program"
  /\ home' = dir /\ from' = by
  /\ answer' = "OK"

Keeps(who, code) ==
  runs' = who /\ answer' = code /\ UNCHANGED <<base, home, from>>

\* Every refusal leaves the block alone.
SavedIf(c, dir, ok) == IF ok THEN Saved(c, dir) ELSE c

\* run_image() in the directory dir with the block c
RunImage(p, resolved, dir, c, ready, io) ==
  LET found == ready /\ resolved /\ Loadable(p)
      ok == found /\ ~io /\ HasMagic(tree[p].data)
  IN  /\ mounted' = ready
      /\ cwd' = dir
      /\ carry' = SavedIf(c, dir, ok)
      /\ IF found THEN Staged(p, Stage, io) ELSE UNCHANGED ram
      /\ IF ok THEN Enter(tree[p].data[1], dir, "prompt") ELSE Keeps("prompt", "error")

-----------------------------------------------------------------------------
(* Coming back. *)

\* Is somebody returning?  Asked before the block is consumed.
Returning(c) == c.armed

\* The kernel starts over: cstartup has put its variables back, and sh_run()
\* adopts the directory and may hand over to the desktop at once.
Restart(c, io) ==
  LET dir == Adopted(c)
      after == ResumeTaken(Restored(c))
      desktop == c.resume \/ (~Returning(c) /\ osd)
  IN  /\ files' = [h \in FileHandles |-> Closed]
      /\ dirs' = [h \in DirHandles |-> Unread]
      /\ held' = <<>> /\ lost' = {}
      /\ IF desktop
         THEN RunImage(DesktopPath, TRUE, dir, after, inserted /\ ~io, io)
         ELSE /\ mounted' = FALSE /\ cwd' = dir /\ carry' = after
              /\ runs' = "prompt" /\ answer' = "none"
              /\ UNCHANGED <<base, ram, home, from>>
      /\ UNCHANGED <<inserted, tree, osd>>

\* K_EXIT of a program
ProgramExit(io) == runs = "program" /\ Restart(carry, io)

\* A reset leaves memory as it is.
Reset(io) == runs # "off" /\ Restart(carry, io)

\* Power comes up on a block that says nothing.
PowerUp(io) == runs = "off" /\ Restart(Unarmed, io)

PowerDown ==
  /\ runs # "off" /\ runs' = "off"
  /\ mounted' = FALSE /\ cwd' = Root /\ carry' = Unarmed
  /\ files' = [h \in FileHandles |-> Closed] /\ dirs' = [h \in DirHandles |-> Unread]
  /\ held' = <<>> /\ lost' = {} /\ answer' = "none"
  /\ base' = Zero /\ ram' = [c \in Cells |-> Zero]
  /\ home' = Root /\ from' = "prompt"
  /\ UNCHANGED <<inserted, tree, osd>>

-----------------------------------------------------------------------------
(* K_EXEC: the path goes to fat32_open() as it stands. *)

ExecCode(p, ready, io) ==
  IF ~ready \/ ~IsFile(tree, p) THEN "NOTFOUND"
  ELSE IF Loadable(p) /\ io THEN "IO" ELSE "BADARG"

ExecRuns(p, ready, io) == ready /\ Loadable(p) /\ ~io /\ HasMagic(tree[p].data)

\* K_EXEC of p from the directory dir.  The handles of the program that asked
\* stay open, and nobody has them.
Kexec(p, ready, dir, by, io) ==
  /\ IF ready /\ Loadable(p) THEN Staged(p, Stage, io) ELSE UNCHANGED ram
  /\ IF ExecRuns(p, ready, io)
     THEN Enter(tree[p].data[1], dir, by) /\ lost' = lost \cup DOMAIN held /\ held' = <<>>
     ELSE Keeps(runs, ExecCode(p, ready, io)) /\ UNCHANGED <<lost, held>>
  /\ UNCHANGED <<inserted, tree, files, dirs, osd>>

-----------------------------------------------------------------------------
(* Commands.  Each reports OK or error; only the card commands mount. *)

Reports(word, ready) ==
  /\ answer' = word
  /\ mounted' = ready
  /\ UNCHANGED <<inserted, files, dirs, carry, held, lost, machine, osd>>

Fails(ready) == Reports("error", ready) /\ UNCHANGED <<tree, cwd>>

\* Commands on a path of the card: NO CARD, too long, or Do.
OnCard(args, io, Do(_)) ==
  LET at == [k \in DOMAIN args |-> Abspath(args[k])] IN
  IF Ready(io) /\ \A k \in DOMAIN at : at[k].ok
  THEN Do([k \in DOMAIN at |-> at[k].path]) ELSE Fails(Ready(io))

Does(t) == tree' = t /\ UNCHANGED cwd /\ Reports("OK", TRUE)
Breaks(t) == tree' = t /\ UNCHANGED cwd /\ Reports("error", TRUE)

\* A call of fat32.c is all there is to the command.
Results(outcomes) == \E r \in outcomes : IF r.ok THEN Does(r.tree) ELSE Breaks(r.tree)

CmdCd(arg, io) ==
  OnCard(<<arg>>, io, LAMBDA at :
    IF MayEnter(at[1], io)
    THEN cwd' = at[1] /\ UNCHANGED tree /\ Reports("OK", TRUE)
    ELSE Fails(TRUE))

\* ls and type: nothing but the screen and the answer.  A directory that
\* cannot be read to its end is listed as far as it goes.
CmdLs(arg, io) ==
  OnCard(<<arg>>, io, LAMBDA at :
    \/ IsDir(tree, at[1]) /\ Does(tree)
    \/ ~(IsDir(tree, at[1]) /\ ~io) /\ Fails(TRUE))
CmdType(arg, io) ==
  OnCard(<<arg>>, io, LAMBDA at :
    IF IsFile(tree, at[1]) /\ ~io THEN Does(tree) ELSE Fails(TRUE))

CmdDel(arg, io) == OnCard(<<arg>>, io, LAMBDA at : Results(Unlinking(tree, at[1], io)))
CmdRename(arg, name, io) ==
  OnCard(<<arg>>, io, LAMBDA at : Results(Renaming(tree, at[1], name, io)))
CmdMkdir(arg, io) == OnCard(<<arg>>, io, LAMBDA at : Results(Making(tree, at[1], io)))
CmdRmdir(arg, io) == OnCard(<<arg>>, io, LAMBDA at : Results(Removing(tree, at[1], io)))

\* A write or a close that fails leaves the entry with nothing in it: it gets
\* its chain and its size in fat32_close() only.
Rewritten(p, ds, io) ==
  \E r \in Creating(tree, p, io) :
    \/ ~r.ok /\ Breaks(r.tree)
    \/ r.ok /\ \E data \in ds : Does(Put(r.tree, r.at, File(data)))
    \/ r.ok /\ io /\ Breaks(r.tree)

CmdSave(arg, a, n, io) ==
  OnCard(<<arg>>, io, LAMBDA at :
    IF n = 0 THEN Fails(TRUE)
    ELSE Rewritten(at[1], {[k \in 1 .. n |-> ram[a + k - 1]]}, io))

\* The destination is emptied before the first piece is read.
Copied(src, dst) ==
  IF src = dst THEN ReadWhileRewritten(tree[src].data) ELSE {tree[src].data}
CmdCopy(from_, to, io) ==
  OnCard(<<from_, to>>, io, LAMBDA at :
    IF ~IsFile(tree, at[1]) THEN Fails(TRUE)
    ELSE \/ io /\ Fails(TRUE)
         \/ Rewritten(at[2], Copied(at[1], at[2]), io))

-----------------------------------------------------------------------------
(* Memory. *)

Memory(m) ==
  /\ ram' = m
  /\ answer' = "OK"
  /\ UNCHANGED <<inserted, tree, kernel, carry, held, lost, runs, base, home, from, osd>>

CmdPoke(a, v) == Memory([ram EXCEPT ![a] = v])
CmdFill(a, n, v) == Memory([c \in Cells |-> IF c \in a .. a + n - 1 THEN v ELSE ram[c]])

\* One piece after the other: from the end when the block moves up.
MoveUpwards(d, s, n) ==                                            \* mutant
  FoldLeft(LAMBDA m, k : [m EXCEPT ![d + k] = m[s + k]], ram, [k \in 1 .. n |-> k - 1])
Moved(d, s, n) ==
  LET turns == [k \in 1 .. n |-> IF d > s THEN n - k ELSE k - 1]
  IN  FoldLeft(LAMBDA m, k : [m EXCEPT ![d + k] = m[s + k]], ram, turns)
CmdMove(d, s, n) == Memory(Moved(d, s, n))

CmdLoad(arg, a, io) ==
  OnCard(<<arg>>, io, LAMBDA at :
    IF ~Loadable(at[1]) THEN Fails(TRUE)
    ELSE /\ Staged(at[1], a, io)
         /\ answer' = IF io THEN "error" ELSE "OK"
         /\ mounted' = TRUE
         /\ UNCHANGED <<inserted, tree, cwd, files, dirs, carry, held, lost,
                        runs, base, home, from, osd>>)

-----------------------------------------------------------------------------
(* Programs. *)

Run(p, resolved, io) ==
  /\ RunImage(p, resolved, cwd, carry, Ready(io), io)
  /\ UNCHANGED <<inserted, tree, files, dirs, held, lost, osd>>
CmdRun(arg, io) == Run(Abspath(arg).path, Abspath(arg).ok, io)
CmdX(io) == Run(DesktopPath, TRUE, io)

\* go enters whatever image lies at $01:0000.
CmdGo ==
  IF base \notin Images THEN Fails(mounted)
  ELSE /\ Enter(base, cwd, "prompt")
       /\ carry' = Saved(carry, cwd)
       /\ UNCHANGED <<inserted, tree, kernel, held, lost, ram, osd>>

\* An unknown word is a program's name, with .BIN unless it has a dot.
Candidate(word) == IF word[2] = "" THEN <<word[1], "BIN">> ELSE word
TryProgram(word, io) ==
  LET at == Abspath([abs |-> FALSE, segs |-> <<Candidate(word)>>]) IN
  IF Ready(io) /\ at.ok /\ IsFile(tree, at.path) THEN Run(at.path, TRUE, io)
  ELSE Fails(Ready(io))

\* sh_commands[]: the fewest and the most arguments of each
Builtin ==
  [cd |-> <<1, 1>>, ls |-> <<0, 1>>, type |-> <<1, 1>>, del |-> <<1, 1>>,
   rename |-> <<2, 2>>, mkdir |-> <<1, 1>>, rmdir |-> <<1, 1>>, save |-> <<3, 3>>,
   copy |-> <<2, 2>>, poke |-> <<2, 2>>, fill |-> <<3, 3>>, move |-> <<3, 3>>,
   load |-> <<1, 2>>, run |-> <<1, 1>>, x |-> <<0, 0>>, go |-> <<0, 0>>]

Command(word, a, io) ==
  CASE word = "cd" -> CmdCd(a[1], io)
    [] word = "ls" -> CmdLs(IF a = <<>> THEN [abs |-> FALSE, segs |-> <<>>] ELSE a[1], io)
    [] word = "type" -> CmdType(a[1], io)
    [] word = "del" -> CmdDel(a[1], io)
    [] word = "rename" -> CmdRename(a[1], a[2], io)
    [] word = "mkdir" -> CmdMkdir(a[1], io)
    [] word = "rmdir" -> CmdRmdir(a[1], io)
    [] word = "save" -> CmdSave(a[1], a[2], a[3], io)
    [] word = "copy" -> CmdCopy(a[1], a[2], io)
    [] word = "poke" -> CmdPoke(a[1], a[2])
    [] word = "fill" -> CmdFill(a[1], a[2], a[3])
    [] word = "move" -> CmdMove(a[1], a[2], a[3])
    [] word = "load" -> CmdLoad(a[1], IF Len(a) = 2 THEN a[2] ELSE Stage, io)
    [] word = "run" -> CmdRun(a[1], io)
    [] word = "x" -> CmdX(io)
    [] word = "go" -> CmdGo

\* sh_exec(): a line is a word and what follows it; a word that is no command
\* is the name of a program.
ShExec(line, io) ==
  /\ runs = "prompt"
  /\ IF Len(line.args) > MaxArgs THEN Fails(mounted)
     ELSE IF line.word \notin DOMAIN Builtin THEN TryProgram(line.name, io)
     ELSE IF Len(line.args) \in Builtin[line.word][1] .. Builtin[line.word][2]
          THEN Command(line.word, line.args, io)
     ELSE Fails(mounted)
=============================================================================

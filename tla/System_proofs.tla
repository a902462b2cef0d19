---------------------------- MODULE System_proofs ----------------------------
(***************************************************************************)
(* Proofs about the machine between two power cycles, whatever is on the   *)
(* card, typed, called or launched and whichever device access fails:      *)
(* handles are their programs' own, the machine comes back to the          *)
(* directory it was handed over from, and to whom it is owed.              *)
(*                                                                         *)
(* Two inductive invariants.  HInv is about the tables: HandlesRight and   *)
(* the shape of the two tables.  CarryInv is about the block that outlives *)
(* a restart and says what each of the four that may have the machine      *)
(* relies on finding in it.                                                *)
(***************************************************************************)
EXTENDS System, Numbers

-----------------------------------------------------------------------------
(* The handles. *)

tables == <<files, dirs, held, lost>>

\* Nothing typed at the prompt opens, closes or loses a handle.
LEMMA CommandsKeepTables ==
  ASSUME NEW line, NEW io \in BOOLEAN, ShExec(line, io)
  PROVE  UNCHANGED tables
<1> USE DEF tables, OnCard, Fails, Reports, Does, Breaks, Results, Rewritten, Memory, kernel
<1>1. ASSUME NEW arg, CmdCd(arg, io) \/ CmdLs(arg, io) \/ CmdType(arg, io)
      PROVE  UNCHANGED tables
  BY <1>1 DEF CmdCd, CmdLs, CmdType
<1>2. ASSUME NEW arg, CmdDel(arg, io) \/ CmdMkdir(arg, io) \/ CmdRmdir(arg, io)
      PROVE  UNCHANGED tables
  BY <1>2 DEF CmdDel, CmdMkdir, CmdRmdir
<1>3. ASSUME NEW arg, NEW name, CmdRename(arg, name, io) \/ CmdCopy(arg, name, io)
      PROVE  UNCHANGED tables
  BY <1>3 DEF CmdRename, CmdCopy
<1>4. ASSUME NEW arg, NEW a, NEW n, CmdSave(arg, a, n, io) \/ CmdLoad(arg, a, io)
      PROVE  UNCHANGED tables
  BY <1>4 DEF CmdSave, CmdLoad
<1>5. ASSUME NEW a, NEW b, NEW c, CmdPoke(a, b) \/ CmdFill(a, b, c) \/ CmdMove(a, b, c)
      PROVE  UNCHANGED tables
  BY <1>5 DEF CmdPoke, CmdFill, CmdMove
<1>6. ASSUME NEW p, NEW resolved, Run(p, resolved, io)
      PROVE  UNCHANGED tables
  BY <1>6 DEF Run
<1>7. ASSUME CmdX(io) \/ CmdGo
      PROVE  UNCHANGED tables
  BY <1>6, <1>7 DEF CmdX, CmdGo
<1>8. ASSUME NEW word, NEW a, word \in DOMAIN Builtin, Command(word, a, io)
      PROVE  UNCHANGED tables
  BY <1>1, <1>2, <1>3, <1>4, <1>5, <1>6, <1>7, <1>8 DEF Command, Builtin, CmdRun
<1>9. ASSUME NEW word, TryProgram(word, io)
      PROVE  UNCHANGED tables
  BY <1>6, <1>9 DEF TryProgram
<1> QED
  BY <1>8, <1>9 DEF ShExec

\* A file's handle is never a directory's.
LEMMA HandleRanges ==
  /\ FileHandles \subseteq Nat /\ DirHandles \subseteq Nat
  /\ FileHandles \cap DirHandles = {}
BY KfsAssumption DEF FileHandles, DirHandles

\* The slot that is found is one of the free ones.
LEMMA LowestIsOne ==
  ASSUME NEW S \in SUBSET Nat, S # {}
  PROVE  Lowest(S) \in S
BY LeastElement DEF Lowest

\* fmode[] and files[] are arrays of their size, and so are dused[] and dirs[].
FileTable ==
  files = [h \in FileHandles |-> [mode |-> files[h].mode, path |-> files[h].path,
                                  data |-> files[h].data]]
DirTable ==
  dirs = [h \in DirHandles |-> [used |-> dirs[h].used, path |-> dirs[h].path,
                                at |-> dirs[h].at]]
HInv == FileTable /\ DirTable /\ HandlesRight

\* The mode is one of those kfs.h has, or any other whose successor is not
\* zero in a byte: FS_OPEN stores that byte, and zero is a free slot.
ModesFit ==
  \A c \in Calls : c.call = "open" => c.mode \in Nat /\ (c.mode + 1) % ModeMod # 0

\* A new handle is added to the program's, and the others stay.
LEMMA GivenAgrees ==
  ASSUME NEW h, NEW what, Given(h, what), h \notin DOMAIN held
  PROVE  /\ DOMAIN held' = DOMAIN held \cup {h} /\ held'[h] = what
         /\ \A g \in DOMAIN held : held'[g] = held[g]
BY DEF Given

\* FS_OPEN on a free slot.
LEMMA OpenKeeps ==
  ASSUME HInv, NEW h \in FileHandles, files[h].mode = 0,
         NEW mode \in Nat, (mode + 1) % ModeMod # 0, NEW p, OpenedAs(h, mode, p)
  PROVE  HInv'
<1>1. h \notin Taken /\ h \notin DirHandles
  BY HandleRanges DEF Taken
<1>2. h \notin DOMAIN held /\ h \notin lost
  BY <1>1 DEF HInv, HandlesRight
<1>3. PICK data :
        files' = [files EXCEPT ![h] = [mode |-> (mode + 1) % ModeMod, path |-> p, data |-> data]]
  BY DEF OpenedAs
<1>4. dirs' = dirs /\ lost' = lost /\ Given(h, <<(mode + 1) % ModeMod, p>>)
  BY DEF OpenedAs
<1>5. /\ DOMAIN held' = DOMAIN held \cup {h} /\ held'[h] = <<(mode + 1) % ModeMod, p>>
      /\ \A g \in DOMAIN held : held'[g] = held[g]
  BY <1>2, <1>4, GivenAgrees
<1>6. /\ DOMAIN files = FileHandles
      /\ files'[h] = [mode |-> (mode + 1) % ModeMod, path |-> p, data |-> data]
      /\ \A g \in FileHandles \ {h} : files'[g] = files[g]
  <2>1. DOMAIN files = FileHandles
    BY DEF HInv, FileTable
  <2> QED
    BY <1>3, <2>1
<1>7. FileTable'
  <2>1. \A g \in FileHandles : files'[g] = [mode |-> files'[g].mode, path |-> files'[g].path,
                                             data |-> files'[g].data]
    BY <1>6 DEF HInv, FileTable
  <2> QED
    BY <1>3, <1>6, <2>1 DEF FileTable
<1>8. DirTable'
  BY <1>4 DEF HInv, DirTable
<1>9. Taken' = Taken \cup {h}
  BY <1>4, <1>6 DEF Taken
<1>10. HandlesRight'
  <2>1. /\ Taken' = DOMAIN held' \cup lost' /\ DOMAIN held' \cap lost' = {}
    BY <1>2, <1>4, <1>5, <1>9 DEF HInv, HandlesRight
  <2>2. \A g \in DOMAIN held' :
          held'[g] = IF g \in FileHandles THEN <<files'[g].mode, files'[g].path>>
                     ELSE <<0, dirs'[g].path>>
    BY <1>2, <1>4, <1>5, <1>6 DEF HInv, HandlesRight
  <2> QED
    BY <2>1, <2>2 DEF HandlesRight
<1> QED
  BY <1>7, <1>8, <1>10 DEF HInv

\* FS_CLOSE, whether the entry can be written or not.
LEMMA CloseKeeps ==
  ASSUME HInv, NEW h, NEW io, FsClose(h, io)
  PROVE  HInv'
<1>1. CASE ~Fileh(h)
  BY <1>1
  DEF FsClose, RefuseAtOnce, kernel, HInv, FileTable, DirTable, HandlesRight, Taken
<1>2. CASE Fileh(h)
  <2>1. /\ h \in FileHandles /\ h \notin DirHandles /\ GivenBack(h)
        /\ files' = [files EXCEPT ![h] = Closed] /\ dirs' = dirs
    BY <1>2, HandleRanges DEF FsClose, Fileh
  <2>2. /\ DOMAIN files = FileHandles /\ files'[h] = Closed
        /\ \A g \in FileHandles \ {h} : files'[g] = files[g]
    <3>1. DOMAIN files = FileHandles
      BY DEF HInv, FileTable
    <3> QED
      BY <2>1, <3>1
  <2>3. FileTable'
    <3>1. \A g \in FileHandles : files'[g] = [mode |-> files'[g].mode, path |-> files'[g].path,
                                               data |-> files'[g].data]
      BY SMTT(30), <2>2 DEF HInv, FileTable, Closed
    <3> QED
      BY <2>1, <2>2, <3>1 DEF FileTable
  <2>4. DirTable'
    BY <2>1 DEF HInv, DirTable
  <2>5. Taken' = Taken \ {h}
    BY <2>1, <2>2 DEF Taken, Closed
  <2>6. HandlesRight'
    BY <2>1, <2>2, <2>5 DEF HInv, HandlesRight, GivenBack
  <2> QED
    BY <2>3, <2>4, <2>6 DEF HInv
<1> QED
  BY <1>1, <1>2

\* What leaves the tables alone.
LEMMA TablesStay ==
  ASSUME HInv, UNCHANGED tables
  PROVE  HInv'
BY DEF tables, HInv, FileTable, DirTable, HandlesRight, Taken

\* FS_WRITE changes what is in a file and not whose it is.
LEMMA WriteKeeps ==
  ASSUME HInv, NEW h, NEW piece, NEW io, FsWrite(h, piece, io)
  PROVE  HInv'
<1>1. CASE UNCHANGED tables
  BY <1>1, TablesStay
<1>2. CASE ~ UNCHANGED tables
  <2>1. /\ Fileh(h) /\ dirs' = dirs /\ held' = held /\ lost' = lost
        /\ files' = [files EXCEPT ![h].data = Append(@, piece)]
    BY <1>2 DEF FsWrite, RefuseAtOnce, kernel, tables
  <2>2. /\ DOMAIN files = FileHandles /\ h \in FileHandles
        /\ files[h] = [mode |-> files[h].mode, path |-> files[h].path, data |-> files[h].data]
    BY <2>1 DEF HInv, FileTable, Fileh
  <2>3. PICK data :
          files' = [files EXCEPT ![h] = [mode |-> files[h].mode, path |-> files[h].path,
                                         data |-> data]]
    <3>1. [files[h] EXCEPT !.data = Append(@, piece)] =
            [mode |-> files[h].mode, path |-> files[h].path,
             data |-> Append(files[h].data, piece)]
      BY SMTT(30), <2>2
    <3> QED
      BY <2>1, <3>1
  <2>4. /\ \A g \in FileHandles \ {h} : files'[g] = files[g]
        /\ files'[h] = [mode |-> files[h].mode, path |-> files[h].path, data |-> data]
        /\ DOMAIN files' = FileHandles
    BY <2>2, <2>3
  <2>5. FileTable'
    <3>1. \A g \in FileHandles : files'[g] = [mode |-> files'[g].mode, path |-> files'[g].path,
                                               data |-> files'[g].data]
      BY <2>4 DEF HInv, FileTable
    <3> QED
      BY <2>2, <2>3, <3>1 DEF FileTable
  <2>6. \A g \in FileHandles : files'[g].mode = files[g].mode /\ files'[g].path = files[g].path
    BY <2>4
  <2>7. Taken' = Taken
    BY <2>1, <2>6 DEF Taken
  <2>8. HandlesRight'
    BY <2>1, <2>6, <2>7 DEF HInv, HandlesRight
  <2> QED
    BY <2>1, <2>5, <2>8 DEF HInv, DirTable
<1> QED
  BY <1>1, <1>2

\* FS_DIROPEN on a free slot, or refused.
LEMMA DirOpenKeeps ==
  ASSUME HInv, NEW arg, NEW io, FsDirOpen(arg, io)
  PROVE  HInv'
<1>1. CASE UNCHANGED tables
  BY <1>1, TablesStay
<1>2. CASE ~ UNCHANGED tables
  <2>1. PICK p :
          /\ FreeDirs # {} /\ files' = files /\ lost' = lost
          /\ dirs' = [dirs EXCEPT ![Lowest(FreeDirs)] = [used |-> TRUE, path |-> p, at |-> 0]]
          /\ Given(Lowest(FreeDirs), <<0, p>>)
    BY <1>2 DEF FsDirOpen, OnPath, Refuse, tables
  <2> DEFINE h == Lowest(FreeDirs)
  <2>2. h \in DirHandles /\ ~ dirs[h].used /\ h \notin FileHandles
    <3>1. FreeDirs \in SUBSET Nat
      BY HandleRanges DEF FreeDirs
    <3>2. h \in FreeDirs
      BY <2>1, <3>1, LowestIsOne
    <3> QED
      BY <3>2, HandleRanges DEF FreeDirs
  <2> HIDE DEF h
  <2>3. h \notin DOMAIN held /\ h \notin lost
    BY <2>2 DEF HInv, HandlesRight, Taken
  <2>4. /\ DOMAIN held' = DOMAIN held \cup {h} /\ held'[h] = <<0, p>>
        /\ \A g \in DOMAIN held : held'[g] = held[g]
    BY <2>1, <2>3, GivenAgrees DEF h
  <2>5. /\ DOMAIN dirs = DirHandles /\ dirs'[h] = [used |-> TRUE, path |-> p, at |-> 0]
        /\ dirs' = [dirs EXCEPT ![h] = [used |-> TRUE, path |-> p, at |-> 0]]
        /\ \A g \in DirHandles \ {h} : dirs'[g] = dirs[g]
    <3>1. DOMAIN dirs = DirHandles
      BY DEF HInv, DirTable
    <3>2. dirs' = [dirs EXCEPT ![h] = [used |-> TRUE, path |-> p, at |-> 0]]
      BY <2>1 DEF h
    <3> QED
      BY <2>2, <3>1, <3>2
  <2>6. DirTable'
    <3>1. \A g \in DirHandles : dirs'[g] = [used |-> dirs'[g].used, path |-> dirs'[g].path,
                                             at |-> dirs'[g].at]
      <4>1. dirs'[h] = [used |-> dirs'[h].used, path |-> dirs'[h].path, at |-> dirs'[h].at]
        BY <2>5, Zenon
      <4>2. \A g \in DirHandles : dirs[g] = [used |-> dirs[g].used, path |-> dirs[g].path,
                                             at |-> dirs[g].at]
        BY DEF HInv, DirTable
      <4> QED
        BY <2>5, <4>1, <4>2
    <3> QED
      BY <2>5, <3>1 DEF DirTable
  <2>7. FileTable'
    BY <2>1 DEF HInv, FileTable
  <2>8. Taken' = Taken \cup {h}
    BY <2>1, <2>2, <2>5 DEF Taken
  <2>9. HandlesRight'
    <3>1. /\ Taken' = DOMAIN held' \cup lost' /\ DOMAIN held' \cap lost' = {}
      BY <2>1, <2>3, <2>4, <2>8 DEF HInv, HandlesRight
    <3>2. \A g \in DOMAIN held :
            g \in FileHandles \/ (g \in DirHandles \ {h})
      BY <2>3 DEF HInv, HandlesRight, Taken
    <3>3. \A g \in DOMAIN held' :
            held'[g] = IF g \in FileHandles THEN <<files'[g].mode, files'[g].path>>
                       ELSE <<0, dirs'[g].path>>
      BY <2>1, <2>2, <2>4, <2>5, <3>2 DEF HInv, HandlesRight
    <3> QED
      BY <3>1, <3>3 DEF HandlesRight
  <2> QED
    BY <2>6, <2>7, <2>9 DEF HInv
<1> QED
  BY <1>1, <1>2

\* FS_DIRNEXT moves on in a directory that stays the same.
LEMMA DirNextKeeps ==
  ASSUME HInv, NEW h, NEW io, FsDirNext(h, io)
  PROVE  HInv'
<1>1. CASE UNCHANGED tables
  BY <1>1, TablesStay
<1>2. CASE ~ UNCHANGED tables
  <2>1. PICK next :
          /\ Dirh(h) /\ files' = files /\ held' = held /\ lost' = lost
          /\ dirs' = [dirs EXCEPT ![h].at = next]
    BY <1>2 DEF FsDirNext, RefuseAtOnce, kernel, tables
  <2>2. /\ DOMAIN dirs = DirHandles /\ h \in DirHandles
        /\ dirs[h] = [used |-> dirs[h].used, path |-> dirs[h].path, at |-> dirs[h].at]
    BY <2>1 DEF HInv, DirTable, Dirh
  <2>3. dirs' = [dirs EXCEPT ![h] = [used |-> dirs[h].used, path |-> dirs[h].path, at |-> next]]
    <3>1. [dirs[h] EXCEPT !.at = next] =
            [used |-> dirs[h].used, path |-> dirs[h].path, at |-> next]
      BY <2>2
    <3> QED
      BY <2>1, <3>1
  <2>4. /\ \A g \in DirHandles \ {h} : dirs'[g] = dirs[g]
        /\ dirs'[h] = [used |-> dirs[h].used, path |-> dirs[h].path, at |-> next]
    BY <2>2, <2>3
  <2>5. DirTable'
    <3>1. \A g \in DirHandles : dirs'[g] = [used |-> dirs'[g].used, path |-> dirs'[g].path,
                                             at |-> dirs'[g].at]
      BY <2>4 DEF HInv, DirTable
    <3> QED
      BY <2>2, <2>3, <3>1 DEF DirTable
  <2>6. \A g \in DirHandles : dirs'[g].used = dirs[g].used /\ dirs'[g].path = dirs[g].path
    BY <2>4
  <2>7. Taken' = Taken
    BY <2>1, <2>6 DEF Taken
  <2>8. HandlesRight'
    <3>1. \A g \in DOMAIN held : g \in FileHandles \/ g \in DirHandles
      BY DEF HInv, HandlesRight, Taken
    <3> QED
      BY <2>1, <2>6, <2>7, <3>1 DEF HInv, HandlesRight
  <2> QED
    BY <2>1, <2>5, <2>8 DEF HInv, FileTable
<1> QED
  BY <1>1, <1>2

\* FS_DIRCLOSE.
LEMMA DirCloseKeeps ==
  ASSUME HInv, NEW h, FsDirClose(h)
  PROVE  HInv'
<1>1. CASE UNCHANGED tables
  BY <1>1, TablesStay
<1>2. CASE ~ UNCHANGED tables
  <2>1. /\ h \in DirHandles /\ h \notin FileHandles /\ GivenBack(h)
        /\ dirs' = [dirs EXCEPT ![h] = Unread] /\ files' = files
    BY <1>2, HandleRanges DEF FsDirClose, Dirh, RefuseAtOnce, kernel, tables
  <2>2. /\ DOMAIN dirs = DirHandles /\ dirs'[h] = Unread
        /\ \A g \in DirHandles \ {h} : dirs'[g] = dirs[g]
    <3>1. DOMAIN dirs = DirHandles
      BY DEF HInv, DirTable
    <3> QED
      BY <2>1, <3>1
  <2>3. DirTable'
    <3>1. \A g \in DirHandles : dirs'[g] = [used |-> dirs'[g].used, path |-> dirs'[g].path,
                                             at |-> dirs'[g].at]
      BY <2>2 DEF HInv, DirTable, Unread
    <3> QED
      BY <2>1, <2>2, <3>1 DEF DirTable
  <2>4. FileTable'
    BY <2>1 DEF HInv, FileTable
  <2>5. Taken' = Taken \ {h}
    BY <2>1, <2>2 DEF Taken, Unread
  <2>6. HandlesRight'
    <3>1. \A g \in DOMAIN held : g \in FileHandles \/ g \in DirHandles
      BY DEF HInv, HandlesRight, Taken
    <3> QED
      BY <2>1, <2>2, <2>5, <3>1 DEF HInv, HandlesRight, GivenBack
  <2> QED
    BY <2>3, <2>4, <2>6 DEF HInv
<1> QED
  BY <1>1, <1>2

\* The calls on names touch no handle.
LEMMA NamesKeepTables ==
  ASSUME NEW arg, NEW name, NEW io,
         \/ FsDelete(arg, io) \/ FsRename(arg, name, io) \/ FsMkdir(arg, io)
         \/ FsRmdir(arg, io) \/ FsChdir(arg, io)
  PROVE  UNCHANGED tables
<1> USE DEF tables, OnPath, Refuse, Comes, Answers
<1>1. CASE FsDelete(arg, io)
  BY <1>1 DEF FsDelete
<1>2. CASE FsRename(arg, name, io)
  BY <1>2 DEF FsRename
<1>3. CASE FsMkdir(arg, io)
  BY <1>3 DEF FsMkdir
<1>4. CASE FsRmdir(arg, io)
  BY <1>4 DEF FsRmdir
<1>5. CASE FsChdir(arg, io)
  BY <1>5 DEF FsChdir
<1> QED
  BY <1>1, <1>2, <1>3, <1>4, <1>5

\* FS_OPEN, or its refusals.
LEMMA FileOpenKeeps ==
  ASSUME HInv, NEW arg, NEW mode \in Nat, (mode + 1) % ModeMod # 0, NEW io,
         FsOpen(arg, mode, io)
  PROVE  HInv'
<1>1. CASE UNCHANGED tables
  BY <1>1, TablesStay
<1>2. CASE ~ UNCHANGED tables
  <2>1. PICK p : FreeFiles # {} /\ OpenedAs(Lowest(FreeFiles), mode, p)
    BY <1>2 DEF FsOpen, OnPath, OpenAt, Refuse, Answers, tables
  <2>2. Lowest(FreeFiles) \in FreeFiles
    BY <2>1, HandleRanges, LowestIsOne DEF FreeFiles
  <2> QED
    BY <2>1, <2>2, OpenKeeps DEF FreeFiles
<1> QED
  BY <1>1, <1>2

\* The tables of a kernel that has just started
NoHandles ==
  /\ files = [h \in FileHandles |-> Closed] /\ dirs = [h \in DirHandles |-> Unread]
  /\ held = <<>> /\ lost = {}

\* A restart closes everything, the handles of programs long gone included.
LEMMA RestartResets ==
  ASSUME NEW c, NEW io, Restart(c, io)
  PROVE  NoHandles'
BY DEF Restart, NoHandles

\* No handle is taken, and nobody has one.
LEMMA EmptyTables == NoHandles => HInv
<1> SUFFICES ASSUME NoHandles
             PROVE  HInv
  OBVIOUS
<1> USE DEF NoHandles
<1>1. FileTable
  <2>1. \A h \in FileHandles : files[h] = Closed
    OBVIOUS
  <2>2. \A h \in FileHandles : files[h] = [mode |-> files[h].mode, path |-> files[h].path,
                                           data |-> files[h].data]
    BY <2>1 DEF Closed
  <2> QED
    BY <2>2 DEF FileTable
<1>2. DirTable
  <2>1. \A h \in DirHandles : dirs[h] = Unread
    OBVIOUS
  <2>2. \A h \in DirHandles : dirs[h] = [used |-> dirs[h].used, path |-> dirs[h].path,
                                         at |-> dirs[h].at]
    BY <2>1 DEF Unread
  <2> QED
    BY <2>2 DEF DirTable
<1>3. Taken = {}
  BY DEF Taken, Closed, Unread
<1>4. HandlesRight
  BY <1>3 DEF HandlesRight
<1> QED
  BY <1>1, <1>2, <1>4 DEF HInv

\* K_EXEC leaves the slots taken and nobody has their handles.
LEMMA KexecKeeps ==
  ASSUME HInv, NEW p, NEW ready, NEW dir, NEW by, NEW io, Kexec(p, ready, dir, by, io)
  PROVE  HInv'
<1>1. files' = files /\ dirs' = dirs
  BY DEF Kexec
<1>2. CASE UNCHANGED <<lost, held>>
  BY <1>1, <1>2, TablesStay DEF tables
<1>3. CASE lost' = lost \cup DOMAIN held /\ held' = <<>>
  <2>1. Taken' = Taken
    BY <1>1 DEF Taken
  <2>2. DOMAIN held' = {}
    BY <1>3
  <2> QED
    BY <1>1, <1>3, <2>1, <2>2 DEF HInv, FileTable, DirTable, HandlesRight
<1> QED
  BY <1>2, <1>3 DEF Kexec

\* A handle is the file its program opened with it, in its mode, and every slot
\* that is taken is this program's or was lost to a K_EXEC: no call, failure or
\* restart leaks one or gives one to two (kfs_open, kfs_close, kfs_diropen,
\* kfs_dirclose), as long as the modes asked for fit.
THEOREM HandlesStayRight ==
  ASSUME ModesFit
  PROVE  Spec => []HandlesRight
<1>1. Init => HInv
  BY EmptyTables DEF Init, NoHandles
<1>2. ASSUME HInv, [Next]_vars
      PROVE  HInv'
  <2>1. CASE UNCHANGED vars
    BY <1>2, <2>1, TablesStay DEF vars, shellVars, kfsVars, kernel, tables
  <2>2. CASE Prompt
    BY <1>2, <2>2, CommandsKeepTables, TablesStay DEF Prompt
  <2>3. CASE DesktopKey
    <3>1. ASSUME NEW io \in BOOLEAN, ExitPrompt(io)
          PROVE  HInv'
      <4>1. NoHandles'
        BY <3>1, RestartResets DEF ExitPrompt
      <4> QED
        BY <4>1, EmptyTables, PTL
    <3>2. ASSUME NEW p, NEW ioDir \in BOOLEAN, NEW io \in BOOLEAN, Launch(p, ioDir, io)
          PROVE  HInv'
      BY <1>2, <3>2, KexecKeeps DEF Launch
    <3>3. ASSUME NEW p, NEW io \in BOOLEAN, LoadEntries(p, io)
          PROVE  HInv'
      BY <1>2, <3>3, TablesStay DEF LoadEntries, tables
    <3>4. ASSUME NEW d, Shows(d)
          PROVE  HInv'
      BY <1>2, <3>4, TablesStay DEF Shows, shellVars, kfsVars, kernel, tables
    <3>5. ASSUME NEW ioDir \in BOOLEAN, NEW io \in BOOLEAN,
                 OpenTile(ioDir, io) \/ FilesOpen(ioDir, io)
          PROVE  HInv'
      BY <3>2, <3>3, <3>5 DEF OpenTile, FilesOpen
    <3>6. ASSUME NEW io \in BOOLEAN, Browse(io) \/ FilesParent(io)
          PROVE  HInv'
      BY <3>3, <3>6 DEF Browse, FilesParent
    <3>7. ASSUME NEW n, Digit(n)
          PROVE  HInv'
      BY <3>4, <3>7 DEF Digit
    <3>8. ASSUME DeskLeft \/ DeskRight \/ DeskUp \/ DeskDown \/ FilesEsc \/ FilesUp \/ FilesDown
          PROVE  HInv'
      BY <3>4, <3>8
      DEF DeskLeft, DeskRight, DeskUp, DeskDown, FilesEsc, FilesUp, FilesDown
    <3> QED
      BY <2>3, <3>1, <3>5, <3>6, <3>7, <3>8 DEF DesktopKey
  <2>4. CASE ProgramCalls
    <3>1. PICK c \in Calls, io \in BOOLEAN : FsCall(c, io)
      BY <2>4 DEF ProgramCalls
    <3>2. CASE c.call = "open" /\ FsOpen(c.arg, c.mode, io)
      BY <1>2, <3>2, FileOpenKeeps DEF ModesFit
    <3>3. CASE FsClose(c.h, io)
      BY <1>2, <3>3, CloseKeeps
    <3>4. CASE \E v \in Writable : FsWrite(c.h, v, io)
      BY <1>2, <3>4, WriteKeeps
    <3>5. CASE FsDirOpen(c.arg, io) \/ FsDirNext(c.h, io) \/ FsDirClose(c.h)
      BY <1>2, <3>5, DirOpenKeeps, DirNextKeeps, DirCloseKeeps
    <3>6. CASE \/ FsDelete(c.arg, io) \/ FsRename(c.arg, c.name, io) \/ FsMkdir(c.arg, io)
               \/ FsRmdir(c.arg, io) \/ FsChdir(c.arg, io)
      BY <1>2, <3>6, NamesKeepTables, TablesStay
    <3> QED
      BY <3>1, <3>2, <3>3, <3>4, <3>5, <3>6 DEF FsCall
  <2>5. CASE ProgramExec
    BY <1>2, <2>5, KexecKeeps DEF ProgramExec
  <2>6. CASE Returns
    <3>1. NoHandles'
      BY <2>6, RestartResets DEF Returns, ProgramExit, Reset, PowerUp
    <3> QED
      BY <3>1, EmptyTables, PTL
  <2>7. CASE Power
    <3>1. NoHandles'
      BY <2>7 DEF Power, PowerDown, NoHandles
    <3> QED
      BY <3>1, EmptyTables, PTL
  <2> QED
    BY <1>2, <2>1, <2>2, <2>3, <2>4, <2>5, <2>6, <2>7 DEF Next
<1>3. HInv => HandlesRight
  BY DEF HInv
<1> QED
  BY <1>1, <1>2, <1>3, PTL DEF Spec

-----------------------------------------------------------------------------
(* The carry-over block. *)

\* What the carry-over block is
Block(c) ==
  /\ c = [armed |-> c.armed, path |-> c.path, resume |-> c.resume]
  /\ c.armed \in BOOLEAN /\ c.resume \in BOOLEAN

\* Whoever was handed the machine finds the block armed with the directory of
\* the hand-over, a program of the desktop's finds the flag up, and nothing is
\* left in it at the prompt.
CarryInv ==
  /\ Block(carry)
  /\ runs \in {"off", "prompt", "desktop", "program"}
  /\ from \in {"prompt", "desktop"}
  /\ runs \in {"desktop", "program"} => carry.armed /\ carry.path = home
  /\ runs \in {"off", "prompt"} => ~ carry.armed /\ ~ carry.resume
  /\ runs = "program" => (carry.resume <=> from = "desktop")

\* What kfs_carry_save, kfs_carry_restore and kfs_carry_desktop_resume do to it.
LEMMA BlockOps ==
  ASSUME NEW c, Block(c), NEW dir
  PROVE  /\ Saved(c, dir) = [armed |-> TRUE, path |-> dir, resume |-> c.resume]
         /\ Restored(c) = [armed |-> FALSE, path |-> c.path, resume |-> c.resume]
         /\ ResumeTaken(c) = [armed |-> c.armed, path |-> c.path, resume |-> FALSE]
<1>1. PICK a, p, r :
        /\ c = [armed |-> a, path |-> p, resume |-> r]
        /\ c.armed = a /\ c.path = p /\ c.resume = r
  BY DEF Block
<1> DEFINE up == TRUE
           down == FALSE
<1>2. /\ Saved(c, dir) = [c EXCEPT !.armed = up, !.path = dir]
      /\ Restored(c) = [c EXCEPT !.armed = down]
      /\ ResumeTaken(c) = [c EXCEPT !.resume = down]
  BY DEF Saved, Restored, ResumeTaken
<1> HIDE DEF up, down
<1>3. Saved(c, dir) = [armed |-> up, path |-> dir, resume |-> r]
  BY <1>1, <1>2
<1>4. Restored(c) = [armed |-> down, path |-> p, resume |-> r]
  BY <1>1, <1>2
<1>5. ResumeTaken(c) = [armed |-> a, path |-> p, resume |-> down]
  BY <1>1, <1>2
<1> QED
  BY <1>1, <1>3, <1>4, <1>5 DEF up, down

\* A block that is written out is one.
LEMMA BlockMade ==
  ASSUME NEW a \in BOOLEAN, NEW dir, NEW r \in BOOLEAN
  PROVE  LET c == [armed |-> a, path |-> dir, resume |-> r]
         IN  Block(c) /\ c.armed = a /\ c.path = dir /\ c.resume = r
BY DEF Block

\* Taking the flag down changes nothing else.
LEMMA TakenIsABlock ==
  ASSUME NEW c, Block(c)
  PROVE  /\ Block(ResumeTaken(c)) /\ ~ ResumeTaken(c).resume
         /\ ResumeTaken(c).armed = c.armed /\ ResumeTaken(c).path = c.path
<1> DEFINE down == FALSE
<1>1. ResumeTaken(c) = [armed |-> c.armed, path |-> c.path, resume |-> down] /\ ~ down
  BY BlockOps
<1>2. c.armed \in BOOLEAN /\ down \in BOOLEAN
  BY DEF Block
<1> HIDE DEF down
<1>3. /\ ResumeTaken(c).armed = c.armed /\ ResumeTaken(c).path = c.path
      /\ ResumeTaken(c).resume = down
  BY <1>1
<1>4. Block(ResumeTaken(c))
  BY <1>1, <1>2, <1>3 DEF Block
<1> QED
  BY <1>1, <1>3, <1>4

\* run_image() on a block that says nothing: armed if it hands over, as it was
\* if it refuses.
LEMMA RunImageCarries ==
  ASSUME NEW p, NEW resolved, NEW dir, NEW c, Block(c), ~ c.armed, ~ c.resume,
         NEW ready, NEW io, from \in {"prompt", "desktop"},
         RunImage(p, resolved, dir, c, ready, io)
  PROVE  /\ CarryInv' /\ cwd' = dir
         /\ runs' # "prompt" <=>
              ready /\ resolved /\ Loadable(p) /\ ~ io /\ HasMagic(tree[p].data)
<1> DEFINE ok == ready /\ resolved /\ Loadable(p) /\ ~ io /\ HasMagic(tree[p].data)
<1>1. cwd' = dir /\ carry' = SavedIf(c, dir, ok)
  BY DEF RunImage
<1>2. CASE ok
  <2>1. /\ runs' \in {"desktop", "program"} /\ home' = dir /\ from' = "prompt"
    BY <1>2 DEF RunImage, Enter
  <2>2. carry' = [armed |-> TRUE, path |-> dir, resume |-> FALSE]
    BY <1>1, <1>2, BlockOps DEF SavedIf, Block
  <2>3. Block(carry') /\ carry'.armed /\ carry'.path = dir /\ ~ carry'.resume
    BY <2>2, BlockMade
  <2> QED
    BY <1>1, <1>2, <2>1, <2>3 DEF CarryInv, Block
<1>3. CASE ~ ok
  <2>1. runs' = "prompt" /\ home' = home /\ from' = from
    BY <1>3 DEF RunImage, Keeps
  <2>2. carry' = c
    BY <1>1, <1>3 DEF SavedIf
  <2> QED
    BY <1>1, <1>3, <2>1, <2>2 DEF CarryInv, Block
<1> QED
  BY <1>2, <1>3

\* sh_run() consumes the block before anything can be launched, and launches
\* the desktop exactly when it is its turn and it can be loaded.
LEMMA RestartCarries ==
  ASSUME NEW c, Block(c), NEW io, from \in {"prompt", "desktop"}, Restart(c, io)
  PROVE  /\ CarryInv' /\ cwd' = Adopted(c)
         /\ runs' # "prompt" <=>
              /\ c.resume \/ (~ c.armed /\ osd)
              /\ DesktopLoads /\ ~ io
<1> DEFINE after == ResumeTaken(Restored(c))
           desktop == c.resume \/ (~ Returning(c) /\ osd)
<1>1. after = [armed |-> FALSE, path |-> c.path, resume |-> FALSE]
  <2>1. Restored(c) = [armed |-> FALSE, path |-> c.path, resume |-> c.resume]
    BY BlockOps
  <2>2. c.resume \in BOOLEAN
    BY DEF Block
  <2> DEFINE down == FALSE
  <2>3. Restored(c) = [armed |-> down, path |-> c.path, resume |-> c.resume] /\ down \in BOOLEAN
    BY <2>1
  <2> HIDE DEF down
  <2>4. Block(Restored(c)) /\ Restored(c).path = c.path
    BY <2>2, <2>3 DEF Block
  <2>5. Restored(c).armed = down
    BY <2>3
  <2> QED
    BY <2>4, <2>5, BlockOps DEF down
<1>2. Block(after) /\ ~ after.armed /\ ~ after.resume
  BY <1>1, BlockMade
<1> HIDE DEF after
<1>3. CASE desktop
  <2> DEFINE yes == TRUE
             ready == inserted /\ ~io
  <2>1. RunImage(DesktopPath, yes, Adopted(c), after, ready, io)
    BY <1>3 DEF Restart, after
  <2>2. yes /\ (ready <=> inserted /\ ~io)
    OBVIOUS
  <2> HIDE DEF yes, ready
  <2>3. /\ CarryInv' /\ cwd' = Adopted(c)
        /\ runs' # "prompt" <=>
             ready /\ yes /\ Loadable(DesktopPath) /\ ~ io /\ HasMagic(tree[DesktopPath].data)
    BY <1>2, <2>1, RunImageCarries
  <2> QED
    BY <1>3, <2>2, <2>3 DEF DesktopLoads, Returning
<1>4. CASE ~ desktop
  <2>1. cwd' = Adopted(c) /\ carry' = after /\ runs' = "prompt" /\ from' = from
    BY <1>4 DEF Restart, after
  <2> QED
    BY <1>2, <1>4, <2>1 DEF CarryInv, Returning, Block
<1> QED
  BY <1>3, <1>4

\* launch(): the flag is up when the program runs, and down when K_EXEC came
\* back.
LEMMA LaunchCarries ==
  ASSUME CarryInv, NEW p, NEW ioDir, NEW io, Launch(p, ioDir, io), runs = "desktop"
  PROVE  CarryInv'
<1> DEFINE ready == Ready(ioDir)
           dir == Chdired(Front(p), ready, ioDir)
           ok == ExecRuns(p, ready, io)
<1>1. carry' = Launched(carry, dir, ok) /\ Kexec(p, ready, dir, "desktop", io)
  BY DEF Launch
<1> HIDE DEF ready, dir
<1>2. CASE ok
  <2>1. runs' \in {"desktop", "program"} /\ home' = dir /\ from' = "desktop"
    BY <1>1, <1>2 DEF Kexec, Enter
  <2>2. carry' = [armed |-> TRUE, path |-> dir, resume |-> TRUE]
    <3>1. ok = TRUE
      BY <1>2 DEF ExecRuns
    <3> DEFINE up == TRUE
    <3>2. Saved(carry, dir) = [armed |-> up, path |-> dir, resume |-> carry.resume]
      BY BlockOps DEF CarryInv
    <3>3. carry' = [Saved(carry, dir) EXCEPT !.resume = up]
      BY <1>1, <3>1 DEF Launched
    <3> HIDE DEF up
    <3>4. carry' = [armed |-> up, path |-> dir, resume |-> up]
      BY <3>2, <3>3
    <3> QED
      BY <3>4 DEF up
  <2>3. Block(carry') /\ carry'.armed /\ carry'.path = dir /\ carry'.resume
    BY <2>2, BlockMade
  <2> QED
    BY <2>1, <2>3 DEF CarryInv, Block
<1>3. CASE ~ ok
  <2>1. runs' = runs /\ home' = home /\ from' = from
    BY <1>1, <1>3 DEF Kexec, Keeps
  <2>2. carry' = [armed |-> carry.armed, path |-> carry.path, resume |-> FALSE]
    <3>1. ok = FALSE
      BY <1>3 DEF ExecRuns
    <3>2. carry' = [carry EXCEPT !.resume = FALSE]
      BY <1>1, <3>1 DEF Launched
    <3> QED
      BY <3>2, BlockOps DEF ResumeTaken, CarryInv
  <2>3. Block(carry') /\ carry'.armed = carry.armed /\ carry'.path = carry.path
    BY <2>2, BlockMade DEF CarryInv, Block
  <2> QED
    BY <2>1, <2>3 DEF CarryInv, Block
<1> QED
  BY <1>2, <1>3

\* A program that chains to another leaves the flag as it found it.
LEMMA ExecCarries ==
  ASSUME CarryInv, ProgramExec
  PROVE  CarryInv'
<1>1. PICK c \in Calls, io \in BOOLEAN :
        /\ runs = "program"
        /\ Kexec(c.arg.segs, mounted /\ c.arg.abs, cwd, from, io)
        /\ carry' = IF ExecRuns(c.arg.segs, mounted /\ c.arg.abs, io)
                    THEN Saved(carry, cwd) ELSE carry
  BY DEF ProgramExec
<1>2. CASE ExecRuns(c.arg.segs, mounted /\ c.arg.abs, io)
  <2>1. runs' \in {"desktop", "program"} /\ home' = cwd /\ from' = from
    BY <1>1, <1>2 DEF Kexec, Enter
  <2>2. carry' = [armed |-> TRUE, path |-> cwd, resume |-> carry.resume]
    BY <1>1, <1>2, BlockOps DEF CarryInv
  <2>3. Block(carry') /\ carry'.armed /\ carry'.path = cwd /\ carry'.resume = carry.resume
    BY <2>2, BlockMade DEF CarryInv, Block
  <2> QED
    BY <1>1, <2>1, <2>3 DEF CarryInv, Block
<1>3. CASE ~ ExecRuns(c.arg.segs, mounted /\ c.arg.abs, io)
  <2>1. runs' = runs /\ home' = home /\ from' = from /\ carry' = carry
    BY <1>1, <1>3 DEF Kexec, Keeps
  <2> QED
    BY <2>1 DEF CarryInv, Block
<1> QED
  BY <1>2, <1>3

\* What CarryInv is about
handover == <<runs, carry, home, from>>

\* What leaves these alone.
LEMMA CarryStays ==
  ASSUME CarryInv, UNCHANGED handover
  PROVE  CarryInv'
BY DEF handover, CarryInv, Block

\* run, x and an unknown word.
LEMMA RunCarries ==
  ASSUME CarryInv, runs = "prompt", NEW p, NEW resolved, NEW io, Run(p, resolved, io)
  PROVE  CarryInv'
<1>1. RunImage(p, resolved, cwd, carry, Ready(io), io)
  BY DEF Run
<1>2. Block(carry) /\ ~ carry.armed /\ ~ carry.resume /\ from \in {"prompt", "desktop"}
  BY DEF CarryInv
<1> QED
  BY <1>1, <1>2, RunImageCarries

\* go.
LEMMA GoCarries ==
  ASSUME CarryInv, runs = "prompt", CmdGo
  PROVE  CarryInv'
<1>1. CASE UNCHANGED handover
  BY <1>1, CarryStays
<1>2. CASE ~ UNCHANGED handover
  <2>1. Enter(base, cwd, "prompt") /\ carry' = Saved(carry, cwd)
    BY <1>2 DEF CmdGo, Fails, Reports, machine, handover
  <2>2. runs' \in {"desktop", "program"} /\ home' = cwd /\ from' = "prompt"
    BY <2>1 DEF Enter
  <2>3. carry' = [armed |-> TRUE, path |-> cwd, resume |-> carry.resume]
    BY <2>1, BlockOps DEF CarryInv
  <2>4. Block(carry') /\ carry'.armed /\ carry'.path = cwd /\ carry'.resume = carry.resume
    BY <2>3, BlockMade DEF CarryInv, Block
  <2> QED
    BY <2>2, <2>4 DEF CarryInv, Block
<1> QED
  BY <1>1, <1>2

\* A line at the prompt hands over properly or leaves the block alone.
LEMMA CommandsCarry ==
  ASSUME CarryInv, NEW line, NEW io \in BOOLEAN, ShExec(line, io)
  PROVE  CarryInv'
<1>0. runs = "prompt"
  BY DEF ShExec
<1>1. ASSUME NEW arg, CmdCd(arg, io) \/ CmdLs(arg, io) \/ CmdType(arg, io)
      PROVE  UNCHANGED handover
  BY <1>1 DEF CmdCd, CmdLs, CmdType, handover, OnCard, Fails, Reports, Does, machine
<1>2. ASSUME NEW arg, CmdDel(arg, io) \/ CmdMkdir(arg, io) \/ CmdRmdir(arg, io)
      PROVE  UNCHANGED handover
  BY <1>2
  DEF CmdDel, CmdMkdir, CmdRmdir, handover, OnCard, Fails, Reports, Does, Breaks,
      Results, machine
<1>3. ASSUME NEW arg, NEW name, CmdRename(arg, name, io) \/ CmdCopy(arg, name, io)
      PROVE  UNCHANGED handover
  BY <1>3
  DEF CmdRename, CmdCopy, handover, OnCard, Fails, Reports, Does, Breaks, Results,
      Rewritten, machine
<1>4. ASSUME NEW arg, NEW a, NEW n, CmdSave(arg, a, n, io) \/ CmdLoad(arg, a, io)
      PROVE  UNCHANGED handover
  BY <1>4
  DEF CmdSave, CmdLoad, handover, OnCard, Fails, Reports, Does, Breaks, Rewritten,
      machine
<1>5. ASSUME NEW a, NEW b, NEW c, CmdPoke(a, b) \/ CmdFill(a, b, c) \/ CmdMove(a, b, c)
      PROVE  UNCHANGED handover
  BY <1>5 DEF CmdPoke, CmdFill, CmdMove, Memory, handover
<1>6. ASSUME NEW p, NEW resolved, Run(p, resolved, io)
      PROVE  CarryInv'
  BY <1>0, <1>6, RunCarries
<1>7. ASSUME CmdX(io) \/ CmdGo
      PROVE  CarryInv'
  BY <1>0, <1>6, <1>7, GoCarries DEF CmdX
<1>8. ASSUME NEW word, NEW a, word \in DOMAIN Builtin, Command(word, a, io)
      PROVE  CarryInv'
  BY <1>1, <1>2, <1>3, <1>4, <1>5, <1>6, <1>7, <1>8, CarryStays
  DEF Command, Builtin, CmdRun
<1>9. ASSUME NEW word, TryProgram(word, io)
      PROVE  CarryInv'
  BY <1>6, <1>9, CarryStays DEF TryProgram, Fails, Reports, machine, handover
<1>10. ASSUME NEW ready, Fails(ready)
       PROVE  CarryInv'
  BY <1>10, CarryStays DEF Fails, Reports, machine, handover
<1> QED
  BY <1>8, <1>9, <1>10 DEF ShExec

\* The file calls of a program leave the block alone, FS_CHDIR included.
LEMMA CallsCarry ==
  ASSUME CarryInv, ProgramCalls
  PROVE  CarryInv'
<1>1. PICK c \in Calls, io \in BOOLEAN : ByProgram /\ FsCall(c, io)
  BY DEF ProgramCalls
<1>2. carry' = carry
  <2> USE DEF OnPath, Refuse, RefuseAtOnce, Comes, Answers
  <2>1. ASSUME NEW arg, NEW name, \/ FsDelete(arg, io) \/ FsRename(arg, name, io)
                                  \/ FsMkdir(arg, io) \/ FsRmdir(arg, io)
        PROVE  carry' = carry
    BY <2>1 DEF FsDelete, FsRename, FsMkdir, FsRmdir
  <2>2. ASSUME NEW arg, NEW mode, FsOpen(arg, mode, io)
        PROVE  carry' = carry
    BY <2>2 DEF FsOpen, OpenAt, OpenedAs
  <2>3. ASSUME NEW h, NEW v, FsClose(h, io) \/ FsWrite(h, v, io)
        PROVE  carry' = carry
    BY <2>3 DEF FsClose, FsWrite
  <2>4. ASSUME NEW arg, FsDirOpen(arg, io) \/ FsChdir(arg, io)
        PROVE  carry' = carry
    BY <2>4 DEF FsDirOpen, FsChdir
  <2>5. ASSUME NEW h, FsDirNext(h, io) \/ FsDirClose(h)
        PROVE  carry' = carry
    BY <2>5 DEF FsDirNext, FsDirClose
  <2> QED
    BY <1>1, <2>1, <2>2, <2>3, <2>4, <2>5 DEF FsCall
<1> QED
  BY <1>1, <1>2, CarryStays DEF ByProgram, machine, handover

\* The desktop's keys.
LEMMA DesktopCarries ==
  ASSUME CarryInv, DesktopKey
  PROVE  CarryInv'
<1>1. runs = "desktop"
  BY DEF DesktopKey, Digit, DeskLeft, DeskRight, DeskUp, DeskDown, FilesEsc,
         FilesUp, FilesDown,
         Browse, FilesParent, ExitPrompt, OpenTile, FilesOpen, AtTiles, AtFiles
<1>2. ASSUME NEW d, Shows(d)
      PROVE  CarryInv'
  BY <1>2, CarryStays DEF Shows, shellVars, kfsVars, machine, handover
<1>3. ASSUME NEW p, NEW io \in BOOLEAN, LoadEntries(p, io)
      PROVE  CarryInv'
  BY <1>3, CarryStays DEF LoadEntries, machine, handover
<1>4. ASSUME NEW p, NEW ioDir \in BOOLEAN, NEW io \in BOOLEAN, Launch(p, ioDir, io)
      PROVE  CarryInv'
  BY <1>1, <1>4, LaunchCarries
<1>5. ASSUME NEW io \in BOOLEAN, ExitPrompt(io)
      PROVE  CarryInv'
  <2>1. Restart(ResumeTaken(carry), io)
    BY <1>5 DEF ExitPrompt
  <2>2. Block(ResumeTaken(carry)) /\ from \in {"prompt", "desktop"}
    BY TakenIsABlock DEF CarryInv
  <2> QED
    BY <2>1, <2>2, RestartCarries
<1>6. ASSUME NEW io \in BOOLEAN, Browse(io) \/ FilesParent(io)
      PROVE  CarryInv'
  BY <1>3, <1>6 DEF Browse, FilesParent
<1>7. ASSUME NEW ioDir \in BOOLEAN, NEW io \in BOOLEAN,
             OpenTile(ioDir, io) \/ FilesOpen(ioDir, io)
      PROVE  CarryInv'
  BY <1>3, <1>4, <1>7 DEF OpenTile, FilesOpen
<1>8. ASSUME NEW n, Digit(n)
      PROVE  CarryInv'
  BY <1>2, <1>8 DEF Digit
<1>9. ASSUME DeskLeft \/ DeskRight \/ DeskUp \/ DeskDown \/ FilesEsc \/ FilesUp \/ FilesDown
      PROVE  CarryInv'
  BY <1>2, <1>9
  DEF DeskLeft, DeskRight, DeskUp, DeskDown, FilesEsc, FilesUp, FilesDown
<1> QED
  BY <1>5, <1>6, <1>7, <1>8, <1>9 DEF DesktopKey

\* The block of a machine that has just got power.
LEMMA UnarmedIsABlock ==
  Block(Unarmed) /\ ~ Unarmed.armed /\ Unarmed.path = Root /\ ~ Unarmed.resume
BY BlockMade DEF Unarmed

\* CarryInv is inductive.
LEMMA CarryInductive ==
  /\ Init => CarryInv
  /\ CarryInv /\ [Next]_vars => CarryInv'
<1>1. Init => CarryInv
  BY UnarmedIsABlock DEF Init, CarryInv
<1>2. ASSUME CarryInv, [Next]_vars
      PROVE  CarryInv'
  <2>1. CASE UNCHANGED vars
    BY <1>2, <2>1, CarryStays DEF vars, shellVars, kfsVars, machine, handover
  <2>2. CASE Prompt
    BY <1>2, <2>2, CommandsCarry DEF Prompt
  <2>3. CASE DesktopKey
    BY <1>2, <2>3, DesktopCarries
  <2>4. CASE ProgramCalls
    BY <1>2, <2>4, CallsCarry
  <2>5. CASE ProgramExec
    BY <1>2, <2>5, ExecCarries
  <2>6. CASE Returns
    <3>1. Block(carry) /\ Block(Unarmed) /\ from \in {"prompt", "desktop"}
      BY <1>2, UnarmedIsABlock DEF CarryInv
    <3>2. PICK io \in BOOLEAN : Restart(carry, io) \/ Restart(Unarmed, io)
      BY <2>6 DEF Returns, ProgramExit, Reset, PowerUp
    <3> QED
      BY <3>1, <3>2, RestartCarries
  <2>7. CASE Power
    <3>1. runs' = "off" /\ carry' = Unarmed /\ from' = "prompt"
      BY <2>7 DEF Power, PowerDown
    <3> QED
      BY <3>1, UnarmedIsABlock DEF CarryInv, Block
  <2> QED
    BY <1>2, <2>1, <2>2, <2>3, <2>4, <2>5, <2>6, <2>7 DEF Next
<1> QED
  BY <1>1, <1>2

\* Whatever was launched, chained to or refused in between, a program that ends
\* and EXIT in the desktop come back to the directory the last hand-over was made
\* from, and a reset of an idle prompt to the root (run_image, kexec, launch,
\* kfs_carry_restore).
THEOREM MachineComesHome == Spec => ComesHome
<1> DEFINE A == \A io \in BOOLEAN :
                  /\ ProgramExit(io) \/ ExitPrompt(io) => cwd' = home
                  /\ (runs = "prompt" /\ Reset(io)) \/ PowerUp(io) => cwd' = Root
<1>1. CarryInv /\ [Next]_vars => [A]_vars
  <2> SUFFICES ASSUME CarryInv, NEW io \in BOOLEAN
               PROVE  /\ ProgramExit(io) \/ ExitPrompt(io) => cwd' = home
                      /\ (runs = "prompt" /\ Reset(io)) \/ PowerUp(io) => cwd' = Root
    OBVIOUS
  <2>1. Block(carry) /\ from \in {"prompt", "desktop"}
    BY DEF CarryInv
  <2>2. ASSUME ProgramExit(io)
        PROVE  cwd' = home
    BY <2>1, <2>2, RestartCarries DEF ProgramExit, Adopted, CarryInv
  <2>3. ASSUME ExitPrompt(io)
        PROVE  cwd' = home
    <3>1. /\ Block(ResumeTaken(carry)) /\ ResumeTaken(carry).armed = carry.armed
          /\ ResumeTaken(carry).path = carry.path
      BY <2>1, TakenIsABlock
    <3>2. Restart(ResumeTaken(carry), io) /\ runs = "desktop"
      BY <2>3 DEF ExitPrompt, AtTiles
    <3>3. cwd' = Adopted(ResumeTaken(carry))
      BY <2>1, <3>1, <3>2, RestartCarries
    <3> QED
      BY <3>1, <3>2, <3>3 DEF Adopted, CarryInv
  <2>4. ASSUME runs = "prompt", Reset(io)
        PROVE  cwd' = Root
    BY <2>1, <2>4, RestartCarries DEF Reset, Adopted, CarryInv
  <2>5. ASSUME PowerUp(io)
        PROVE  cwd' = Root
    BY <2>1, <2>5, UnarmedIsABlock, RestartCarries DEF PowerUp, Adopted
  <2> QED
    BY <2>2, <2>3, <2>4, <2>5
<1>2. Spec => [][A]_vars
  BY <1>1, CarryInductive, PTL DEF Spec
<1> QED
  BY <1>2 DEF ComesHome

\* A program ends in the desktop when it was launched from there, at whatever
\* distance, and at the prompt otherwise; EXIT reaches the prompt whatever the
\* switch says (sh_run, launch, exit_prompt).
THEOREM DesktopGetsItsOwn == Spec => DesktopOwed
<1> DEFINE A == \A io \in BOOLEAN :
                  /\ ProgramExit(io) =>
                       (runs' # "prompt" <=> from = "desktop" /\ DesktopLoads /\ ~io)
                  /\ ExitPrompt(io) => runs' = "prompt"
<1>1. CarryInv /\ [Next]_vars => [A]_vars
  <2> SUFFICES ASSUME CarryInv, NEW io \in BOOLEAN
               PROVE  /\ ProgramExit(io) =>
                           (runs' # "prompt" <=> from = "desktop" /\ DesktopLoads /\ ~io)
                      /\ ExitPrompt(io) => runs' = "prompt"
    OBVIOUS
  <2>1. Block(carry) /\ from \in {"prompt", "desktop"}
    BY DEF CarryInv
  <2>2. ASSUME ProgramExit(io)
        PROVE  runs' # "prompt" <=> from = "desktop" /\ DesktopLoads /\ ~io
    <3>1. carry.armed /\ (carry.resume <=> from = "desktop") /\ Restart(carry, io)
      BY <2>2 DEF ProgramExit, CarryInv
    <3>2. runs' # "prompt" <=>
            /\ carry.resume \/ (~ carry.armed /\ osd)
            /\ DesktopLoads /\ ~ io
      BY <2>1, <3>1, RestartCarries
    <3> QED
      BY <3>1, <3>2
  <2>3. ASSUME ExitPrompt(io)
        PROVE  runs' = "prompt"
    <3>1. /\ Block(ResumeTaken(carry)) /\ ResumeTaken(carry).armed = carry.armed
          /\ ~ ResumeTaken(carry).resume
      BY <2>1, TakenIsABlock
    <3>2. Restart(ResumeTaken(carry), io) /\ carry.armed
      BY <2>3 DEF ExitPrompt, AtTiles, CarryInv
    <3> DEFINE c == ResumeTaken(carry)
    <3> HIDE DEF c
    <3>3. Restart(c, io) /\ Block(c) /\ c.armed /\ ~ c.resume
      BY <3>1, <3>2 DEF c
    <3>4. runs' # "prompt" <=> (c.resume \/ (~ c.armed /\ osd)) /\ DesktopLoads /\ ~ io
      BY <2>1, <3>3, RestartCarries
    <3> QED
      BY <3>3, <3>4
  <2> QED
    BY <2>2, <2>3
<1>2. Spec => [][A]_vars
  BY <1>1, CarryInductive, PTL DEF Spec
<1> QED
  BY <1>2 DEF DesktopOwed
=============================================================================

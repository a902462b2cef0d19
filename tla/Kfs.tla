-------------------------------- MODULE Kfs --------------------------------
(***************************************************************************)
(* The kernel's file calls (runtime/kfs.c): the handles, the one working   *)
(* directory, and the block at a fixed address in which the directory of a *)
(* launch outlives the restart of the kernel.                              *)
(*                                                                         *)
(* io: a device access under the call fails.  FS_READ, FS_SEEK and FS_SIZE *)
(* leave the tables alone and are FileCursor's subject.                    *)
(***************************************************************************)
EXTENDS Card

CONSTANTS
  KfsFiles,     \* KFS_FILES
  KfsDirs,      \* KFS_DIRS
  DirBit        \* KFS_DIRBIT

ASSUME KfsAssumption ==
  /\ KfsFiles \in Nat \ {0} /\ KfsDirs \in Nat \ {0}
  /\ DirBit \in Nat /\ DirBit > KfsFiles

VARIABLES
  inserted,     \* there is a card
  tree,         \* what is on it
  mounted, cwd, \* the variables of kfs.c
  files, dirs,  \* fmode[] and files[]; dused[] and dirs[]
  carry,        \* the carry-over block
  held,         \* handles its program was given and has not given back
  lost,         \* handles of a program that was replaced
  answer        \* what the last call or command reported

kernel == <<mounted, cwd, files, dirs>>
kfsVars == <<inserted, tree, kernel, carry, held, lost, answer>>

Closed == [mode |-> 0, path |-> Root, data |-> <<>>]
Unread == [used |-> FALSE, path |-> Root, at |-> 0]
FileHandles == 1 .. KfsFiles
ModeMod == 256                          \* fmode[] is bytes, and zero is closed
DirHandles == DirBit .. (DirBit + KfsDirs - 1)

\* kfs_ready(): mount on first use, and stay mounted.
Ready(io) == mounted \/ (inserted /\ ~io)

-----------------------------------------------------------------------------
(* Paths.  An argument is absolute or not, and a sequence of names. *)

Step(acc, seg) ==
  IF ~acc.ok \/ seg = Here THEN acc
  ELSE IF seg = Above THEN [acc EXCEPT !.path = IF @ = Root THEN Root ELSE Front(@)]
  ELSE IF Len(acc.path) = MaxDepth THEN [acc EXCEPT !.ok = FALSE]
  ELSE [acc EXCEPT !.path = Append(@, seg)]

\* kfs_abspath(): too long at any point is a refusal.
Abspath(arg) ==
  FoldLeft(Step, [ok |-> TRUE, path |-> IF arg.abs THEN Root ELSE cwd], arg.segs)

-----------------------------------------------------------------------------
(* Handles. *)

Fileh(h) == h \in FileHandles /\ files[h].mode # 0
Dirh(h) == h \in DirHandles /\ dirs[h].used

FreeFiles == {h \in FileHandles : files[h].mode = 0}
FreeDirs == {h \in DirHandles : ~dirs[h].used}
Lowest(S) == CHOOSE h \in S : \A g \in S : h <= g

\* A call that returns without having done anything
Refuse(code, io) ==
  /\ answer' = code
  /\ mounted' = Ready(io)
  /\ UNCHANGED <<inserted, tree, cwd, files, dirs, carry, held, lost>>

RefuseAtOnce(code) ==
  answer' = code /\ UNCHANGED <<inserted, tree, kernel, carry, held, lost>>

\* The calls that take a path: mount, resolve, or say why not.
OnPath(arg, io, Do(_)) ==
  IF ~Ready(io) THEN Refuse("IO", io)
  ELSE IF ~Abspath(arg).ok THEN Refuse("BADARG", io)
  ELSE Do(Abspath(arg).path)

Given(h, what) ==
  held' = [g \in DOMAIN held \cup {h} |-> IF g = h THEN what ELSE held[g]]
GivenBack(h) ==
  /\ held' = [g \in DOMAIN held \ {h} |-> held[g]]
  /\ lost' = lost \ {h}

OpenedAs(h, mode, p) ==
  /\ files' = [files EXCEPT ![h] =
       [mode |-> (mode + 1) % ModeMod, path |-> p,
        data |-> IF mode = 1 THEN <<>> ELSE tree[p].data]]
  /\ Given(h, <<(mode + 1) % ModeMod, p>>)
  /\ answer' = "OK"
  /\ mounted' = TRUE
  /\ UNCHANGED <<inserted, cwd, dirs, carry, lost>>

\* What a call on the card has come to
Answers(t, code) ==
  /\ tree' = t /\ answer' = code /\ mounted' = TRUE
  /\ UNCHANGED <<inserted, cwd, files, dirs, carry, held, lost>>

OpenAt(p, mode, io) ==
  IF FreeFiles = {} THEN Refuse("NOSPACE", io)
  ELSE LET h == Lowest(FreeFiles) IN
    IF mode = 1
    THEN \E r \in Creating(tree, p, io) :
           IF r.ok THEN tree' = r.tree /\ OpenedAs(h, mode, r.at) ELSE Answers(r.tree, "IO")
    ELSE IF IsFile(tree, p) /\ ~io
         THEN UNCHANGED tree /\ OpenedAs(h, mode, p)
         ELSE Refuse("NOTFOUND", io)
FsOpen(arg, mode, io) == OnPath(arg, io, LAMBDA p : OpenAt(p, mode, io))

\* The size and the chain reach the entry only here, if its name is still there.
Flushed(h) ==
  IF files[h].mode = 2 /\ IsFile(tree, files[h].path)
  THEN Put(tree, files[h].path, File(files[h].data)) ELSE tree

CloseUnlessItFails(h, io) ==                                       \* mutant
  IF ~Fileh(h) THEN RefuseAtOnce("BADARG")
  ELSE LET fails == io /\ files[h].mode = 2 IN
       /\ tree' = IF fails THEN tree ELSE Flushed(h)
       /\ files' = IF fails THEN files ELSE [files EXCEPT ![h] = Closed]
       /\ GivenBack(h) /\ answer' = "OK"
       /\ UNCHANGED <<inserted, mounted, cwd, dirs, carry>>
\* FS_CLOSE frees the slot whatever becomes of the entry; closing a handle
\* that was only read touches no device.
FsClose(h, io) ==
  IF ~Fileh(h) THEN RefuseAtOnce("BADARG")
  ELSE LET fails == io /\ files[h].mode = 2 IN
       /\ tree' = IF fails THEN tree ELSE Flushed(h)
       /\ files' = [files EXCEPT ![h] = Closed]
       /\ GivenBack(h)
       /\ answer' = IF fails THEN "IO" ELSE "OK"
       /\ UNCHANGED <<inserted, mounted, cwd, dirs, carry>>

\* FS_WRITE answers with a count, short or not, and never with a failure.
FsWrite(h, piece, io) ==
  IF ~Fileh(h) \/ files[h].mode # 2 THEN RefuseAtOnce("BADARG")
  ELSE /\ files' = IF io THEN files ELSE [files EXCEPT ![h].data = Append(@, piece)]
       /\ answer' = "OK"
       /\ UNCHANGED <<inserted, tree, mounted, cwd, dirs, carry, held, lost>>

-----------------------------------------------------------------------------
(* Names. *)

\* What asking the path why answers: a device that fails may find nothing.
Stats(t, p, io) == {Exists(t, p)} \cup IF io THEN {FALSE} ELSE {}

\* A call that answers OK, or why not: what is at the path, if it can be asked
Comes(outcomes, p, io, Why(_, _)) ==
  \E r \in outcomes :
    IF r.ok THEN Answers(r.tree, "OK")
    ELSE \E there \in Stats(r.tree, p, io) : Answers(r.tree, Why(r.tree, there))

FsDelete(arg, io) ==
  OnPath(arg, io, LAMBDA p : Comes(Unlinking(tree, p, io), p, io, LAMBDA t, there :
    IF ~there THEN "NOTFOUND" ELSE IF IsDir(t, p) THEN "BADARG" ELSE "IO"))

FsRename(arg, name, io) ==
  OnPath(arg, io, LAMBDA p : Comes(Renaming(tree, p, name, io), p, io, LAMBDA t, there : "IO"))

\* why_not()
FsMkdir(arg, io) ==
  OnPath(arg, io, LAMBDA p : Comes(Making(tree, p, io), p, io, LAMBDA t, there :
    IF there THEN "EXISTS" ELSE "IO"))

FsRmdir(arg, io) ==
  OnPath(arg, io, LAMBDA p : Comes(Removing(tree, p, io), p, io, LAMBDA t, there :
    IF ~there THEN "NOTFOUND" ELSE IF IsDir(t, p) THEN "NOTEMPTY" ELSE "BADARG"))

-----------------------------------------------------------------------------
(* Directories. *)

FsDirOpen(arg, io) ==
  OnPath(arg, io, LAMBDA p :
    IF FreeDirs = {} THEN Refuse("NOSPACE", io)
    ELSE IF ~IsDir(tree, p) \/ io THEN Refuse("NOTFOUND", io)
    ELSE LET h == Lowest(FreeDirs) IN
         /\ dirs' = [dirs EXCEPT ![h] = [used |-> TRUE, path |-> p, at |-> 0]]
         /\ Given(h, <<0, p>>)
         /\ answer' = "OK" /\ mounted' = TRUE
         /\ UNCHANGED <<inserted, tree, cwd, files, carry, lost>>)

\* The place of the next entry, or the end of the directory
NextEntry(d) ==
  LET after == {k \in (d.at + 1) .. Len(Slots) : Append(d.path, Slots[k]) \in DOMAIN tree}
  IN  IF after = {} THEN Len(Slots) + 1 ELSE Lowest(after)

FsDirNext(h, io) ==
  IF ~Dirh(h) THEN RefuseAtOnce("BADARG")
  ELSE LET next == IF io THEN Len(Slots) + 1 ELSE NextEntry(dirs[h]) IN
       /\ dirs' = [dirs EXCEPT ![h].at = next]
       /\ answer' = IF next > Len(Slots) THEN "NOTFOUND" ELSE "OK"
       /\ UNCHANGED <<inserted, tree, mounted, cwd, files, carry, held, lost>>

FsDirClose(h) ==
  IF ~Dirh(h) THEN RefuseAtOnce("BADARG")
  ELSE /\ dirs' = [dirs EXCEPT ![h] = Unread]
       /\ GivenBack(h) /\ answer' = "OK"
       /\ UNCHANGED <<inserted, tree, mounted, cwd, files, carry>>

-----------------------------------------------------------------------------
(* The working directory and the carry-over block. *)

\* commit_cwd(): the root has no entry to ask for.
MayEnter(p, io) == p = Root \/ (IsDir(tree, p) /\ ~io)

FsChdir(arg, io) ==
  OnPath(arg, io, LAMBDA p :
    IF MayEnter(p, io)
    THEN /\ cwd' = p /\ answer' = "OK" /\ mounted' = TRUE
         /\ UNCHANGED <<inserted, tree, files, dirs, carry, held, lost>>
    ELSE Refuse(IF Exists(tree, p) /\ ~io THEN "BADARG" ELSE "NOTFOUND", io))

Unarmed == [armed |-> FALSE, path |-> Root, resume |-> FALSE]

\* kfs_carry_save(); the flag of the desktop lies behind the path
Saved(c, dir) == [c EXCEPT !.armed = TRUE, !.path = dir]

\* kfs_carry_adopt() and kfs_carry_restore() on a kernel that has just started
Adopted(c) == IF c.armed THEN c.path ELSE Root
RestoredKept(c) == c                                               \* mutant
Restored(c) == [c EXCEPT !.armed = FALSE]

\* kfs_carry_desktop_resume()
ResumeTaken(c) == [c EXCEPT !.resume = FALSE]
=============================================================================

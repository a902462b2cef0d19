-------------------------------- MODULE Card --------------------------------
(***************************************************************************)
(* The card as the callers of fat32.c see it: a tree of names, and what    *)
(* each call does to it when it works and when a device access under it    *)
(* fails.  The clusters below are Fat32's business.                        *)
(*                                                                         *)
(* A name is a pair of stem and extension, a path the sequence of names    *)
(* below the root, and a file the sequence of the pieces in it: one piece  *)
(* is what the callers' loops move at a time.                              *)
(***************************************************************************)
EXTENDS Integers, Sequences, SequencesExt, TLC

CONSTANTS
  Order,        \* every name, in the order the directories hold them
  MaxDepth,     \* KFS_PATH, in names
  Pieces,       \* what a piece may be
  ClusterPieces,   \* a cluster, in pieces
  Zero,         \* a piece of a cluster that was just zeroed
  Torn,         \* a piece of a chain that was freed under its entry
  Mistakes      \* the failed reads that calls take for an answer

Names == ToSet(Order)
Here == <<".", "">>
Above == <<"..", "">>
Paths == UNION {[1 .. n -> Names] : n \in 0 .. MaxDepth}
Root == <<>>

(***************************************************************************)
(* A sector of a directory that cannot be read means to dir_find() that    *)
(* the name is not there ("find"); a link of a directory that cannot be    *)
(* read is the end of it, to every walk ("link").                          *)
(***************************************************************************)
ASSUME CardAssumption ==
  /\ MaxDepth \in Nat \ {0}
  /\ Here \notin Names /\ Above \notin Names
  /\ Zero \in Pieces /\ Torn \in Pieces
  /\ ClusterPieces \in Nat \ {0}
  /\ Mistakes \subseteq {"find", "link"}

Dir == [dir |-> TRUE, data |-> <<>>]
File(data) == [dir |-> FALSE, data |-> data]

\* Of two entries of a name every search finds the first.  The other is under a
\* name that nobody can ask for.  (Bound: no name is in a directory three times.)
Behind(name) == Append(name, "behind")
Hidden(p) == Append(Front(p), Behind(Last(p)))
Plain(p) == [k \in DOMAIN p |-> SubSeq(p[k], 1, 2)]

\* path_walk() and fat32_stat()
Exists(t, p) == p \in DOMAIN t
IsDir(t, p) == Exists(t, p) /\ t[p].dir
IsFile(t, p) == Exists(t, p) /\ ~t[p].dir

Within(t, p) == {q \in DOMAIN t : q # Root /\ Front(q) = p}

Put(t, p, node) == (p :> node) @@ t

\* What is under a directory goes, and moves, with it.
Dropped(t, P) == [q \in {q \in DOMAIN t : \A p \in P : ~IsPrefix(p, q)} |-> t[q]]
MovedTo(t, p, to) ==
  LET under == {q \in DOMAIN t : IsPrefix(p, q)}
      Was(q) == p \o SubSeq(q, Len(to) + 1, Len(q))
      Is(q) == to \o SubSeq(q, Len(p) + 1, Len(q))
  IN  [q \in (DOMAIN t \ under) \cup {Is(q) : q \in under} |->
         IF q \in DOMAIN t \ under THEN t[q] ELSE t[Was(q)]]

\* With the first of two entries gone, a search finds the other.
Revealed(t, p) == IF Exists(t, Hidden(p)) THEN MovedTo(t, Hidden(p), p) ELSE t
Without(t, p) == Revealed(Dropped(t, {p}), p)

\* An entry written into a free slot, in front of its namesake or behind it
Entered(t, p, node) ==
  IF ~Exists(t, p) THEN {[tree |-> Put(t, p, node), at |-> p]}
  ELSE IF Exists(t, Hidden(p)) THEN {}
  ELSE {[tree |-> Put(t, Hidden(p), node), at |-> Hidden(p)],
        [tree |-> Put(MovedTo(t, p, Hidden(p)), p, node), at |-> p]}

(***************************************************************************)
(* What a call may come to: a card, whether the call answers that it       *)
(* worked, and where the entry is that it has made.  With io a device      *)
(* access may fail, or the volume be full.                                 *)
(***************************************************************************)
Refused(t) == [ok |-> FALSE, tree |-> t, at |-> Root]
Worked(t, p) == [ok |-> TRUE, tree |-> t, at |-> p]

\* A failure in a call that frees a chain: nothing was done, or the chain is
\* gone and the entry still names it.
Failed(t, p) ==
  {t} \cup IF IsDir(t, p) \/ t[p].data # <<>>
           THEN {Put(t, p, [t[p] EXCEPT !.data = <<Torn>>])} ELSE {}

\* The entries of a directory, as fat32_readdir() meets them
Slots == FlattenSeq([k \in DOMAIN Order |-> <<Order[k], Behind(Order[k])>>])
Listing(t, p) == SelectSeq(Slots, LAMBDA n : Append(p, n) \in DOMAIN t)

\* dir_alloc_slot() hangs a cluster on what it takes for the end of the
\* directory: the entries behind that are no more.
CutOff(t, d) ==
  LET all == Listing(t, d)
      After(n) == {Append(d, all[k]) : k \in (n + 1) .. Len(all)}
  IN  {t} \cup IF "link" \in Mistakes
               THEN {Dropped(t, After(n)) : n \in 0 .. Len(all)} ELSE {}

\* fat32_create() empties a file that exists and refuses a directory.  With
\* failed reads it takes a directory for nothing and writes over its entry, or
\* does not find the entry of the chain it has freed and makes another.
MayCreate(t, p) == p # Root /\ IsDir(t, Front(p)) /\ ~IsDir(t, p)
Created(t, p) == Put(Dropped(t, {p}), p, File(<<>>))
Creating(t, p, io) ==
  (IF MayCreate(t, p) THEN {Worked(Created(t, p), p)} ELSE {Refused(t)})
  \cup IF ~io \/ p = Root \/ ~IsDir(t, Front(p)) THEN {}
  ELSE LET freed == IF IsFile(t, p) THEN Failed(t, p) ELSE {t}
           cards == UNION {CutOff(u, Front(p)) : u \in freed}
       IN  {Refused(u) : u \in cards}
           \cup (IF Mistakes # {} THEN {Worked(Created(t, p), p)} ELSE {})
           \cup (IF "link" \in Mistakes
                 THEN {Worked(e.tree, e.at) : e \in UNION {Entered(u, p, File(<<>>)) : u \in cards}}
                 ELSE {})

\* fat32_unlink()
MayUnlink(t, p) == p # Root /\ IsFile(t, p)
Unlinking(t, p, io) ==
  IF ~MayUnlink(t, p) THEN {Refused(t)}
  ELSE {Worked(Without(t, p), p)} \cup IF io THEN {Refused(u) : u \in Failed(t, p)} ELSE {}

\* fat32_mkdir(): a name that was not found is free.
MayMkdir(t, p) == p # Root /\ IsDir(t, Front(p)) /\ ~Exists(t, p)
Making(t, p, io) ==
  (IF MayMkdir(t, p) THEN {Worked(Put(t, p, Dir), p)} ELSE {Refused(t)})
  \cup IF ~io \/ p = Root \/ ~IsDir(t, Front(p)) THEN {}
  ELSE {Refused(u) : u \in CutOff(t, Front(p))}
       \cup (IF Mistakes # {}
             THEN {Worked(e.tree, e.at) : e \in UNION {Entered(u, p, Dir) : u \in CutOff(t, Front(p))}}
             ELSE {})

\* fat32_rmdir(): a directory whose links cannot be read is as good as empty.
MayRmdir(t, p) == p # Root /\ IsDir(t, p) /\ Within(t, p) = {}
Removing(t, p, io) ==
  LET taken == MayRmdir(t, p) \/ (io /\ p # Root /\ IsDir(t, p) /\ "link" \in Mistakes)
  IN  (IF taken THEN {Worked(Without(t, p), p)} ELSE {})
      \cup (IF io \/ ~taken THEN {Refused(t)} ELSE {})
      \cup (IF io /\ taken THEN {Refused(u) : u \in Failed(t, p)} ELSE {})

\* fat32_rename() edits the entry, and so moves what is under it; a new name
\* that was not found is free.
Sibling(p, name) == Append(Front(p), name)
MayRenameOver(t, p, name) == p # Root /\ Exists(t, p)             \* mutant
MayRename(t, p, name) == p # Root /\ Exists(t, p) /\ ~Exists(t, Sibling(p, name))
Renamed(t, p, name) == Revealed(MovedTo(t, p, Sibling(p, name)), p)
RenamedTwice(t, p, name) ==
  LET to == Sibling(p, name)
  IN  IF to = p THEN {t}
      ELSE IF Exists(t, Hidden(to)) THEN {}
      ELSE {Revealed(MovedTo(t, p, Hidden(to)), p),
            Revealed(MovedTo(MovedTo(t, to, Hidden(to)), p, to), p)}
Renaming(t, p, name, io) ==
  (IF MayRename(t, p, name) THEN {Worked(Renamed(t, p, name), p)} ELSE {Refused(t)})
  \cup (IF io THEN {Refused(t)} ELSE {})
  \cup (IF io /\ Mistakes # {} /\ p # Root /\ Exists(t, p) /\ Exists(t, Sibling(p, name))
        THEN {Worked(u, p) : u \in RenamedTwice(t, p, name)} ELSE {})

(***************************************************************************)
(* Reading a file while its name is created again.  The chain the reader   *)
(* walks has been freed: it stops at the zeroed link of the first cluster. *)
(* If the writer was given that very cluster, it zeroes it after the       *)
(* reader's first piece, and the reader reads on in there.                 *)
(***************************************************************************)
ReadWhileRewritten(data) ==
  LET first == SubSeq(data, 1, IF Len(data) < ClusterPieces THEN Len(data) ELSE ClusterPieces)
  IN  {first, [n \in DOMAIN first |-> IF n = 1 THEN data[1] ELSE Zero]}
=============================================================================

-------------------------------- MODULE Fat32 --------------------------------
(***************************************************************************)
(* The writing half of runtime/fat32.c: create (which truncates), write,   *)
(* close, unlink, rename, mkdir and rmdir, down to the order in which one  *)
(* call writes sectors.  A call reads what it needs and then its writes    *)
(* are a sequence, `plan`; each write may be the last one before the power *)
(* goes, may fail, or may follow a chain read that failed.                 *)
(*                                                                         *)
(* A cluster is one sector here and a directory sector holds DirSlots      *)
(* entries.  File data is written a whole cluster at a time, so a file's   *)
(* size is its number of clusters (positions inside a cluster are the      *)
(* subject of module FileCursor).                                          *)
(***************************************************************************)
EXTENDS Integers, Sequences, FiniteSets, SequencesExt

CONSTANTS
  MaxCluster,  \* max_cluster: clusters are numbered 2 .. MaxCluster - 1
  NumFats,     \* num_fats: copies of the FAT
  DirSlots,    \* directory entries in one cluster
  Names,       \* 8.3 names callers use
  Ops,         \* the calls made in this instance
  Faults,      \* what may go wrong: <<kind, call>>
  MaxFaults    \* bound: how often it may go wrong in one behaviour

Calls == {"create", "truncate", "write", "close", "unlink", "rename", "mkdir",
          "rmdir"}

\* The power goes, a sector write fails, a read of the FAT or of a directory fails:
\* any but those with which a call that has found a name looks for its entry, such as
\* the loop of create after it has freed the chain (fat32.c:802), or one of those.
FaultKinds == {"power", "write", "chain", "entry"}

ASSUME VolumeAssumption ==
  /\ MaxCluster \in Nat /\ MaxCluster > 2
  /\ NumFats \in Nat \ {0} /\ DirSlots \in Nat /\ DirSlots >= 2
  /\ MaxFaults \in Nat
  /\ Names \cap {"end", "del", "data", ".", "..", "root"} = {}
  /\ Ops \subseteq Calls
  /\ Faults \subseteq FaultKinds \X Calls

VARIABLES
  fat,         \* fat[copy][cluster]: Free, Eoc or the next cluster
  sect,        \* what each cluster holds, as directory slots
  hdl,         \* the one fat32_file open for writing
  call,        \* the call in progress
  plan,        \* the writes it still has to make
  faults,      \* how many faults there have been
  failed       \* some call has reported failure after writing a sector

vars == <<fat, sect, hdl, call, plan, faults, failed>>

Copies == 1 .. NumFats
Clusters == 2 .. (MaxCluster - 1)
Slot == 0 .. (DirSlots - 1)
RootClus == 2
Free == 0
Eoc == MaxCluster + 1

(***************************************************************************)
(* Directory entries.                                                      *)
(***************************************************************************)
Entry(name, isdir, clus, size) ==
  [name |-> name, isdir |-> isdir, clus |-> clus, size |-> size]
End  == Entry("end", FALSE, 0, 0)      \* first byte $00
Del  == Entry("del", FALSE, 0, 0)      \* first byte $E5
Data == Entry("data", FALSE, 0, 0)     \* a sector that is not a directory's
Filled(e) == [s \in Slot |-> e]

NoCall == [op |-> "none", dir |-> "root", name |-> "none"]
NoHandle == [open |-> FALSE, dir |-> "root", at |-> <<RootClus, 0>>, first |-> 0,
             cur |-> 0, full |-> FALSE, size |-> 0]

(***************************************************************************)
(* fat_next(): a failed read answers end-of-chain.  One read of a call may *)
(* fail, `bad`, named by the walk it belongs to and the cluster.  Two are  *)
(* reads of a directory's sectors: "scan", where dir_find() looks first,   *)
(* and "entry", in the loop of fat32_create() that locates an entry.       *)
(***************************************************************************)
NoFault == <<"none", 0>>
FatNext(walk, clus, bad) == IF <<walk, clus>> = bad THEN Eoc ELSE fat[1][clus]

\* The clusters a walk from `clus` visits; a cycle shows as a walk longer than
\* the volume.
Chain(walk, clus, bad) ==
  LET on[s \in Seq(Clusters)] ==
        IF Len(s) > MaxCluster \/ FatNext(walk, Last(s), bad) \notin Clusters THEN s
        ELSE on[Append(s, FatNext(walk, Last(s), bad))]
  IN  IF clus \in Clusters THEN on[<<clus>>] ELSE <<>>

ChainOf(clus) == Chain("none", clus, NoFault)
ClustersOf(clus) == ToSet(ChainOf(clus))

Lowest[s \in SUBSET Clusters] == CHOOSE c \in s : \A d \in s : c <= d

\* fat_alloc() takes the lowest of these; `taken` were claimed earlier in the call.
FreeClustersMaskingEnds(taken, bad) ==                              \* mutant
  {c \in Clusters : FatNext("alloc", c, bad) \in {Free, Eoc}} \ taken
FreeClusters(taken, bad) ==
  {c \in Clusters : FatNext("alloc", c, bad) = Free} \ taken

(***************************************************************************)
(* Directory scans.  A position is <<cluster, slot>>; a scan visits the    *)
(* slots of the chain in order.                                            *)
(***************************************************************************)
Position == Clusters \X Slot
At(p) == sect[p[1]][p[2]]

PositionsIn[ch \in Seq(Clusters)] ==
  [i \in 1 .. (Len(ch) * DirSlots) |->
     <<ch[((i - 1) \div DirSlots) + 1], (i - 1) % DirSlots>>]

Scan(walk, dir, bad) == PositionsIn[Chain(walk, dir, bad)]

\* A directory in front of its end marker.
UpToEnd[scan \in Seq(Position)] ==
  LET ends == {i \in DOMAIN scan : At(scan[i]) = End}
  IN  IF ends = {} THEN scan ELSE SubSeq(scan, 1, Min(ends) - 1)
Shown(walk, dir, bad) == UpToEnd[Scan(walk, dir, bad)]

\* The first position of `scan` that is wanted, or <<>>.
FirstOf(scan, Wanted(_)) ==
  LET hits == {i \in DOMAIN scan : Wanted(scan[i])}
  IN  IF hits = {} THEN <<>> ELSE scan[Min(hits)]

\* dir_find(): stops at the end marker.  <<>> when the name is not there.
DirFind(dir, name, bad) ==
  IF bad = <<"scan", dir>> THEN <<>>
  ELSE FirstOf(Shown("find", dir, bad), LAMBDA p : At(p).name = name)

\* dir_locate() and unlink's own loop: the end marker does not stop them.
DirLocate(dir, name, bad) ==
  FirstOf(Scan("locate", dir, bad), LAMBDA p : At(p).name = name)

\* create's loop: the end marker only ends the sector it is in.
CreateLocate(dir, name, bad) ==
  FirstOf(Scan("locate", dir, bad),
          LAMBDA p : /\ At(p).name = name
                     /\ \A s \in 0 .. p[2] : At(<<p[1], s>>) # End)

\* That loop comes to a sector it cannot read before it has found the name.
LocateStops(dir, name, bad) ==
  LET ch == Chain("locate", dir, bad)
      at == CreateLocate(dir, name, bad)
  IN  /\ bad[1] = "entry"
      /\ \E i \in DOMAIN ch :
           /\ ch[i] = bad[2]
           /\ at # <<>> => \A j \in 1 .. (i - 1) : ch[j] # at[1]

\* split_parent(): the parent is the root or a directory in it; 0 when the
\* walk fails.
Parent(dir, bad) ==
  IF dir = "root" THEN RootClus
  ELSE LET p == DirFind(RootClus, dir, bad)
       IN  IF p # <<>> /\ At(p).isdir THEN At(p).clus ELSE 0

\* dir_is_empty(): a failed chain read looks like the end of the directory.
DirIsEmptyFirstCluster(clus, bad) ==                                \* mutant
  \A s \in Slot : At(<<clus, s>>).name \in {"end", "del", ".", ".."}
DirIsEmpty(clus, bad) ==
  FirstOf(Shown("empty", clus, bad),
          LAMBDA p : At(p).name \notin {"del", ".", ".."}) = <<>>

(***************************************************************************)
(* The writes a call makes, in order.                                      *)
(***************************************************************************)
FatSet(clus, val) ==
  [i \in Copies |-> [do |-> "fat", copy |-> i, clus |-> clus, val |-> val]]

Zero(clus) == <<[do |-> "sect", clus |-> clus, as |-> Filled(End)]>>
PutData(clus) == <<[do |-> "sect", clus |-> clus, as |-> Filled(Data)]>>
PutSlot(p, e) == <<[do |-> "slot", at |-> p, entry |-> e]>>
SetHandle(h) == <<[do |-> "handle", h |-> h]>>

\* fat_free_chain(): the next link is read before the entry is zeroed
FreeChainZeroingFirst(clus, bad) ==                                 \* mutant
  IF clus \in Clusters THEN FatSet(clus, Free) ELSE <<>>
FreeChain(clus, bad) ==
  LET ch == Chain("free", clus, bad)
  IN  FlattenSeq([k \in DOMAIN ch |-> FatSet(ch[k], Free)])

\* fat_alloc() and cluster_zero(), always called together
Claim(clus) == FatSet(clus, Eoc) \o Zero(clus)

\* A chain ending in `prev` grows: the new cluster is ready before it is linked.
GrowLinkingFirst(prev, new) == FatSet(prev, new) \o Claim(new)      \* mutant
Grow(prev, new) == Claim(new) \o FatSet(prev, new)

\* Writing over the end marker keeps one behind it, when that is in the sector.
KeepMarkerAlways(p, last) ==                                        \* mutant
  IF p[2] + 1 < DirSlots THEN PutSlot(<<p[1], p[2] + 1>>, End) ELSE <<>>
KeepMarker(p, last) ==
  IF last /\ p[2] + 1 < DirSlots THEN PutSlot(<<p[1], p[2] + 1>>, End) ELSE <<>>

(***************************************************************************)
(* dir_alloc_slot(): a free slot, or the first of a cluster of `room` hung *)
(* off the end.  `steps` are the writes that takes.                        *)
(***************************************************************************)
SlotIn(dir, room, bad) ==
  LET scan == Scan("slot", dir, bad)
      p == FirstOf(scan, LAMBDA q : At(q) \in {End, Del})
      prev == Last(Chain("slot", dir, bad))
      new == Lowest[room]
  IN  IF p # <<>>
      THEN [ok |-> TRUE, at |-> p, steps |-> KeepMarker(p, At(p) = End)]
      ELSE IF room = {} THEN [ok |-> FALSE, at |-> <<>>, steps |-> <<>>]
      ELSE [ok |-> TRUE, at |-> <<new, 0>>,
            steps |-> Grow(prev, new) \o KeepMarker(<<new, 0>>, TRUE)]
SlotFor(dir, taken, bad) == SlotIn(dir, FreeClusters(taken, bad), bad)

\* A call makes one plan, or none when it is refused before its first write.
Refused == {}
Plan(steps) == {[ok |-> TRUE, steps |-> steps]}
Stopped(steps) == IF steps = <<>> THEN Refused ELSE {[ok |-> FALSE, steps |-> steps]}

\* fat32_create(): dir_find() decides whether a chain is freed, and the loop after
\* it whether an entry is there to be reused; a failed read can part the two.
CreatePlans(dir, name, bad) ==
  LET parent == Parent(dir, bad)
      old == DirFind(parent, name, bad)
      chain == IF old = <<>> THEN <<>> ELSE Chain("free", At(old).clus, bad)
      freed == IF old = <<>> THEN <<>> ELSE FreeChain(At(old).clus, bad)
      at == CreateLocate(parent, name, bad)
      slot == SlotIn(parent, FreeClusters({}, bad) \cup ToSet(chain), bad)
      new == Entry(name, FALSE, 0, 0)
      Opened(p) == SetHandle([NoHandle EXCEPT !.open = TRUE, !.at = p])
  IN  IF parent = 0 \/ (old # <<>> /\ At(old).isdir) THEN Refused
      ELSE IF LocateStops(parent, name, bad) THEN Stopped(freed)
      ELSE IF at # <<>> THEN Plan(freed \o PutSlot(at, new) \o Opened(at))
      ELSE IF ~ slot.ok THEN Stopped(freed)
      ELSE Plan(freed \o slot.steps \o PutSlot(slot.at, new) \o Opened(slot.at))

\* The handle moves into cluster c; the first one is also where the file starts.
MovedToOnly(h, c) == [h EXCEPT !.cur = c, !.full = FALSE]           \* mutant
MovedTo(h, c) ==
  [h EXCEPT !.cur = c, !.full = FALSE, !.first = IF h.cur < 2 THEN c ELSE @]

\* fat32_write() of one cluster's worth of data at the end of the file
WritePlans(bad) ==
  LET next == FatNext("next", hdl.cur, bad)
      room == FreeClusters({}, bad)
      new == Lowest[room]
      Filling(h) == PutData(h.cur)
                    \o SetHandle([h EXCEPT !.full = TRUE, !.size = @ + 1])
      Into(h) == SetHandle(h) \o Filling(h)
  IN  IF hdl.cur < 2
      THEN IF room = {} THEN Refused
           ELSE Plan(Claim(new) \o Into(MovedTo(hdl, new)))
      ELSE IF ~ hdl.full THEN Plan(Filling(hdl))
      ELSE IF next < Eoc THEN Plan(Into(MovedTo(hdl, next)))
      ELSE IF room = {} THEN Refused
      ELSE Plan(Grow(hdl.cur, new) \o Into(MovedTo(hdl, new)))

\* fat32_close(): the name is read back from the entry.
ClosePlans ==
  Plan(PutSlot(hdl.at, Entry(At(hdl.at).name, FALSE, hdl.first, hdl.size))
       \o SetHandle(NoHandle))

\* The chain first, the entry second: unlink and rmdir.
Removal(dir, p, name, bad) ==
  LET at == DirLocate(dir, name, bad)
  IN  IF at = <<>> THEN Refused
      ELSE Plan(FreeChain(At(p).clus, bad) \o PutSlot(at, Del))

UnlinkPlans(dir, name, bad) ==
  LET parent == Parent(dir, bad)
      p == DirFind(parent, name, bad)
  IN  IF parent = 0 \/ p = <<>> THEN Refused
      ELSE IF At(p).isdir THEN Refused
      ELSE Removal(parent, p, name, bad)

RmdirPlans(dir, name, bad) ==
  LET parent == Parent(dir, bad)
      p == DirFind(parent, name, bad)
  IN  IF parent = 0 \/ p = <<>> THEN Refused
      ELSE IF ~ At(p).isdir \/ ~ DirIsEmpty(At(p).clus, bad) THEN Refused
      ELSE Removal(parent, p, name, bad)

RenamePlansOverwriting(dir, name, new, bad) ==                      \* mutant
  LET at == DirLocate(Parent(dir, bad), name, bad)
  IN  IF at = <<>> THEN Refused ELSE Plan(PutSlot(at, [At(at) EXCEPT !.name = new]))
RenamePlans(dir, name, new, bad) ==
  LET parent == Parent(dir, bad)
      at == DirLocate(parent, name, bad)
  IN  IF parent = 0 \/ DirFind(parent, new, bad) # <<>> \/ at = <<>> THEN Refused
      ELSE Plan(PutSlot(at, [At(at) EXCEPT !.name = new]))

\* fat32_mkdir(): seeded with "." and ".." before the parent names it
MkdirPlans(dir, name, bad) ==
  LET parent == Parent(dir, bad)
      room == FreeClusters({}, bad)
      new == Lowest[room]
      slot == SlotFor(parent, {new}, bad)
      up == IF parent = RootClus THEN 0 ELSE parent
      seed == Claim(new) \o PutSlot(<<new, 0>>, Entry(".", TRUE, new, 0))
                         \o PutSlot(<<new, 1>>, Entry("..", TRUE, up, 0))
  IN  IF parent = 0 \/ DirFind(parent, name, bad) # <<>> \/ room = {} THEN Refused
      ELSE IF ~ slot.ok THEN {[ok |-> FALSE, steps |-> seed]}
      ELSE Plan(seed \o slot.steps \o PutSlot(slot.at, Entry(name, TRUE, new, 0)))

(***************************************************************************)
(* Actions.                                                                *)
(***************************************************************************)
Init ==
  /\ fat = [i \in Copies |-> [c \in Clusters |-> IF c = RootClus THEN Eoc ELSE Free]]
  /\ sect = [c \in Clusters |-> Filled(IF c = RootClus THEN End ELSE Data)]
  /\ hdl = NoHandle
  /\ call = NoCall
  /\ plan = <<>>
  /\ faults = 0
  /\ failed = FALSE

\* Which reads a call makes.
Walks ==
  LET search == {"scan", "find", "locate"}
      making == search \cup {"entry", "free", "slot", "alloc"}
  IN  [create |-> making, truncate |-> making, mkdir |-> {"scan", "find", "slot", "alloc"},
       write |-> {"next", "alloc"}, close |-> {}, rename |-> search,
       unlink |-> search \cup {"free"}, rmdir |-> search \cup {"empty", "free"}]
BadReads(op) ==
  LET Kind(walk) == IF walk \in {"entry", "locate"} THEN "entry" ELSE "chain"
  IN  {walk \in Walks[op] : faults < MaxFaults /\ <<Kind(walk), op>> \in Faults} \X Clusters

\* A call that is refused before its first write changes nothing and is not a
\* step; a failed read counts when it changes what the call will do.
Begin(op, dir, name, Plans(_)) ==
  LET sound == Plans(NoFault)
      Start(plans) ==
        \E p \in plans :
          /\ plan' = p.steps
          /\ call' = [op |-> op, dir |-> dir, name |-> name, ok |-> p.ok]
  IN  /\ op \in Ops
      /\ \/ Start(sound) /\ UNCHANGED faults
         \/ \E bad \in BadReads(op) :
              Plans(bad) # sound /\ Start(Plans(bad)) /\ faults' = faults + 1
      /\ UNCHANGED <<fat, sect, hdl, failed>>

\* Callers leave alone the file they are writing (README, "What is assumed").
NotBeingWritten(dir, name) ==
  hdl.open => DirFind(Parent(dir, NoFault), name, NoFault) # hdl.at

Exists(dir, name) == DirFind(Parent(dir, NoFault), name, NoFault) # <<>>

Create(dir, name) ==
  /\ ~ hdl.open
  /\ Begin(IF Exists(dir, name) THEN "truncate" ELSE "create", dir, name,
           LAMBDA bad : CreatePlans(dir, name, bad))

Write == hdl.open /\ Begin("write", hdl.dir, "handle", WritePlans)

Close == hdl.open /\ Begin("close", hdl.dir, "handle", LAMBDA bad : ClosePlans)

Unlink(dir, name) ==
  /\ NotBeingWritten(dir, name)
  /\ Begin("unlink", dir, name, LAMBDA bad : UnlinkPlans(dir, name, bad))

Rename(dir, name, new) ==
  Begin("rename", dir, name, LAMBDA bad : RenamePlans(dir, name, new, bad))

\* Bound: directories are made in the root only.
Mkdir(name) == Begin("mkdir", "root", name, LAMBDA bad : MkdirPlans("root", name, bad))

Rmdir(name) == Begin("rmdir", "root", name, LAMBDA bad : RmdirPlans("root", name, bad))

\* The effect of one sector write, or of one update of the handle.
Apply(st) ==
  /\ fat' = IF st.do = "fat" THEN [fat EXCEPT ![st.copy][st.clus] = st.val] ELSE fat
  /\ sect' = CASE st.do = "sect" -> [sect EXCEPT ![st.clus] = st.as]
               [] st.do = "slot" -> [sect EXCEPT ![st.at[1]][st.at[2]] = st.entry]
               [] OTHER -> sect
  /\ hdl' = IF st.do = "handle" THEN st.h ELSE hdl

Step ==
  /\ plan # <<>>
  /\ Apply(Head(plan))
  /\ plan' = Tail(plan)
  /\ call' = IF Tail(plan) = <<>> THEN NoCall ELSE call
  /\ failed' = (failed \/ (Tail(plan) = <<>> /\ ~ call.ok))
  /\ UNCHANGED faults

\* sd_read_buf or sd_write_buf fails: the call returns false at once.  kfs_close
\* gives the handle up all the same.
WriteFails ==
  /\ <<"write", call.op>> \in Faults /\ faults < MaxFaults
  /\ plan # <<>> /\ Head(plan).do # "handle"
  /\ plan' = <<>>
  /\ call' = NoCall
  /\ hdl' = IF call.op = "close" THEN NoHandle ELSE hdl
  /\ faults' = faults + 1
  /\ failed' = TRUE
  /\ UNCHANGED <<fat, sect>>

\* The power goes: only the card survives.
PowerLoss ==
  /\ <<"power", IF plan = <<>> THEN "write" ELSE call.op>> \in Faults
  /\ faults < MaxFaults /\ (plan # <<>> \/ hdl.open)
  /\ plan' = <<>>
  /\ call' = NoCall
  /\ hdl' = NoHandle
  /\ faults' = faults + 1
  /\ failed' = TRUE
  /\ UNCHANGED <<fat, sect>>

Idle == plan = <<>>

Call ==
  \/ \E dir \in Names \cup {"root"}, name \in Names :
       \/ Create(dir, name)
       \/ Unlink(dir, name)
       \/ \E new \in Names : Rename(dir, name, new)
  \/ Write
  \/ Close
  \/ \E name \in Names : Mkdir(name) \/ Rmdir(name)

Next ==
  \/ Idle /\ Call
  \/ Step
  \/ WriteFails
  \/ PowerLoss

Spec == Init /\ [][Next]_vars
-----------------------------------------------------------------------------
(***************************************************************************)
(* Properties.                                                             *)
(***************************************************************************)
EntryNames == Names \cup {"end", "del", "data", ".", ".."}
AnEntry == [name : EntryNames, isdir : BOOLEAN,
            clus : {0} \cup Clusters, size : 0 .. MaxCluster]

\* FAT entries are links, free or end-of-chain; sectors hold entries or data;
\* the handle and the call in progress are what fat32.c's structures can hold.
TypeOK ==
  /\ fat \in [Copies -> [Clusters -> {Free, Eoc} \cup Clusters]]
  /\ \A c \in Clusters, s \in Slot : sect[c][s] \in AnEntry
  /\ hdl.at \in Clusters \X Slot
  /\ hdl.first \in {0} \cup Clusters /\ hdl.cur \in {0} \cup Clusters
  /\ hdl.first = 0 <=> hdl.cur = 0
  /\ hdl.size \in 0 .. MaxCluster
  /\ call.op \in Calls \cup {"none"}
  /\ faults \in 0 .. MaxFaults

Real(e) == e.name \in Names \cup {"data"}

\* The entries a reader sees, with where they are and the chain they lead to.
Visible(dir) ==
  {[at |-> p, dir |-> dir, entry |-> At(p), chain |-> ChainOf(At(p).clus)] :
     p \in {q \in ToSet(Shown("none", dir, NoFault)) : Real(At(q))}}

InRoot == Visible(RootClus)
SubDirs == {f \in InRoot : f.entry.isdir}
Listed == InRoot \cup UNION {Visible(d.entry.clus) : d \in SubDirs}

\* A walk of the chain from `clus` reaches an end-of-chain mark.
EndsProperly(clus) ==
  clus = 0 \/ ( /\ Len(ChainOf(clus)) < MaxCluster
               /\ fat[1][Last(ChainOf(clus))] = Eoc )

\* Between calls no entry, and no open handle, leads into free clusters or round
\* a cycle: "an entry pointing at freed clusters is corruption" (fat32.c).
NoDangling ==
  Idle => /\ \A f \in Listed : EndsProperly(f.entry.clus)
          /\ EndsProperly(hdl.first)

\* The chains in use: the root's, the handle's and those of the listed entries
\* other than the one the handle is writing.
Chains ==
  {[at |-> <<0, 0>>, chain |-> ChainOf(RootClus)]}
    \cup {[at |-> f.at, chain |-> f.chain] :
            f \in {g \in Listed : ~ hdl.open \/ g.at # hdl.at}}
    \cup {[at |-> h.at, chain |-> ChainOf(h.first)] :
            h \in {g \in {hdl} : g.open}}

\* Nothing that happens lets two files, or a file and a directory, own the same
\* cluster, at any point of any call.
NoSharing ==
  LET chains == Chains
  IN  \A f, g \in chains :
        f.at # g.at => ToSet(f.chain) \cap ToSet(g.chain) = {}

\* A directory never shows a reader bytes of file data: its clusters are zeroed
\* before they are linked, and the end marker moves with the last entry.
DirectoriesClean == \A f \in Listed : f.entry.name # "data"

\* "every FAT copy is kept in step" (fat32.h), when no write has failed.
Mirrored ==
  Idle /\ ~ failed => \A i \in Copies : fat[i] = fat[1]

\* A closed file's size is the length of its chain.
SizesMatch ==
  Idle => \A f \in Listed : ~ f.entry.isdir => f.entry.size = Len(f.chain)

\* While every call has succeeded, no cluster is allocated to nobody.
NoLeak ==
  Idle /\ ~ failed =>
    {c \in Clusters : fat[1][c] # Free} \subseteq UNION {ToSet(f.chain) : f \in Chains}

\* The volume holds together: whatever call is cut short or has a device fail
\* under it, every name leads to a chain of its own (fat_set, fat_alloc,
\* cluster_zero, dir_alloc_slot and the order in which the calls use them).
Structure == NoDangling /\ NoSharing /\ DirectoriesClean

\* The volume adds up while nothing fails: the copies of the FAT agree, a size is
\* the length of a chain, and every cluster in use has an owner.
Accounted == Mirrored /\ SizesMatch /\ NoLeak

\* A directory shows each name at most once.
NamesUnique ==
  LET listed == Listed
  IN  \A f, g \in listed :
        f.dir = g.dir /\ f.entry.name = g.entry.name => f = g

Target(f) ==
  \/ f.entry.name = call.name /\ f.dir = Parent(call.dir, NoFault)
  \/ hdl.open /\ f.at = hdl.at
  \/ hdl'.open /\ f.at = hdl'.at

\* No step of a call about one name makes the file or directory behind another
\* name vanish, changes its entry, or changes the file's chain.  (Readers look at
\* the sectors and the first copy of the FAT; other steps need no look.)
BystandersUntouched ==
  [][<<fat[1], sect>>' # <<fat[1], sect>> =>
       \A f \in Listed :
         \/ Target(f)
         \/ \E g \in Listed' :
              /\ g.at = f.at /\ g.entry = f.entry
              /\ f.entry.isdir \/ g.chain = f.chain]_vars

\* fat32.h:134: rmdir refuses a directory that still has something in it.
RmdirOnlyEmpty ==
  [][call'.op = "rmdir" /\ call.op # "rmdir" =>
       \A d \in SubDirs :
         d.entry.name = call'.name => Visible(d.entry.clus) = {}]_vars

\* fat32.c:1000: whatever the moment the power goes, an unlink leaves at worst
\* clusters nobody owns, never an entry that points at freed ones.
PowerLossOnlyLeaks ==
  Idle => \A f \in Listed : EndsProperly(f.entry.clus)

=============================================================================

----------------------------- MODULE FileCursor -----------------------------
(***************************************************************************)
(* One open file: the position, the cluster and the offset in the cluster  *)
(* that fat32_read(), fat32_read_far() and fat32_write() carry through a   *)
(* cluster chain, and kfs_seek() which moves them by reading.  A transfer  *)
(* is one step for each turn of its loop; each device access may fail.     *)
(*                                                                         *)
(* A unit of data stands for the bytes the properties can tell apart.  The *)
(* units of the data region are numbered from 0 in the order of their      *)
(* sectors, so that running off the end of a cluster is running into the   *)
(* next one on the card, whoever owns it.                                  *)
(***************************************************************************)
EXTENDS Integers, Sequences, SequencesExt

CONSTANTS
  SectorUnits, \* units in a sector: 512 bytes in the code
  SecPerClus,  \* sec_per_clus
  MaxCluster,  \* max_cluster: clusters are numbered 2 .. MaxCluster - 1
  Values,      \* byte values
  Written,     \* the ones callers write
  Zero,        \* what cluster_zero() leaves
  Lengths,     \* transfer lengths callers use
  Contents,    \* what the data region may hold when the handle is opened
  Files,       \* chains of the files that exist when the handle is opened
  Others,      \* clusters that belong to other files
  Ops,         \* the calls made in this instance, as <<mode of the handle, call>>
  Faults,      \* device failures, as <<mode, kind>>
  MaxFaults    \* bound: steps of one behaviour that meet device failures

ClusterUnits == SectorUnits * SecPerClus
Clusters == 2 .. (MaxCluster - 1)
Units == 0 .. ((MaxCluster - 2) * ClusterUnits - 1)
Free == 0
Eoc == MaxCluster + 1

\* What can fail: the transfer of a data sector; the read of the FAT that takes a
\* reader on; one that a writer makes at the end of the chain, or in the middle of
\* it; a write that is to give it a cluster.
FaultKinds == {"data", "chain", "scan", "cut", "alloc"}

ASSUME CursorAssumption ==
  /\ SectorUnits \in Nat \ {0} /\ SecPerClus \in Nat \ {0}
  /\ MaxCluster \in Nat /\ MaxCluster > 2
  /\ Others \subseteq Clusters
  /\ Zero \in Values /\ Written \subseteq Values
  /\ Lengths \subseteq Nat /\ MaxFaults \in Nat
  /\ Ops \subseteq {"r", "w"} \X {"read", "far", "write", "rewind", "forward"}
  /\ Faults \subseteq {"r", "w"} \X FaultKinds
  /\ Contents \subseteq [Units -> Values]
  /\ \A s \in Files : s \in Seq(Clusters) /\ \A j, k \in DOMAIN s : s[j] = s[k] => j = k

VARIABLES
  disk,        \* the data region, unit by unit
  fat,         \* Free, Eoc or the next cluster
  h,           \* the fat32_file
  job,         \* the call in progress
  res,         \* what the last call returned
  ioerr,       \* io_error
  stray,       \* a write has gone outside the data region
  faults       \* steps that have met a device failure so far

vars == <<disk, fat, h, job, res, ioerr, stray, faults>>

\* cluster_lba() and the offset: where the cursor points on the card
UnitOf(clus, off) == (clus - 2) * ClusterUnits + off

Least(a, b) == IF a <= b THEN a ELSE b
Greatest(a, b) == IF a <= b THEN b ELSE a

NoJob == [op |-> "none", left |-> 0, v |-> 0, got |-> <<>>, want |-> 0]
NoResult == [op |-> "none", want |-> 0, count |-> 0, io |-> FALSE]
Idle == job.op = "none"
Mode == IF h.writable THEN "w" ELSE "r"

(***************************************************************************)
(* A handle opened for reading on a file that exists (fat32_open) or for   *)
(* writing on a fresh one (fat32_create); other files own what is not free.*)
(***************************************************************************)
OpenedHandle(writable, first, size) ==
  [writable |-> writable, first |-> first, size |-> size, pos |-> 0,
   clus |-> first, off |-> 0]

LinksOf(chain) ==
  [c \in {chain[k] : k \in DOMAIN chain} |->
     LET k == CHOOSE k \in DOMAIN chain : chain[k] = c
     IN  IF k = Len(chain) THEN Eoc ELSE chain[k + 1]]

Init ==
  /\ \E chain \in Files :
       /\ fat = [c \in Clusters |-> IF c \in ToSet(chain) THEN LinksOf(chain)[c]
                                    ELSE IF c \in Others THEN Eoc ELSE Free]
       /\ IF chain = <<>> THEN h = OpenedHandle(TRUE, 0, 0)
          ELSE \E tail \in 1 .. ClusterUnits :
                 h = OpenedHandle(FALSE, chain[1], (Len(chain) - 1) * ClusterUnits + tail)
  /\ disk \in Contents
  /\ job = NoJob
  /\ res = NoResult
  /\ ioerr = FALSE
  /\ stray = FALSE
  /\ faults = 0

\* Callers clear the error flag before a transfer: kfs_read() itself, the users
\* of fat32_write() and fat32_read_far() around their loops.
Start(op, n, v) ==
  /\ Idle /\ <<Mode, op>> \in Ops
  /\ op = "write" => h.writable
  /\ job' = [op |-> op, left |-> n, v |-> v, got |-> <<>>, want |-> n]
  /\ ioerr' = FALSE
  /\ res' = NoResult
  /\ UNCHANGED <<disk, fat, h, stray, faults>>

\* kfs_seek(): backward starts over from the first cluster
SeekKeepingCluster(target) ==                                       \* mutant
  /\ Idle /\ target <= h.size
  /\ <<Mode, IF target < h.pos THEN "rewind" ELSE "forward">> \in Ops
  /\ h' = IF target < h.pos THEN [h EXCEPT !.pos = 0, !.off = 0] ELSE h
  /\ job' = [NoJob EXCEPT !.op = "seek", !.left = target - h'.pos, !.want = target - h'.pos]
  /\ res' = NoResult
  /\ UNCHANGED <<disk, fat, ioerr, stray, faults>>
Seek(target) ==
  /\ Idle /\ target <= h.size
  /\ <<Mode, IF target < h.pos THEN "rewind" ELSE "forward">> \in Ops
  /\ h' = IF target < h.pos THEN [h EXCEPT !.pos = 0, !.clus = h.first, !.off = 0]
          ELSE h
  /\ job' = [NoJob EXCEPT !.op = "seek", !.left = target - h'.pos, !.want = target - h'.pos]
  /\ res' = NoResult
  /\ UNCHANGED <<disk, fat, ioerr, stray, faults>>

Finish(io) ==
  /\ res' = [op |-> job.op, want |-> job.want, count |-> job.want - job.left, io |-> io]
  /\ job' = NoJob
  /\ ioerr' = io

Fault(kind) ==
  /\ <<Mode, kind>> \in Faults /\ faults < MaxFaults
  /\ faults' = faults + 1

\* What the device sends for the n units at the cursor.
Fetched(n) ==
  [i \in 1 .. n |-> LET u == UnitOf(h.clus, h.off) + i - 1
                    IN  IF u \in Units THEN disk[u] ELSE Zero]

Reading == job.op \in {"read", "seek"}
MayRead == job.left > 0 /\ h.pos < h.size /\ h.clus \in Clusters
ReadSizePastEnd == Least(SectorUnits - (h.off % SectorUnits), job.left) \* mutant
ReadSize ==
  Least(SectorUnits - (h.off % SectorUnits), Least(job.left, h.size - h.pos))

\* The cursor after n units: at the end of a cluster it moves to `next`.
Advanced(n, next) ==
  [h EXCEPT !.pos = @ + n, !.off = IF @ + n >= ClusterUnits THEN 0 ELSE @ + n,
            !.clus = IF h.off + n >= ClusterUnits THEN next ELSE @]

Took(n) ==
  job' = [job EXCEPT !.left = @ - n,
            !.got = IF job.op = "seek" THEN <<>> ELSE @ \o Fetched(n)]

\* One turn of fat32_read()'s loop
ReadStep ==
  /\ Reading /\ MayRead
  /\ Took(ReadSize)
  /\ \/ h' = Advanced(ReadSize, fat[h.clus]) /\ UNCHANGED <<ioerr, faults>>
     \/ /\ h.off + ReadSize >= ClusterUnits
        /\ Fault("chain")
        /\ h' = Advanced(ReadSize, Eoc)
        /\ ioerr' = TRUE
  /\ UNCHANGED <<disk, fat, res, stray>>

ReadEnds ==
  /\ Reading /\ ~ MayRead
  /\ Finish(ioerr)
  /\ UNCHANGED <<disk, fat, h, stray, faults>>

\* fat32_read_far(): whole clusters, by DMA
MayReadFar ==
  /\ job.left >= ClusterUnits /\ h.pos + ClusterUnits <= h.size
  /\ h.clus \in Clusters
  /\ h.off = 0

FarStep ==
  /\ job.op = "far" /\ MayReadFar
  /\ Took(ClusterUnits)
  /\ \/ /\ h' = [h EXCEPT !.pos = @ + ClusterUnits, !.clus = fat[h.clus]]
        /\ UNCHANGED <<ioerr, faults>>
     \/ /\ Fault("chain")
        /\ h' = [h EXCEPT !.pos = @ + ClusterUnits, !.clus = Eoc]
        /\ ioerr' = TRUE
  /\ UNCHANGED <<disk, fat, res, stray>>

FarEnds ==
  /\ job.op = "far" /\ ~ MayReadFar
  /\ Finish(ioerr)
  /\ UNCHANGED <<disk, fat, h, stray, faults>>

(***************************************************************************)
(* fat32_write(): a cluster when one is needed, then a piece of a sector.  *)
(***************************************************************************)
Writing == job.op = "write" /\ job.left > 0
NeedsCluster == h.clus < 2 \/ h.off >= ClusterUnits
FreeOnes == {c \in Clusters : fat[c] = Free}
Lowest(s) == CHOOSE c \in s : \A d \in s : c <= d
ZeroedTo(c, n) ==
  [u \in Units |-> IF u \in UnitOf(c, 0) .. UnitOf(c, n - 1) THEN Zero ELSE disk[u]]
Zeroed(c) == ZeroedTo(c, ClusterUnits)
Into(c) ==
  [h EXCEPT !.clus = c, !.off = 0, !.first = IF h.clus < 2 THEN c ELSE @]

FollowChainPastEnd ==                                               \* mutant
  /\ Writing /\ NeedsCluster
  /\ h.clus >= 2
  /\ h' = Into(fat[h.clus])
  /\ UNCHANGED <<disk, fat, job, res, ioerr, stray, faults>>
FollowChain ==
  /\ Writing /\ NeedsCluster
  /\ h.clus >= 2 /\ fat[h.clus] < Eoc
  /\ h' = Into(fat[h.clus])
  /\ UNCHANGED <<disk, fat, job, res, ioerr, stray, faults>>

AtChainEnd == h.clus >= 2 => fat[h.clus] >= Eoc

\* A read of the FAT that fails answers end-of-chain (fat32.c:219).  A writer takes
\* that for the end of its file where the chain goes on, and a free cluster whose
\* entry cannot be read for one that is not free.
Unread == IF AtChainEnd THEN "scan" ELSE "cut"

\* Whether `new` can be what fat_alloc() claims in this turn: the lowest free
\* cluster, unless a read of the FAT has failed -- of the link before, or of one of
\* the entries below.
Claims(new, unread) ==
  /\ Writing /\ NeedsCluster /\ new \in FreeOnes
  /\ IF unread THEN <<Mode, Unread>> \in Faults /\ (h.clus >= 2 \/ new > 2)
                ELSE AtChainEnd /\ new = Lowest(FreeOnes)

LinkedTo(new) ==
  [c \in Clusters |-> IF c = new THEN Eoc ELSE IF c = h.clus THEN new ELSE fat[c]]

\* fat_alloc(), cluster_zero() and the link to the cluster before it
GrowWithoutLink ==                                                  \* mutant
  /\ Writing /\ NeedsCluster /\ AtChainEnd /\ FreeOnes # {}
  /\ LET new == Lowest(FreeOnes)
     IN  /\ fat' = [fat EXCEPT ![new] = Eoc]
         /\ disk' = Zeroed(new)
         /\ h' = Into(new)
  /\ UNCHANGED <<job, res, ioerr, stray, faults>>
Grow ==
  /\ \E new \in FreeOnes, unread \in BOOLEAN :
       /\ Claims(new, unread)
       /\ fat' = LinkedTo(new)
       /\ disk' = Zeroed(new)
       /\ h' = Into(new)
       /\ IF unread THEN Fault(Unread) /\ ioerr' = TRUE ELSE UNCHANGED <<ioerr, faults>>
  /\ UNCHANGED <<job, res, stray>>

\* fat_alloc() finds no free cluster, or none whose entry it can read.
VolumeFull ==
  /\ Writing /\ NeedsCluster
  /\ \/ AtChainEnd /\ FreeOnes = {} /\ Finish(ioerr) /\ UNCHANGED faults
     \/ Fault(Unread) /\ Finish(TRUE)
  /\ UNCHANGED <<disk, fat, h, stray>>

\* fat_set() or cluster_zero() fails: before the cluster is marked, after some of its
\* sectors, or when the link to it is in the first FAT and not in the second.  None
\* of them sets the error flag.
GrowFails ==
  /\ Fault("alloc")
  /\ \E new \in FreeOnes, unread \in BOOLEAN :
       /\ Claims(new, unread)
       /\ \/ UNCHANGED <<fat, disk>>
          \/ /\ fat' = [fat EXCEPT ![new] = Eoc]
             /\ \E n \in {i \in 0 .. ClusterUnits : i % SectorUnits = 0} :
                  disk' = ZeroedTo(new, n)
          \/ /\ h.clus >= 2
             /\ fat' = LinkedTo(new)
             /\ disk' = Zeroed(new)
       /\ Finish(ioerr \/ unread)
  /\ UNCHANGED <<h, stray>>

SizeAfterTruncating(n) == h.pos + n                                 \* mutant
SizeAfter(n) == Greatest(h.size, h.pos + n)

\* The cluster is not looked at again: past the end of the chain it is no
\* cluster of the volume.
WriteStep ==
  /\ Writing /\ ~ NeedsCluster
  /\ LET n == Least(SectorUnits - (h.off % SectorUnits), job.left)
         here == UnitOf(h.clus, h.off)
     IN  /\ disk' = [u \in Units |-> IF u \in here .. (here + n - 1) THEN job.v
                                     ELSE disk[u]]
         /\ stray' = (stray \/ here \notin Units)
         /\ h' = [h EXCEPT !.off = @ + n, !.pos = @ + n,
                           !.size = SizeAfter(n)]
         /\ job' = [job EXCEPT !.left = @ - n]
  /\ UNCHANGED <<fat, res, ioerr, faults>>

WriteEnds ==
  /\ job.op = "write" /\ job.left = 0
  /\ Finish(ioerr)
  /\ UNCHANGED <<disk, fat, h, stray, faults>>

\* sd_read_buf(), sd_write_buf() or sd_read_dma() fails on a data sector.
DataFails ==
  /\ \/ Reading /\ MayRead
     \/ job.op = "far" /\ MayReadFar
     \/ Writing /\ ~ NeedsCluster
  /\ Fault("data")
  /\ Finish(TRUE)
  /\ UNCHANGED <<disk, fat, h, stray>>

Next ==
  \/ \E n \in Lengths, op \in {"read", "far"} : Start(op, n, 0)
  \/ \E n \in Lengths, v \in Written : Start("write", n, v)
  \/ \E target \in 0 .. h.size : Seek(target)
  \/ ReadStep
  \/ ReadEnds
  \/ FarStep
  \/ FarEnds
  \/ FollowChain
  \/ Grow
  \/ VolumeFull
  \/ GrowFails
  \/ WriteStep
  \/ WriteEnds
  \/ DataFails

Spec == Init /\ [][Next]_vars
-----------------------------------------------------------------------------
(***************************************************************************)
(* Properties.                                                             *)
(***************************************************************************)
\* A chain of clusters: from the first one each the one that the FAT names after
\* it, to one that it names nothing after.
IsChain(s, links, first) ==
  /\ s = <<>> <=> first = 0
  /\ \A k \in DOMAIN s :
       /\ k = 1 => s[k] = first
       /\ IF k = Len(s) THEN links[s[k]] \notin Clusters ELSE s[k + 1] = links[s[k]]
ChainFrom(links, first) ==
  CHOOSE s \in SeqOf(Clusters, MaxCluster - 2) : IsChain(s, links, first)

\* The clusters of the file
Chain == ChainFrom(fat, h.first)

\* The fat32_file's fields are in range; the file has a first cluster when it
\* has a size, and its position is inside it.
TypeOK ==
  /\ disk \in [Units -> Values]
  /\ fat \in [Clusters -> {Free, Eoc} \cup Clusters]
  /\ h.first \in {0} \cup Clusters /\ h.clus \in {0, Eoc} \cup Clusters
  /\ h.off \in 0 .. ClusterUnits
  /\ h.pos \in 0 .. h.size /\ (h.size > 0 => h.first # 0)
  /\ job.left \in Nat /\ job.want \in Nat
  /\ faults \in 0 .. MaxFaults

\* A failed read of the chain leaves the end-of-chain mark as the cluster.
Lost == h.clus = Eoc /\ h.pos < h.size

\* The cluster and the offset in a fat32_file always name the byte at its
\* position: the cluster the chain reaches there, or the end of the cluster
\* before it, as a write leaves them ("correct either way", kfs.c:390); or, when
\* a device failure has been reported, no byte at all.
CursorRight ==
  LET chain == Chain
      k == h.pos \div ClusterUnits
      r == h.pos % ClusterUnits
  IN  \/ Lost /\ faults > 0
      \/ h.off = r /\ h.clus = (IF k < Len(chain) THEN chain[k + 1]
                                ELSE IF chain = <<>> THEN 0 ELSE Eoc)
      \/ h.off = ClusterUnits /\ r = 0 /\ k > 0 /\ h.clus = chain[k]

\* Nothing is written outside the volume (fat32.c:144).
NoStrayWrite == ~ stray

Content ==
  LET chain == Chain
  IN  [i \in 1 .. h.size |->
         disk[UnitOf(chain[(i - 1) \div ClusterUnits + 1], (i - 1) % ClusterUnits)]]

\* Through the handle the file is a sequence of bytes and a position.
Bytes ==
  INSTANCE ByteFile WITH Grain <- ClusterUnits, content <- Content, pos <- h.pos,
    lost <- IF ~ Lost THEN "no" ELSE IF ioerr /\ ~ Idle THEN "new" ELSE "told"
ImplementsByteFile == Bytes!Spec

\* What a read has moved so far is what the file holds there, whatever device
\* failures came before it and whatever the caller did about them.
ReadsAreRight ==
  job.op \in {"read", "far"} =>
    job.got = SubSeq(Content, h.pos - Len(job.got) + 1, h.pos)

\* fat32.c:210: a walk of the chain "cannot continue" after a failed read.  A cluster
\* of the file stays where it is, whatever fails.
NothingCutOff == [][IsPrefix(Chain, Chain')]_vars

\* fat32.h:165: a write that moved less than it was given, without reporting a device
\* failure, has filled the volume.
ShortMeansFull ==
  res.op = "write" /\ Idle /\ res.count < res.want /\ ~ res.io => FreeOnes = {}

\* kfs.c:316: a read that moved less than there was, without reporting a device
\* failure, is at the end of the file.
ShortMeansEof ==
  res.op = "read" /\ Idle /\ res.count < res.want /\ ~ res.io => h.pos = h.size

=============================================================================

------------------------- MODULE FileCursor_proofs -------------------------
(***************************************************************************)
(* Proofs about one open file, for every geometry, chain, content, set of  *)
(* calls and number of device failures: the cursor names the byte at the   *)
(* position, no write leaves the volume and reads deliver what the file    *)
(* holds.                                                                  *)
(*                                                                         *)
(* The inductive invariant CInv says where a cursor can be (CursorAt): in  *)
(* the k-th cluster of the chain, at the end of it, nowhere yet, past the  *)
(* chain, or astray after a failed read of the chain.  It rests on Chain   *)
(* being the one sequence that the FAT spells (ChainIs), which is why a    *)
(* step that adds a cluster to it, or marks one that is never linked,      *)
(* has the chain after it (ChainGrows, ChainSurvives).                     *)
(*                                                                         *)
(* The hypothesis WriterStays: a handle opened for writing is not read,    *)
(* not sought forward, and no read of the FAT fails in the middle of its   *)
(* chain.  Without the first a write can follow that leaves the volume,    *)
(* since fat32_write() does not look at a cluster again (the run           *)
(* CursorStray); without the second the file is cut off (CursorCut).       *)
(***************************************************************************)
EXTENDS FileCursor, Numbers, FiniteSetTheorems, SequenceTheorems

\* What a FAT entry holds, and what says that no cluster is named twice
Marks == {Free, Eoc} \cup Clusters
Links == [Clusters -> Marks]
Distinct(s) == \A j, k \in DOMAIN s : s[j] = s[k] => j = k

-----------------------------------------------------------------------------
(* Chains. *)

\* What the proofs need of the geometry: a cluster is a number from 2, and never one of
\* the two marks.
LEMMA ClustersAreNumbers ==
  /\ MaxCluster \in Nat /\ MaxCluster > 2
  /\ ClusterUnits \in Nat \ {0} /\ SectorUnits \in Nat \ {0} /\ SecPerClus \in Nat \ {0}
  /\ \A c \in Clusters : c \in Nat /\ 2 <= c /\ c < MaxCluster
  /\ 0 \notin Clusters /\ Eoc \notin Clusters /\ Eoc \in Nat /\ Eoc > 2
  /\ ClusterUnits = SecPerClus * SectorUnits
BY CursorAssumption DEF Clusters, Eoc, ClusterUnits

\* One chain does not stop where another, equal so far, goes on.
LEMMA ChainsAgree ==
  ASSUME NEW links, NEW first,
         NEW s \in Seq(Clusters), IsChain(s, links, first),
         NEW t \in Seq(Clusters), IsChain(t, links, first)
  PROVE  (\A k \in DOMAIN s \cap DOMAIN t : s[k] = t[k]) /\ Len(s) <= Len(t)
<1> DEFINE Apart == {k \in DOMAIN s \cap DOMAIN t : s[k] # t[k]}
<1>1. Apart = {}
  <2>1. SUFFICES ASSUME Apart # {}
                 PROVE  FALSE
    OBVIOUS
  <2>2. PICK m \in Apart : \A n \in Apart : m <= n
    <3>1. Apart \in SUBSET Nat
      OBVIOUS
    <3>2. Apart # {}
      BY <2>1
    <3> HIDE DEF Apart
    <3> QED BY <3>1, <3>2, LeastElement
  <2>3. m \in 1 .. Len(s) /\ m \in 1 .. Len(t) /\ s[m] # t[m]
    OBVIOUS
  <2>4. m # 1
    BY <2>3 DEF IsChain
  <2>5. m - 1 \in DOMAIN s /\ m - 1 \in DOMAIN t /\ m - 1 # Len(s) /\ m - 1 # Len(t)
    BY <2>3, <2>4
  <2>6. s[m - 1] = t[m - 1]
    BY <2>2, <2>5
  <2>7. s[m] = links[s[m - 1]] /\ t[m] = links[t[m - 1]]
    BY <2>3, <2>5 DEF IsChain
  <2> QED BY <2>3, <2>6, <2>7
<1>2. \A k \in DOMAIN s \cap DOMAIN t : s[k] = t[k]
  BY <1>1
<1>3. Len(s) <= Len(t)
  <2>1. SUFFICES ASSUME Len(t) < Len(s)
                 PROVE  FALSE
    OBVIOUS
  <2>2. CASE t = <<>>
    BY <2>1, <2>2 DEF IsChain
  <2>3. CASE t # <<>>
    <3>1. Len(t) \in DOMAIN t /\ Len(t) \in DOMAIN s /\ Len(t) # Len(s)
          /\ Len(t) + 1 \in DOMAIN s
      BY <2>1, <2>3
    <3>2. links[t[Len(t)]] \notin Clusters /\ s[Len(t) + 1] = links[s[Len(t)]]
      BY <3>1 DEF IsChain
    <3> QED BY <1>2, <3>1, <3>2
  <2> QED BY <2>2, <2>3
<1> QED
  BY <1>2, <1>3

\* A chain that names no cluster twice is not longer than the volume.
LEMMA InjectiveIsShort ==
  ASSUME NEW s \in Seq(Clusters), Distinct(s)
  PROVE  Len(s) <= MaxCluster - 2
<1>1. s \in Injection(1 .. Len(s), Clusters)
  BY DEF Injection, IsInjective, Distinct
<1>2. IsFiniteSet(Clusters) /\ Cardinality(Clusters) = MaxCluster - 2
  <2>1. 2 \in Int /\ MaxCluster - 1 \in Int
    BY CursorAssumption
  <2> QED BY <2>1, FS_Interval, CursorAssumption DEF Clusters
<1>3. Cardinality(1 .. Len(s)) <= Cardinality(Clusters)
  BY <1>1, <1>2, FS_Injection
<1>4. Cardinality(1 .. Len(s)) = Len(s)
  <2>1. PICK n \in Nat : n = Len(s)
    OBVIOUS
  <2>2. 1 \in Int /\ n \in Int
    OBVIOUS
  <2>3. Cardinality(1 .. n) = IF 1 > n THEN 0 ELSE n - 1 + 1
    BY <2>2, FS_Interval
  <2> QED BY <2>1, <2>3
<1> QED
  BY <1>2, <1>3, <1>4

\* What the chain of a file is: any that can be followed to its end.
LEMMA ChainIs ==
  ASSUME NEW links, NEW first, NEW s \in Seq(Clusters), Distinct(s),
         IsChain(s, links, first)
  PROVE  ChainFrom(links, first) = s
<1> DEFINE All == SeqOf(Clusters, MaxCluster - 2)
<1>1. s \in All
  BY InjectiveIsShort, CursorAssumption DEF SeqOf
<1>2. \A t \in All : t \in Seq(Clusters)
  BY CursorAssumption DEF SeqOf
<1> DEFINE c == ChainFrom(links, first)
<1>3. c \in All /\ IsChain(c, links, first)
  <2> HIDE DEF All
  <2>1. c = CHOOSE t \in All : IsChain(t, links, first)
    BY DEF ChainFrom, All
  <2> HIDE DEF c
  <2> QED BY <1>1, <2>1
<1>4. c \in Seq(Clusters)
  BY <1>2, <1>3
<1> HIDE DEF c
<1>5. /\ \A k \in DOMAIN s \cap DOMAIN c : s[k] = c[k]
      /\ Len(s) <= Len(c) /\ Len(c) <= Len(s)
  BY <1>3, <1>4, ChainsAgree
<1>6. c = s
  BY <1>4, <1>5
<1> QED
  BY <1>6 DEF c

-----------------------------------------------------------------------------
(* The inductive invariant. *)

Calls == {"none", "read", "far", "write", "seek"}
Handles ==
  [writable : BOOLEAN, first : {0} \cup Clusters, size : Nat, pos : Nat,
   clus : Marks, off : 0 .. ClusterUnits]
Jobs == [op : Calls, left : Nat, v : Values \cup {0}, got : Seq(Values), want : Nat]
USE DEF Handles, Jobs

\* The records' fields are in range.
Types ==
  /\ disk \in [Units -> Values] /\ fat \in Links
  /\ h \in Handles
  /\ job \in Jobs
  /\ faults \in 0 .. MaxFaults

\* The file has a chain, and none of its clusters is free.
ChainOK ==
  /\ Chain \in Seq(Clusters) /\ Distinct(Chain)
  /\ IsChain(Chain, fat, h.first)
  /\ \A k \in DOMAIN Chain : fat[Chain[k]] # Free

\* The chain is long enough for the size; a file that was found has no spare cluster.
SizeOK ==
  /\ h.pos <= h.size /\ h.size <= Len(Chain) * ClusterUnits
  /\ ~ h.writable => Len(Chain) * ClusterUnits < h.size + ClusterUnits

\* Which handle a call was made on; a seek ends inside the file.
JobOK ==
  /\ job.op = "write" => h.writable /\ job.v \in Values
  /\ job.op \in {"read", "far"} => ~ h.writable
  /\ job.op = "seek" => h.pos + job.left <= h.size
  /\ job.op = "seek" /\ h.writable => h.pos + job.left < h.size

\* Where the cursor is: k is the number of whole clusters before the position.
Inside(k) ==
  /\ h.off < ClusterUnits /\ h.pos = k * ClusterUnits + h.off /\ k < Len(Chain)
  /\ h.clus = Chain[k + 1]
AtEndOf(k) ==
  /\ h.off = ClusterUnits /\ h.pos = k * ClusterUnits /\ k \in DOMAIN Chain
  /\ h.clus = Chain[k] /\ h.writable /\ job.op # "seek"
Fresh == h.writable /\ Chain = <<>> /\ h.clus = 0 /\ h.off = 0 /\ h.pos = 0
Past ==
  /\ ~ h.writable /\ h.clus = Eoc /\ h.off = 0 /\ Chain # <<>>
  /\ h.pos = Len(Chain) * ClusterUnits
Astray == ~ h.writable /\ h.off = 0 /\ Lost /\ faults > 0

CursorAt ==
  \/ \E k \in Nat : Inside(k) \/ AtEndOf(k)
  \/ Fresh
  \/ Past
  \/ Astray

CInv == Types /\ ChainOK /\ SizeOK /\ JobOK /\ CursorAt /\ ~ stray

\* A handle opened for writing is written and sought backward, nothing else, and the
\* links of its chain can be read: while it is sought in (fat32.c:502), and where a write
\* goes on in a cluster that the file has already (fat32.c:886). Any other device access
\* of a written file may fail.
WriterStays ==
  /\ \A op \in {"read", "far", "forward"} : <<"w", op>> \notin Ops
  /\ <<"w", "chain">> \notin Faults /\ <<"w", "cut">> \notin Faults

-----------------------------------------------------------------------------
\* The FAT that a file was found in links that file's clusters in their order.
LEMMA OldLinks ==
  ASSUME NEW s \in Files, Init,
         fat = [c \in Clusters |-> IF c \in ToSet(s) THEN LinksOf(s)[c]
                                   ELSE IF c \in Others THEN Eoc ELSE Free]
  PROVE  /\ s \in Seq(Clusters) /\ Distinct(s)
         /\ \A k \in DOMAIN s : fat[s[k]] = IF k = Len(s) THEN Eoc ELSE s[k + 1]
         /\ fat \in Links
<1>1. s \in Seq(Clusters) /\ Distinct(s)
  BY CursorAssumption DEF Distinct
<1>2. \A k \in DOMAIN s : LinksOf(s)[s[k]] = IF k = Len(s) THEN Eoc ELSE s[k + 1]
  <2>1. TAKE k \in DOMAIN s
  <2>2. (CHOOSE j \in DOMAIN s : s[j] = s[k]) = k
    BY <1>1 DEF Distinct
  <2> QED BY <2>2 DEF LinksOf
<1>3. \A k \in DOMAIN s : s[k] \in ToSet(s) /\ s[k] \in Clusters
  BY <1>1 DEF ToSet
<1>4. \A c \in ToSet(s) : \E k \in DOMAIN s : c = s[k]
  BY DEF ToSet
<1>5. \A k \in DOMAIN s : fat[s[k]] = IF k = Len(s) THEN Eoc ELSE s[k + 1]
  BY <1>2, <1>3
<1>6. \A k \in DOMAIN s : fat[s[k]] \in Marks
  <2>1. TAKE k \in DOMAIN s
  <2>2. CASE k = Len(s)
    BY <1>5, <2>2 DEF Marks
  <2>3. CASE k # Len(s)
    <3>1. k + 1 \in 1 .. Len(s)
      BY <1>1, <2>3
    <3>2. s[k + 1] \in Clusters
      BY <1>1, <3>1
    <3> QED BY <1>5, <2>3, <3>2 DEF Marks
  <2> QED BY <2>2, <2>3
<1>7. \A c \in Clusters : fat[c] \in Marks
  <2>1. TAKE c \in Clusters
  <2>2. CASE c \in ToSet(s)
    BY <2>2, <1>4, <1>6
  <2>3. CASE c \notin ToSet(s)
    BY <2>3 DEF Marks
  <2> QED BY <2>2, <2>3
<1>8. fat \in Links
  BY <1>7 DEF Links
<1> QED
  BY <1>1, <1>5, <1>8

\* A handle that was just opened is at the first byte of its first cluster, or has none.
LEMMA OpenedRight == Init => CInv
<1> SUFFICES ASSUME Init PROVE CInv
  OBVIOUS
<1> DEFINE up == TRUE
           down == FALSE
<1>1. PICK s \in Files :
        /\ fat = [c \in Clusters |-> IF c \in ToSet(s) THEN LinksOf(s)[c]
                                     ELSE IF c \in Others THEN Eoc ELSE Free]
        /\ IF s = <<>> THEN h = OpenedHandle(up, 0, 0)
           ELSE \E tail \in 1 .. ClusterUnits :
                  h = OpenedHandle(down, s[1], (Len(s) - 1) * ClusterUnits + tail)
  BY DEF Init
<1>2. /\ s \in Seq(Clusters) /\ Distinct(s)
      /\ \A k \in DOMAIN s : fat[s[k]] = IF k = Len(s) THEN Eoc ELSE s[k + 1]
      /\ fat \in Links
  BY <1>1, OldLinks
<1>3. up \in BOOLEAN /\ down \in BOOLEAN /\ up /\ ~ down
  OBVIOUS
<1> HIDE DEF up, down
<1>4. /\ job \in Jobs
      /\ job.op = "none" /\ faults = 0 /\ ~ stray /\ disk \in [Units -> Values]
  BY CursorAssumption DEF Init, NoJob, Calls
<1>5. faults \in 0 .. MaxFaults
  BY <1>4, CursorAssumption
<1>6. CASE s = <<>>
  <2>1. h = [writable |-> up, first |-> 0, size |-> 0, pos |-> 0, clus |-> 0, off |-> 0]
    BY <1>1, <1>6 DEF OpenedHandle
  <2>2. IsChain(s, fat, h.first)
    BY <1>6, <2>1 DEF IsChain
  <2>3. Chain = s
    BY <1>2, <2>2, ChainIs DEF Chain
  <2>4. Types
    BY <1>2, <1>3, <1>4, <1>5, <2>1, ClustersAreNumbers DEF Types, Marks, Free
  <2>5. ChainOK
    BY <1>2, <1>6, <2>2, <2>3 DEF ChainOK
  <2>6. SizeOK /\ JobOK /\ Fresh
    BY <1>3, <1>4, <1>6, <2>1, <2>3, ClustersAreNumbers DEF SizeOK, JobOK, Fresh
  <2> QED BY <1>4, <2>4, <2>5, <2>6 DEF CInv, CursorAt
<1>7. CASE s # <<>>
  <2>1. PICK tail \in 1 .. ClusterUnits :
          h = OpenedHandle(down, s[1], (Len(s) - 1) * ClusterUnits + tail)
    BY <1>1, <1>7
  <2> DEFINE size == (Len(s) - 1) * ClusterUnits + tail
  <2>2. h = [writable |-> down, first |-> s[1], size |-> size, pos |-> 0,
             clus |-> s[1], off |-> 0]
    BY <2>1 DEF OpenedHandle
  <2>3. Len(s) \in Nat /\ Len(s) >= 1 /\ s[1] \in Clusters /\ s[1] # 0
    BY <1>2, <1>7, ClustersAreNumbers
  <2>4. size \in Nat /\ size <= Len(s) * ClusterUnits
        /\ Len(s) * ClusterUnits < size + ClusterUnits
    <3>1. Len(s) * ClusterUnits = (Len(s) - 1) * ClusterUnits + ClusterUnits
          /\ (Len(s) - 1) * ClusterUnits \in Nat
      <4>1. Len(s) - 1 \in Nat
        BY <2>3
      <4> QED BY <4>1, ClustersAreNumbers, OneMore
    <3> QED BY <3>1, <2>3, ClustersAreNumbers
  <2> HIDE DEF size
  <2>5. IsChain(s, fat, h.first)
    BY <1>2, <1>7, <2>2, <2>3, ClustersAreNumbers DEF IsChain
  <2>6. Chain = s
    BY <1>2, <2>5, ChainIs DEF Chain
  <2>7. Types
    BY <1>2, <1>3, <1>4, <1>5, <2>2, <2>3, <2>4, ClustersAreNumbers
    DEF Types, Marks, Free
  <2>8. ChainOK
    BY SMTT(30), <1>2, <2>5, <2>6, ClustersAreNumbers DEF ChainOK, Free
  <2>9. SizeOK /\ JobOK
    BY <1>3, <1>4, <2>2, <2>4, <2>6 DEF SizeOK, JobOK
  <2>10. Inside(0)
    BY <2>2, <2>3, <2>6, ClustersAreNumbers DEF Inside
  <2> QED BY <1>4, <2>7, <2>8, <2>9, <2>10 DEF CInv, CursorAt
<1> QED
  BY <1>6, <1>7

-----------------------------------------------------------------------------
(* Starting a call. *)

\* A call that starts moves nothing. That no write handle starts a read is where the
\* hypothesis comes in.
LEMMA StartPreserves ==
  ASSUME CInv, WriterStays, NEW op \in Calls, NEW n \in Lengths, NEW v \in Values \cup {0},
         op = "write" => v \in Written,
         op \in {"read", "far", "write"}, Start(op, n, v)
  PROVE  CInv'
<1>1. UNCHANGED <<disk, fat, h, stray, faults>>
      /\ job' = [op |-> op, left |-> n, v |-> v, got |-> <<>>, want |-> n]
  BY DEF Start
<1>2. job'.op = op /\ job'.left = n /\ job'.v = v
  BY <1>1
<1>3. n \in Nat /\ Written \subseteq Values
  BY CursorAssumption
<1>4. job' \in Jobs
  BY <1>1, <1>3
<1>5. Types' /\ ChainOK' /\ SizeOK' /\ ~ stray'
  BY <1>1, <1>4 DEF CInv, Types, ChainOK, SizeOK, Chain
<1>6. op = "write" => h.writable
  BY DEF Start
<1>7. op \in {"read", "far"} => ~ h.writable
  BY DEF Start, Mode, WriterStays
<1>8. JobOK'
  BY <1>1, <1>2, <1>3, <1>6, <1>7 DEF JobOK
<1>9. CursorAt'
  BY <1>1, <1>2 DEF CInv, CursorAt, Inside, AtEndOf, Fresh, Past, Astray, Lost, Chain
<1> QED
  BY <1>5, <1>8, <1>9 DEF CInv

\* A seek starts over from the first cluster, or stays where it is.
LEMMA SeekPreserves ==
  ASSUME CInv, WriterStays, NEW target \in 0 .. h.size, Seek(target)
  PROVE  CInv'
<1>1. UNCHANGED <<disk, fat, stray, faults>>
  BY DEF Seek
<1>2. /\ h \in Handles
      /\ target \in Nat /\ target <= h.size /\ h.pos <= h.size
  BY DEF CInv, Types, SizeOK
<1>3. PICK p \in Nat, c \in Marks, o \in 0 .. ClusterUnits :
        /\ h' = [h EXCEPT !.pos = p, !.clus = c, !.off = o]
        /\ IF target < h.pos THEN p = 0 /\ c = h.first /\ o = 0
           ELSE p = h.pos /\ c = h.clus /\ o = h.off
  <2>1. CASE target < h.pos
    <3>1. h' = [h EXCEPT !.pos = 0, !.clus = h.first, !.off = 0]
      BY <2>1 DEF Seek
    <3>2. 0 \in Nat /\ h.first \in Marks /\ 0 \in 0 .. ClusterUnits
      BY <1>2, ClustersAreNumbers DEF Marks, Free
    <3> QED BY <2>1, <3>1, <3>2
  <2>2. CASE ~ (target < h.pos)
    <3>1. h' = [h EXCEPT !.pos = h.pos, !.clus = h.clus, !.off = h.off]
      BY <1>2, <2>2 DEF Seek
    <3> QED BY <1>2, <2>2, <3>1
  <2> QED BY <2>1, <2>2
<1>4. /\ h' \in Handles
      /\ h'.writable = h.writable /\ h'.first = h.first /\ h'.size = h.size
      /\ h'.pos = p /\ h'.clus = c /\ h'.off = o
  BY <1>2, <1>3
<1>5. PICK left \in Nat : job' = [NoJob EXCEPT !.op = "seek", !.left = left, !.want = left]
                          /\ left = target - p
  <2> DEFINE left == target - h'.pos
  <2>1. job' = [NoJob EXCEPT !.op = "seek", !.left = left, !.want = left]
    BY DEF Seek
  <2>2. left \in Nat /\ left = target - p
    BY <1>2, <1>3, <1>4
  <2> HIDE DEF left
  <2> QED BY <2>1, <2>2
<1>6. job' = [op |-> "seek", left |-> left, v |-> 0, got |-> <<>>, want |-> left]
  BY <1>5 DEF NoJob
<1>7. Chain' = Chain
  BY <1>1, <1>4 DEF Chain
<1>8. Types' /\ ~ stray'
  BY <1>1, <1>4, <1>6 DEF CInv, Types, Calls
<1>9. ChainOK'
  BY <1>1, <1>4, <1>7 DEF CInv, ChainOK
<1>10. SizeOK'
  BY <1>2, <1>3, <1>4, <1>7 DEF CInv, SizeOK
<1>11. h.writable => target < h.pos
  BY DEF Seek, Mode, WriterStays
<1>12. JobOK'
  BY <1>2, <1>4, <1>5, <1>6, <1>11 DEF JobOK
<1>13. CursorAt'
  <2>1. CASE target < h.pos
    <3>1. Len(Chain) \in Nat /\ Len(Chain) > 0
      BY <1>2, <2>1, ClustersAreNumbers DEF CInv, SizeOK, ChainOK
    <3>2. h.first = Chain[1]
      BY <3>1 DEF CInv, ChainOK, IsChain
    <3>3. Inside(0)'
      BY <1>3, <1>4, <1>7, <2>1, <3>1, <3>2, ClustersAreNumbers DEF Inside
    <3> QED BY <3>3 DEF CursorAt
  <2>2. CASE ~ (target < h.pos)
    BY <1>1, <1>3, <1>4, <1>6, <1>7, <1>11, <2>2
    DEF CInv, CursorAt, Inside, AtEndOf, Fresh, Past, Astray, Lost
  <2> QED BY <2>1, <2>2
<1> QED
  BY <1>8, <1>9, <1>10, <1>12, <1>13 DEF CInv

\* A call that is over leaves the cursor where it is.
LEMMA EndPreserves ==
  ASSUME CInv, NEW io, Finish(io), UNCHANGED <<disk, h, stray>>,
         fat' \in Links, Chain' = Chain, ChainOK', faults' \in 0 .. MaxFaults,
         faults' >= faults
  PROVE  CInv'
<1>1. job' = NoJob
  BY DEF Finish
<1>2. job'.op = "none"
  BY <1>1 DEF NoJob
<1>3. job' \in Jobs
  BY <1>1 DEF NoJob, Calls
<1>4. Types' /\ SizeOK' /\ ~ stray'
  BY <1>3 DEF CInv, Types, SizeOK
<1>5. JobOK'
  BY <1>2 DEF JobOK
<1>6. faults > 0 => faults' > 0
  BY DEF CInv, Types
<1>7. CursorAt'
  BY <1>2, <1>6 DEF CInv, CursorAt, Inside, AtEndOf, Fresh, Past, Astray, Lost
<1> QED
  BY <1>4, <1>5, <1>7 DEF CInv

-----------------------------------------------------------------------------
(* Reading. *)

\* A cursor that names a cluster and is not at its end is inside the chain.
LEMMA MustBeInside ==
  ASSUME CInv, h.clus \in Clusters, ~ h.writable \/ job.op = "seek" \/ h.off < ClusterUnits
  PROVE  \E k \in Nat : Inside(k)
BY ClustersAreNumbers DEF CInv, CursorAt, AtEndOf, Fresh, Past, Astray, Lost

\* A piece that fat32_read() takes ends with the sector, so inside the cluster.
LEMMA ReadSizeFits ==
  ASSUME CInv, Reading, MayRead
  PROVE  /\ ReadSize \in 1 .. job.left /\ h.pos + ReadSize <= h.size
         /\ h.off + ReadSize <= ClusterUnits
<1> DEFINE n == ReadSize
           room == SectorUnits - (h.off % SectorUnits)
<1>1. PICK k \in Nat : Inside(k)
  BY MustBeInside DEF Reading, MayRead, CInv, JobOK
<1>2. h.off \in 0 .. ClusterUnits /\ h.pos \in Nat /\ h.size \in Nat /\ job.left \in Nat
  BY DEF CInv, Types
<1>3. h.off \in 0 .. SecPerClus * SectorUnits - 1
  BY SMTT(30), <1>1, <1>2, ClustersAreNumbers DEF Inside
<1>4. h.off % SectorUnits \in 0 .. SectorUnits - 1 /\ h.off + room <= ClusterUnits
  BY <1>3, ClustersAreNumbers, PieceFits
<1>5. room \in Nat /\ room >= 1
  BY <1>4, ClustersAreNumbers
<1>6. n = Least(room, Least(job.left, h.size - h.pos)) /\ job.left > 0 /\ h.pos < h.size
  BY DEF ReadSize, MayRead
<1> HIDE DEF n, room
<1>7. n \in Nat /\ n >= 1 /\ n <= room /\ n <= job.left /\ h.pos + n <= h.size
  BY <1>2, <1>5, <1>6 DEF Least
<1> QED
  BY <1>2, <1>4, <1>5, <1>7, ClustersAreNumbers DEF n

\* Whatever the cursor points at, the device sends as many values as were asked for.
LEMMA FetchedIsData ==
  ASSUME Types, NEW n \in Nat
  PROVE  Fetched(n) \in Seq(Values) /\ Len(Fetched(n)) = n
<1>1. \A i \in 1 .. n : Fetched(n)[i] \in Values
  BY CursorAssumption DEF Fetched, Types
<1>2. Fetched(n) = [i \in 1 .. n |-> Fetched(n)[i]]
  BY DEF Fetched
<1> QED
  BY <1>1, <1>2

\* n units inside a cluster move the cursor inside the chain, to the end of it,
\* or, when the chain cannot be read on, off it.
LEMMA AdvancePreserves ==
  ASSUME CInv, job.op \in {"read", "far", "seek"}, h.clus \in Clusters,
         h.off < ClusterUnits, h.pos < h.size,
         NEW n \in Nat, n >= 1, n <= job.left, h.pos + n <= h.size,
         h.off + n <= ClusterUnits, Took(n),
         NEW next, h' = Advanced(n, next),
         UNCHANGED <<disk, fat, stray>>, faults' \in 0 .. MaxFaults, faults' >= faults,
         next = fat[h.clus] \/ (next = Eoc /\ faults' > 0 /\ ~ h.writable)
  PROVE  CInv'
<1>1. PICK k \in Nat : Inside(k)
  BY MustBeInside
<1>2. /\ h \in Handles
      /\ job \in Jobs
      /\ faults \in Nat
  BY DEF CInv, Types
<1>a. /\ h.pos \in Nat /\ h.off \in Nat /\ h.size \in Nat /\ job.left \in Nat
      /\ ClusterUnits \in Nat /\ ClusterUnits >= 1 /\ h.clus \in Marks
      /\ h.pos <= h.size
  BY <1>2, ClustersAreNumbers DEF CInv, SizeOK
<1>b. /\ Len(Chain) \in Nat /\ k * ClusterUnits \in Nat
      /\ h.pos = k * ClusterUnits + h.off
      /\ h.size <= Len(Chain) * ClusterUnits
      /\ Len(Chain) * ClusterUnits \in Nat
  <2>1. ClusterUnits \in Nat
    BY ClustersAreNumbers
  <2>2. Len(Chain) \in Nat
    BY DEF CInv, ChainOK
  <2> QED BY <1>1, <2>1, <2>2 DEF CInv, SizeOK, Inside
<1>3. next \in Marks
  BY <1>2 DEF CInv, Types, Links, Marks
<1>4. PICK p \in Nat, c \in Marks, o \in 0 .. ClusterUnits :
        /\ h' = [h EXCEPT !.pos = p, !.off = o, !.clus = c]
        /\ p = h.pos + n
        /\ IF h.off + n = ClusterUnits THEN o = 0 /\ c = next
           ELSE o = h.off + n /\ c = h.clus /\ o < ClusterUnits
  <2> DEFINE p == h.pos + n
             o == IF h.off + n >= ClusterUnits THEN 0 ELSE h.off + n
             c == IF h.off + n >= ClusterUnits THEN next ELSE h.clus
  <2>1. h' = [h EXCEPT !.pos = p, !.off = o, !.clus = c]
    BY <1>2 DEF Advanced
  <2>2. /\ p \in Nat /\ c \in Marks /\ o \in 0 .. ClusterUnits /\ p = h.pos + n
        /\ IF h.off + n = ClusterUnits THEN o = 0 /\ c = next
           ELSE o = h.off + n /\ c = h.clus /\ o < ClusterUnits
    <3>1. CASE h.off + n = ClusterUnits
      BY <1>a, <1>3, <3>1
    <3>2. CASE h.off + n < ClusterUnits
      BY <1>a, <1>3, <3>2
    <3> QED BY <1>a, <3>1, <3>2
  <2> HIDE DEF p, o, c
  <2> QED BY <2>1, <2>2
<1>5. /\ h' \in Handles
      /\ h'.writable = h.writable /\ h'.first = h.first /\ h'.size = h.size
      /\ h'.pos = p /\ h'.clus = c /\ h'.off = o
  BY <1>2, <1>4
<1>6. PICK left \in Nat, got \in Seq(Values) :
        job' = [job EXCEPT !.left = left, !.got = got] /\ left = job.left - n
  <2> DEFINE left == job.left - n
             got == IF job.op = "seek" THEN <<>> ELSE job.got \o Fetched(n)
  <2>1. job' = [job EXCEPT !.left = left, !.got = got]
    BY <1>2 DEF Took
  <2>2. left \in Nat
    BY <1>2
  <2>3. got \in Seq(Values)
    <3>1. Fetched(n) \in Seq(Values) /\ job.got \in Seq(Values)
      BY <1>2, FetchedIsData DEF CInv
    <3> QED BY <3>1
  <2> HIDE DEF left, got
  <2> QED BY <2>1, <2>2, <2>3 DEF left
<1>7. /\ job' \in Jobs
      /\ job'.op = job.op /\ job'.left = job.left - n /\ job'.v = job.v
  BY <1>2, <1>6
<1>8. Chain' = Chain
  BY <1>5 DEF Chain
<1>9. Types' /\ ~ stray'
  BY <1>5, <1>7 DEF CInv, Types
<1>10. ChainOK'
  BY <1>5, <1>8 DEF CInv, ChainOK
<1>11. SizeOK'
  BY <1>2, <1>4, <1>5, <1>8 DEF CInv, SizeOK
<1>12. JobOK'
  <2>1. h'.pos + job'.left = h.pos + job.left
    <3>1. h'.pos = h.pos + n /\ job'.left = job.left - n
      BY <1>4, <1>5, <1>7
    <3>2. \A x, y \in Nat : (x + n) + (y - n) = x + y
      OBVIOUS
    <3> QED BY <1>a, <3>1, <3>2
  <2>2. job.op # "write"
    OBVIOUS
  <2> QED BY <1>5, <1>7, <2>1, <2>2 DEF CInv, JobOK
<1>13. CursorAt'
  <2>1. CASE h.off + n # ClusterUnits
    <3>1. Inside(k)'
      BY SMTT(30), <1>1, <1>a, <1>b, <1>4, <1>5, <1>8, <2>1 DEF Inside
    <3> QED BY <3>1 DEF CursorAt
  <2>2. CASE h.off + n = ClusterUnits
    <3>1. p = (k + 1) * ClusterUnits /\ o = 0 /\ c = next
      <4>1. (k + 1) * ClusterUnits = k * ClusterUnits + ClusterUnits
        BY ClustersAreNumbers, OneMore
      <4> DEFINE at == k * ClusterUnits
      <4>2. at \in Nat /\ h.pos = at + h.off /\ (k + 1) * ClusterUnits = at + ClusterUnits
        BY <1>b, <4>1
      <4> HIDE DEF at
      <4> QED BY <1>a, <1>4, <2>2, <4>2
    <3>2. Len(Chain) \in Nat /\ k + 1 \in DOMAIN Chain /\ h.clus = Chain[k + 1]
      BY <1>1 DEF CInv, ChainOK, Inside
    <3>3. CASE next = fat[h.clus] /\ k + 1 # Len(Chain)
      <4>1. next = Chain[k + 2]
        BY <3>2, <3>3 DEF CInv, ChainOK, IsChain
      <4>2. Inside(k + 1)'
        <5>1. k + 1 \in Nat /\ (k + 1) * ClusterUnits \in Nat
          BY ClustersAreNumbers, OneMore
        <5>2. k + 1 < Len(Chain) /\ (k + 1) + 1 = k + 2
          BY <3>2, <3>3
        <5>3. (k + 1) * ClusterUnits + 0 = (k + 1) * ClusterUnits
          BY <5>1
        <5> QED BY <1>a, <1>5, <1>8, <3>1, <4>1, <5>2, <5>3 DEF Inside
      <4> QED BY <4>2 DEF CursorAt
    <3>4. CASE next = fat[h.clus] /\ k + 1 = Len(Chain)
      <4>1. next \notin Clusters /\ next # Free
        BY <3>2, <3>4 DEF CInv, ChainOK, IsChain
      <4>2. next = Eoc
        BY <1>3, <4>1 DEF Marks
      <4>3. ~ h.writable
        <5>1. SUFFICES ASSUME h.writable PROVE FALSE
          OBVIOUS
        <5>2. h.pos + job.left < h.size /\ h.size <= Len(Chain) * ClusterUnits
          BY <5>1 DEF CInv, JobOK, SizeOK
        <5>3. Len(Chain) * ClusterUnits \in Nat
          BY <3>2, ClustersAreNumbers
        <5> DEFINE whole == Len(Chain) * ClusterUnits
        <5>4. whole \in Nat /\ h.size <= whole /\ p = whole /\ h.pos + job.left < h.size
          BY <1>b, <3>1, <3>4, <5>2
        <5> HIDE DEF whole
        <5> QED BY <1>a, <1>4, <5>4
      <4>4. Past'
        BY <1>5, <1>8, <3>1, <3>2, <3>4, <4>2, <4>3 DEF Past
      <4> QED BY <4>4 DEF CursorAt
    <3>5. CASE next = Eoc /\ faults' > 0 /\ ~ h.writable
      <4>1. CASE p < h.size
        <5>1. Astray'
          BY <1>5, <3>1, <3>5, <4>1 DEF Astray, Lost
        <5> QED BY <5>1 DEF CursorAt
      <4>2. CASE ~ (p < h.size)
        <5>1. p = h.size /\ p <= Len(Chain) * ClusterUnits
              /\ Len(Chain) * ClusterUnits < p + ClusterUnits
          BY SMTT(30), <1>2, <1>4, <3>5, <4>2 DEF CInv, SizeOK
        <5>2. k + 1 = Len(Chain)
          <6>1. CASE k + 1 < Len(Chain)
            <7> DEFINE m == k + 1
            <7>1. m \in Nat /\ m < Len(Chain)
              BY <6>1
            <7>2. m * ClusterUnits + ClusterUnits <= Len(Chain) * ClusterUnits
              <8> HIDE DEF m
              <8> QED BY <1>b, <7>1, ClustersAreNumbers, FewerFit
            <7> QED BY SMTT(30), <1>a, <1>b, <3>1, <5>1, <7>2
          <6> QED BY <3>2, <6>1
        <5>3. Past'
          BY <1>5, <1>8, <3>1, <3>2, <3>5, <5>2 DEF Past
        <5> QED BY <5>3 DEF CursorAt
      <4> QED BY <4>1, <4>2
    <3> QED BY <3>3, <3>4, <3>5
  <2> QED BY <2>1, <2>2
<1> QED
  BY <1>9, <1>10, <1>11, <1>12, <1>13 DEF CInv

\* fat32_read(): a piece of a sector
LEMMA ReadPreserves ==
  ASSUME CInv, WriterStays, ReadStep
  PROVE  CInv'
<1> DEFINE n == ReadSize
<1>1. /\ n \in 1 .. job.left /\ h.pos + n <= h.size /\ h.off + n <= ClusterUnits
      /\ Took(n) /\ job.op \in {"read", "seek"} /\ h.clus \in Clusters /\ h.pos < h.size
      /\ UNCHANGED <<disk, fat, stray>>
  BY ReadSizeFits DEF ReadStep, Reading, MayRead
<1>2. faults \in 0 .. MaxFaults /\ MaxFaults \in Nat /\ job.left \in Nat
      /\ h.off \in 0 .. ClusterUnits
  BY CursorAssumption DEF CInv, Types
<1>3. PICK next : /\ h' = Advanced(n, next)
                  /\ \/ next = fat[h.clus] /\ faults' = faults
                     \/ /\ next = Eoc /\ <<Mode, "chain">> \in Faults
                        /\ faults < MaxFaults /\ faults' = faults + 1
  <2>1. CASE h' = Advanced(n, fat[h.clus]) /\ UNCHANGED <<ioerr, faults>>
    BY <2>1
  <2>2. CASE h' = Advanced(n, Eoc) /\ Fault("chain")
    BY <2>2 DEF Fault
  <2> QED BY <2>1, <2>2 DEF ReadStep
<1> HIDE DEF n
<1>4. h.off < ClusterUnits
  BY <1>1, <1>2, ClustersAreNumbers
<1>5. next = fat[h.clus] \/ (next = Eoc /\ faults' > 0 /\ ~ h.writable)
  BY <1>2, <1>3 DEF Mode, WriterStays
<1>6. faults' \in 0 .. MaxFaults /\ faults' >= faults
  BY <1>2, <1>3
<1>7. n \in Nat /\ n >= 1 /\ n <= job.left
  BY <1>1, <1>2
<1> QED
  BY <1>1, <1>3, <1>4, <1>5, <1>6, <1>7, AdvancePreserves

\* fat32_read_far(): a whole cluster, which its cursor is at the start of
LEMMA FarPreserves ==
  ASSUME CInv, WriterStays, FarStep
  PROVE  CInv'
<1> DEFINE n == ClusterUnits
<1>1. /\ n \in Nat /\ n >= 1 /\ n <= job.left /\ h.pos + n <= h.size /\ h.off = 0
      /\ h.off + n <= ClusterUnits /\ h.off < ClusterUnits
      /\ Took(n) /\ job.op = "far" /\ h.clus \in Clusters
      /\ UNCHANGED <<disk, fat, stray>>
  BY ClustersAreNumbers DEF FarStep, MayReadFar
<1>2. faults \in 0 .. MaxFaults /\ MaxFaults \in Nat /\ h.pos \in Nat /\ h.size \in Nat
      /\ h \in Handles
  BY CursorAssumption DEF CInv, Types
<1>3. PICK next : /\ h' = [h EXCEPT !.pos = @ + n, !.clus = next]
                  /\ \/ next = fat[h.clus] /\ faults' = faults
                     \/ /\ next = Eoc /\ <<Mode, "chain">> \in Faults
                        /\ faults < MaxFaults /\ faults' = faults + 1
  <2>1. CASE h' = [h EXCEPT !.pos = @ + n, !.clus = fat[h.clus]]
             /\ UNCHANGED <<ioerr, faults>>
    BY <2>1
  <2>2. CASE h' = [h EXCEPT !.pos = @ + n, !.clus = Eoc] /\ Fault("chain")
    BY <2>2 DEF Fault
  <2> QED BY <2>1, <2>2 DEF FarStep
<1>4. h' = Advanced(n, next)
  <2> DEFINE p == h.pos + n
             o == IF h.off + n >= ClusterUnits THEN 0 ELSE h.off + n
             c == IF h.off + n >= ClusterUnits THEN next ELSE h.clus
  <2>1. Advanced(n, next) = [h EXCEPT !.pos = p, !.off = o, !.clus = c]
    BY <1>2 DEF Advanced
  <2>2. o = h.off /\ c = next
    BY <1>1, ClustersAreNumbers
  <2>3. h' = [h EXCEPT !.pos = p, !.clus = next]
    BY <1>2, <1>3
  <2> HIDE DEF p, o, c, n
  <2>4. [h EXCEPT !.pos = p, !.off = h.off, !.clus = next] = [h EXCEPT !.pos = p, !.clus = next]
    BY <1>2
  <2> QED BY <2>1, <2>2, <2>3, <2>4
<1> HIDE DEF n
<1>5. next = fat[h.clus] \/ (next = Eoc /\ faults' > 0 /\ ~ h.writable)
  BY <1>2, <1>3 DEF Mode, WriterStays
<1>6. faults' \in 0 .. MaxFaults /\ faults' >= faults
  BY <1>2, <1>3
<1>7. h.pos < h.size
  BY <1>1, <1>2
<1> QED
  BY <1>1, <1>3, <1>4, <1>5, <1>6, <1>7, AdvancePreserves

-----------------------------------------------------------------------------
(* Writing. *)

\* A write that needs a cluster has none yet or has filled the one it is in.
LEMMA NeedsOne ==
  ASSUME CInv, Writing, NeedsCluster
  PROVE  Fresh \/ \E k \in Nat : AtEndOf(k)
<1>1. h.writable /\ h.off <= ClusterUnits
  BY DEF CInv, JobOK, Types, Writing
<1>2. \A k \in Nat : ~ Inside(k)
  <2>1. SUFFICES ASSUME NEW k \in Nat, Inside(k)
                 PROVE  FALSE
    OBVIOUS
  <2>2. k + 1 \in DOMAIN Chain /\ Chain \in Seq(Clusters)
    BY <2>1 DEF Inside, CInv, ChainOK
  <2>3. h.clus \in Clusters /\ h.off < ClusterUnits
    BY <2>1, <2>2 DEF Inside
  <2> QED BY <2>3, ClustersAreNumbers DEF NeedsCluster, CInv, Types
<1> QED
  BY <1>1, <1>2 DEF CInv, CursorAt, Past, Astray

\* Into another cluster: only the fields it names change.
LEMMA IntoCluster ==
  ASSUME Types, NEW c \in Clusters, h' = Into(c)
  PROVE  /\ h' \in Handles
         /\ h'.writable = h.writable /\ h'.size = h.size /\ h'.pos = h.pos
         /\ h'.clus = c /\ h'.off = 0
         /\ h'.first = IF h.clus < 2 THEN c ELSE h.first
<1> DEFINE f == IF h.clus < 2 THEN c ELSE h.first
<1>1. h' = [h EXCEPT !.clus = c, !.off = 0, !.first = f]
  BY DEF Types, Into
<1>2. f \in {0} \cup Clusters /\ c \in Marks /\ 0 \in 0 .. ClusterUnits
  BY ClustersAreNumbers DEF Types, Marks
<1>3. f = IF h.clus < 2 THEN c ELSE h.first
  OBVIOUS
<1> HIDE DEF f
<1>4. /\ h' \in Handles
      /\ h'.writable = h.writable /\ h'.size = h.size /\ h'.pos = h.pos
      /\ h'.clus = c /\ h'.off = 0 /\ h'.first = f
  BY <1>1, <1>2 DEF Types
<1> QED
  BY <1>3, <1>4

\* A write that has filled a cluster goes on in the one the chain names next.
LEMMA FollowPreserves ==
  ASSUME CInv, FollowChain
  PROVE  CInv'
<1>1. Writing /\ NeedsCluster /\ h.clus >= 2 /\ fat[h.clus] < Eoc /\ h' = Into(fat[h.clus])
      /\ UNCHANGED <<disk, fat, job, stray, faults>>
  BY DEF FollowChain
<1>2. PICK k \in Nat : AtEndOf(k)
  BY <1>1, NeedsOne, ClustersAreNumbers DEF Fresh
<1>3. /\ Chain \in Seq(Clusters) /\ k \in DOMAIN Chain /\ h.clus = Chain[k]
      /\ h.clus \in Clusters /\ h.pos = k * ClusterUnits /\ h.writable /\ fat \in Links
  BY <1>2 DEF AtEndOf, CInv, ChainOK, Types
<1>4. fat[h.clus] \in Clusters
  <2>1. fat[h.clus] \in Marks /\ fat[h.clus] # Free
    BY <1>3 DEF CInv, ChainOK, Links
  <2> QED BY <1>1, <2>1, ClustersAreNumbers DEF Marks
<1>5. k # Len(Chain) /\ fat[h.clus] = Chain[k + 1]
  BY <1>3, <1>4 DEF CInv, ChainOK, IsChain
<1>6. /\ h' \in Handles
      /\ h'.writable = h.writable /\ h'.size = h.size /\ h'.pos = h.pos
      /\ h'.clus = fat[h.clus] /\ h'.off = 0 /\ h'.first = h.first
  <2>1. PICK c \in Clusters : c = fat[h.clus]
    BY <1>4
  <2>2. Types /\ h' = Into(c) /\ ~ (h.clus < 2)
    BY <1>1, <1>3, <2>1, ClustersAreNumbers DEF CInv
  <2> QED BY <2>1, <2>2, IntoCluster
<1>7. Chain' = Chain
  BY <1>1, <1>6 DEF Chain
<1>8. Types' /\ ~ stray'
  BY <1>1, <1>6 DEF CInv, Types
<1>9. ChainOK' /\ SizeOK' /\ JobOK'
  BY <1>1, <1>6, <1>7 DEF CInv, ChainOK, SizeOK, JobOK
<1>10. Inside(k)'
  <2>1. k < Len(Chain) /\ 0 < ClusterUnits /\ k * ClusterUnits + 0 = k * ClusterUnits
    BY <1>3, <1>5, ClustersAreNumbers
  <2> QED BY <1>3, <1>5, <1>6, <1>7, <2>1 DEF Inside
<1> QED
  BY <1>8, <1>9, <1>10 DEF CInv, CursorAt

\* fat_alloc() takes one of the free clusters.
LEMMA LowestIsOne ==
  ASSUME NEW S \in SUBSET Clusters, S # {}
  PROVE  Lowest(S) \in S
<1>1. \E m \in S : \A n \in S : m <= n
  <2>1. S \in SUBSET Nat
    BY ClustersAreNumbers
  <2> QED BY <2>1, LeastElement
<1> QED
  BY <1>1 DEF Lowest

\* The chain after its last cluster has been linked to a new one
LEMMA ChainGrows ==
  ASSUME NEW links \in Links, NEW first, NEW s \in Seq(Clusters), Distinct(s),
         IsChain(s, links, first), \A k \in DOMAIN s : links[s[k]] # Free,
         NEW new \in Clusters, links[new] = Free,
         NEW last, s = <<>> => last \notin Clusters, s # <<>> => last = s[Len(s)],
         NEW longer,
         longer = [c \in Clusters |-> IF c = new THEN Eoc
                                      ELSE IF c = last THEN new ELSE links[c]],
         NEW start, start = IF s = <<>> THEN new ELSE first
  PROVE  LET t == Append(s, new)
         IN  /\ t \in Seq(Clusters) /\ Distinct(t) /\ IsChain(t, longer, start)
             /\ \A k \in DOMAIN t : longer[t[k]] # Free
<1> DEFINE t == Append(s, new)
           n == Len(s)
<1>1. /\ n \in Nat /\ t \in Seq(Clusters) /\ Len(t) = n + 1 /\ t[n + 1] = new
      /\ DOMAIN t = 1 .. n + 1 /\ DOMAIN s = 1 .. n
      /\ \A k \in 1 .. n : t[k] = s[k] /\ s[k] \in Clusters
      /\ n = Len(s) /\ (s = <<>> <=> n = 0)
  OBVIOUS
<1> HIDE DEF t, n
<1>2. \A k \in 1 .. n : s[k] # new
  BY <1>1
<1>3. Distinct(t)
  BY <1>1, <1>2 DEF Distinct
<1>4. \A k \in 1 .. n : s[k] = last => k = n
  <2>1. TAKE k \in 1 .. n
  <2>2. n \in 1 .. n /\ last = s[n]
    BY <1>1
  <2> QED BY <1>1, <2>2 DEF Distinct
<1>5. \A k \in 1 .. n : longer[s[k]] = IF k = n THEN new ELSE links[s[k]]
  <2>1. TAKE k \in 1 .. n
  <2>2. s # <<>>
    BY <1>1
  <2>3. last = s[n]
    BY <1>1, <2>2
  <2>4. longer[s[k]] = IF s[k] = last THEN new ELSE links[s[k]]
    BY <1>1, <1>2
  <2> QED BY <1>4, <2>3, <2>4
<1>5a. ASSUME NEW k \in 1 .. n
       PROVE  longer[t[k]] = IF k = n THEN new ELSE links[s[k]]
  <2>1. t[k] = s[k]
    BY <1>1
  <2>2. longer[s[k]] = IF k = n THEN new ELSE links[s[k]]
    BY <1>5
  <2> QED BY <2>1, <2>2
<1>6. longer[new] = Eoc
  OBVIOUS
<1>7. \A k \in DOMAIN t : longer[t[k]] # Free
  <2>1. TAKE k \in DOMAIN t
  <2>2. CASE k = n + 1
    BY <1>1, <1>6, <2>2, ClustersAreNumbers DEF Free
  <2>3. CASE k # n + 1
    <3>1. k \in 1 .. n
      BY <1>1, <2>3
    <3>2. longer[t[k]] = IF k = n THEN new ELSE links[s[k]]
      BY <1>5a, <3>1
    <3> QED BY <1>1, <3>1, <3>2, ClustersAreNumbers DEF Free
  <2> QED BY <2>2, <2>3
<1>8. t # <<>> /\ start # 0
  <2>1. s # <<>> => first # 0
    BY DEF IsChain
  <2>2. t # <<>>
    BY <1>1
  <2> QED BY <2>1, <2>2, ClustersAreNumbers
<1>9. t[1] = start
  <2>1. CASE s = <<>>
    BY <1>1, <2>1
  <2>2. CASE s # <<>>
    <3>1. 1 \in 1 .. n
      BY <1>1, <2>2
    <3>2. s[1] = first
      BY <1>1, <3>1 DEF IsChain
    <3> QED BY <1>1, <2>2, <3>1, <3>2
  <2> QED BY <2>1, <2>2
<1>10. ASSUME NEW k \in 1 .. n + 1
       PROVE  IF k = n + 1 THEN longer[t[k]] \notin Clusters ELSE t[k + 1] = longer[t[k]]
  <2>0. n \in Nat
    BY <1>1
  <2>1. CASE k = n + 1
    BY <1>1, <1>6, <2>1, ClustersAreNumbers
  <2>2. CASE k = n
    <3>1. k \in 1 .. n /\ k # n + 1 /\ n \in Nat
      BY <2>0, <2>2
    <3>2. t[k + 1] = new
      BY <1>1, <2>2
    <3>3. longer[t[k]] = new
      BY <1>5a, <2>2, <3>1
    <3> QED BY <3>1, <3>2, <3>3
  <2>3. CASE k # n /\ k # n + 1
    <3>1. k \in 1 .. n /\ k + 1 \in 1 .. n
      BY <2>0, <2>3
    <3>2. s[k + 1] = links[s[k]]
      BY <1>1, <2>3, <3>1 DEF IsChain
    <3>3. t[k + 1] = s[k + 1]
      BY <1>1, <3>1
    <3>4. longer[t[k]] = links[s[k]]
      BY <1>5a, <2>3, <3>1
    <3> QED BY <2>3, <3>2, <3>3, <3>4
  <2> QED BY <2>1, <2>2, <2>3
<1>11. IsChain(t, longer, start)
  BY SMTT(30), <1>1, <1>8, <1>9, <1>10 DEF IsChain
<1> QED
  BY <1>1, <1>3, <1>7, <1>11 DEF t

\* Where a write that gets a new cluster is: the end of the chain.
LEMMA AtTheEnd ==
  ASSUME CInv, Writing, NeedsCluster, AtChainEnd
  PROVE  \/ Fresh
         \/ AtEndOf(Len(Chain)) /\ Chain # <<>>
<1>1. CASE Fresh
  BY <1>1
<1>2. CASE \E k \in Nat : AtEndOf(k)
  <2>1. PICK k \in Nat : AtEndOf(k)
    BY <1>2
  <2>2. k \in DOMAIN Chain /\ h.clus = Chain[k] /\ h.clus \in Clusters
        /\ Chain \in Seq(Clusters) /\ Chain # <<>>
    BY <2>1 DEF AtEndOf, CInv, ChainOK
  <2>3. fat[h.clus] \notin Clusters
    BY <2>2, ClustersAreNumbers DEF AtChainEnd, Eoc
  <2>4. k = Len(Chain)
    <3>1. SUFFICES ASSUME k # Len(Chain) PROVE FALSE
      OBVIOUS
    <3>2. k + 1 \in DOMAIN Chain /\ Chain[k + 1] = fat[h.clus]
      BY <2>2, <3>1 DEF CInv, ChainOK, IsChain
    <3> QED BY <2>2, <2>3, <3>2
  <2> QED BY <2>1, <2>2, <2>4
<1> QED
  BY <1>1, <1>2, NeedsOne

\* cluster_zero() leaves a data region.
LEMMA ZeroedIsData ==
  ASSUME Types, NEW c \in Clusters, NEW n \in Nat
  PROVE  ZeroedTo(c, n) \in [Units -> Values]
BY CursorAssumption DEF Types, ZeroedTo

\* A write claims a free cluster only at the end of the chain: that is where the hypothesis
\* comes in.
LEMMA ClaimedRight ==
  ASSUME CInv, WriterStays, NEW new \in FreeOnes, NEW unread \in BOOLEAN,
         Claims(new, unread)
  PROVE  new \in Clusters /\ fat[new] = Free /\ Writing /\ NeedsCluster /\ AtChainEnd
<1>1. new \in Clusters /\ fat[new] = Free /\ Writing /\ NeedsCluster
  BY DEF FreeOnes, Claims
<1>2. AtChainEnd
  <2>1. SUFFICES ASSUME ~ AtChainEnd PROVE FALSE
    OBVIOUS
  <2>2. <<Mode, Unread>> \in Faults
    BY <2>1 DEF Claims
  <2>3. Mode = "w" /\ Unread = "cut"
    BY <1>1, <2>1 DEF Mode, Unread, Writing, CInv, JobOK
  <2> QED BY <2>2, <2>3 DEF WriterStays
<1> QED
  BY <1>1, <1>2

\* The chain after the last cluster of a file, if it has one, has been linked to a free one
LEMMA LinkedRight ==
  ASSUME CInv, Writing, NeedsCluster, AtChainEnd, NEW new \in Clusters, fat[new] = Free
  PROVE  /\ LinkedTo(new) \in Links /\ \A k \in DOMAIN Chain : Chain[k] # new
         /\ Chain = <<>> => h.clus < 2
         /\ Chain # <<>> => AtEndOf(Len(Chain)) /\ ~ (h.clus < 2)
         /\ h.pos = Len(Chain) * ClusterUnits /\ h.writable
         /\ \A start \in {IF Chain = <<>> THEN new ELSE h.first} :
              /\ ChainFrom(LinkedTo(new), start) = Append(Chain, new)
              /\ Append(Chain, new) \in Seq(Clusters) /\ Distinct(Append(Chain, new))
              /\ IsChain(Append(Chain, new), LinkedTo(new), start)
              /\ \A k \in DOMAIN Append(Chain, new) :
                   LinkedTo(new)[Append(Chain, new)[k]] # Free
<1> DEFINE t == Append(Chain, new)
           longer == LinkedTo(new)
           start == IF Chain = <<>> THEN new ELSE h.first
<1>1. longer = [c \in Clusters |-> IF c = new THEN Eoc
                                   ELSE IF c = h.clus THEN new ELSE fat[c]]
  BY DEF LinkedTo
<1>2. start = IF Chain = <<>> THEN new ELSE h.first
  OBVIOUS
<1> HIDE DEF longer, start
<1>3. /\ Chain \in Seq(Clusters) /\ Distinct(Chain) /\ IsChain(Chain, fat, h.first)
      /\ \A k \in DOMAIN Chain : fat[Chain[k]] # Free
      /\ fat \in Links
  BY DEF CInv, ChainOK, Types
<1>4. Fresh \/ (AtEndOf(Len(Chain)) /\ Chain # <<>>)
  BY AtTheEnd
<1>5. /\ Chain = <<>> => h.clus \notin Clusters /\ h.clus < 2
      /\ Chain # <<>> => /\ h.clus = Chain[Len(Chain)] /\ ~ (h.clus < 2)
                         /\ AtEndOf(Len(Chain))
      /\ h.pos = Len(Chain) * ClusterUnits /\ h.writable
  <2>1. CASE Fresh
    <3>1. Len(Chain) * ClusterUnits = 0
      BY <2>1, ClustersAreNumbers DEF Fresh
    <3> QED BY <2>1, <3>1, ClustersAreNumbers DEF Fresh
  <2>2. CASE AtEndOf(Len(Chain)) /\ Chain # <<>>
    <3>1. Chain[Len(Chain)] \in Clusters
      BY <1>3, <2>2 DEF AtEndOf
    <3> QED BY <2>2, <3>1, ClustersAreNumbers DEF AtEndOf
  <2> QED BY <1>4, <2>1, <2>2
<1>6. /\ t \in Seq(Clusters) /\ Distinct(t) /\ IsChain(t, longer, start)
      /\ \A k \in DOMAIN t : longer[t[k]] # Free
  BY <1>1, <1>2, <1>3, <1>5, ChainGrows
<1>7. longer \in Links
  BY <1>1, <1>3 DEF Links, Marks
<1>8. \A k \in DOMAIN Chain : Chain[k] # new
  BY <1>3
<1> HIDE DEF t
<1>9. ChainFrom(longer, start) = t
  BY <1>6, ChainIs
<1> QED
  BY <1>5, <1>6, <1>7, <1>8, <1>9 DEF t, longer, start

\* The chain after a cluster has been taken, and where the cursor is then
LEMMA GrowsByOne ==
  ASSUME CInv, WriterStays, Grow
  PROVE  \E new \in Clusters :
           /\ Chain' = Append(Chain, new) /\ \A k \in DOMAIN Chain : Chain[k] # new
           /\ disk' = Zeroed(new) /\ fat' \in Links /\ ChainOK'
           /\ h' \in Handles
           /\ h'.writable = h.writable /\ h'.size = h.size /\ h'.pos = h.pos
           /\ h'.clus = new /\ h'.off = 0
           /\ h.pos = Len(Chain) * ClusterUnits /\ h.writable /\ job.op = "write"
           /\ faults' \in 0 .. MaxFaults
           /\ UNCHANGED <<job, res, stray>>
<1>1. PICK new \in FreeOnes, unread \in BOOLEAN :
        /\ Claims(new, unread)
        /\ fat' = LinkedTo(new) /\ disk' = Zeroed(new) /\ h' = Into(new)
        /\ IF unread THEN Fault(Unread) ELSE faults' = faults
  BY DEF Grow
<1>2. new \in Clusters /\ fat[new] = Free /\ Writing /\ NeedsCluster /\ AtChainEnd
  BY <1>1, ClaimedRight
<1> DEFINE start == IF Chain = <<>> THEN new ELSE h.first
           t == Append(Chain, new)
<1>3. /\ LinkedTo(new) \in Links /\ \A k \in DOMAIN Chain : Chain[k] # new
      /\ Chain = <<>> => h.clus < 2
      /\ Chain # <<>> => ~ (h.clus < 2)
      /\ h.pos = Len(Chain) * ClusterUnits /\ h.writable
      /\ ChainFrom(LinkedTo(new), start) = t
      /\ t \in Seq(Clusters) /\ Distinct(t) /\ IsChain(t, LinkedTo(new), start)
      /\ \A k \in DOMAIN t : LinkedTo(new)[t[k]] # Free
  BY <1>2, LinkedRight
<1> HIDE DEF t
<1>4. Types
  BY DEF CInv
<1>5. /\ h' \in Handles
      /\ h'.writable = h.writable /\ h'.size = h.size /\ h'.pos = h.pos
      /\ h'.clus = new /\ h'.off = 0 /\ h'.first = start
  BY <1>1, <1>2, <1>3, <1>4, IntoCluster
<1> HIDE DEF start
<1>6. Chain' = t /\ ChainOK'
  BY <1>1, <1>3, <1>5 DEF Chain, ChainOK
<1>7. faults' \in 0 .. MaxFaults
  BY <1>1, CursorAssumption DEF Fault, CInv, Types
<1>8. job.op = "write" /\ UNCHANGED <<job, res, stray>>
  BY <1>2 DEF Grow, Writing
<1> QED
  BY <1>1, <1>2, <1>3, <1>5, <1>6, <1>7, <1>8 DEF t

\* A write that gets a new cluster is at the start of it, at the end of the chain.
LEMMA GrowPreserves ==
  ASSUME CInv, WriterStays, Grow
  PROVE  CInv'
<1>1. PICK new \in Clusters :
        /\ Chain' = Append(Chain, new)
        /\ disk' = Zeroed(new) /\ fat' \in Links /\ ChainOK'
        /\ h' \in Handles
        /\ h'.writable = h.writable /\ h'.size = h.size /\ h'.pos = h.pos
        /\ h'.clus = new /\ h'.off = 0
        /\ h.pos = Len(Chain) * ClusterUnits /\ h.writable /\ job.op = "write"
        /\ faults' \in 0 .. MaxFaults
        /\ UNCHANGED <<job, stray>>
  BY GrowsByOne
<1>2. Len(Chain') = Len(Chain) + 1 /\ Chain'[Len(Chain) + 1] = new /\ Len(Chain) \in Nat
  BY <1>1 DEF CInv, ChainOK
<1>3. disk' \in [Units -> Values]
  BY <1>1, ClustersAreNumbers, ZeroedIsData DEF CInv, Zeroed
<1>4. Types' /\ ~ stray'
  BY <1>1, <1>3 DEF CInv, Types
<1>5. SizeOK'
  <2> DEFINE whole == Len(Chain) * ClusterUnits
  <2>1. whole \in Nat /\ Len(Chain') * ClusterUnits = whole + ClusterUnits
    BY <1>2, ClustersAreNumbers, OneMore
  <2>2. h.pos <= h.size /\ h.size <= whole /\ h.size \in Nat
    BY DEF CInv, SizeOK, Types
  <2> HIDE DEF whole
  <2> QED BY <1>1, <2>1, <2>2, ClustersAreNumbers DEF SizeOK
<1>6. JobOK'
  BY <1>1 DEF CInv, JobOK
<1>7. CursorAt'
  <2>1. \A x \in Nat : x + 0 = x /\ x < x + 1
    OBVIOUS
  <2>2. PICK k \in Nat : k = Len(Chain)
    BY <1>2
  <2>3. k * ClusterUnits \in Nat /\ 0 < ClusterUnits
    BY ClustersAreNumbers
  <2>4. Inside(k)'
    BY <1>1, <1>2, <2>1, <2>2, <2>3 DEF Inside
  <2> QED BY <2>4 DEF CursorAt
<1> QED
  BY <1>1, <1>4, <1>5, <1>6, <1>7 DEF CInv

\* What a device failure leaves of a cluster that was to be had: nothing, a cluster that
\* is marked and in nobody's chain, or one more cluster at the end of the chain.
LEMMA FailedGrowth ==
  ASSUME CInv, WriterStays, GrowFails
  PROVE  \E new \in Clusters, n \in Nat :
           /\ fat[new] = Free /\ disk' \in {disk, ZeroedTo(new, n)} /\ n <= ClusterUnits
           /\ \/ fat' = fat
              \/ fat' = [fat EXCEPT ![new] = Eoc]
              \/ fat' = LinkedTo(new) /\ Chain # <<>>
           /\ Writing /\ NeedsCluster /\ AtChainEnd
           /\ \E io : Finish(io) /\ (ioerr \in BOOLEAN => io \in BOOLEAN)
           /\ UNCHANGED <<h, stray>> /\ faults' \in 0 .. MaxFaults
<1>1. PICK new \in FreeOnes, unread \in BOOLEAN :
        /\ Claims(new, unread)
        /\ \/ UNCHANGED <<fat, disk>>
           \/ /\ fat' = [fat EXCEPT ![new] = Eoc]
              /\ \E n \in {i \in 0 .. ClusterUnits : i % SectorUnits = 0} :
                   disk' = ZeroedTo(new, n)
           \/ /\ h.clus >= 2
              /\ fat' = LinkedTo(new)
              /\ disk' = Zeroed(new)
        /\ Finish(ioerr \/ unread)
  BY DEF GrowFails
<1>2. new \in Clusters /\ fat[new] = Free /\ Writing /\ NeedsCluster /\ AtChainEnd
  BY <1>1, ClaimedRight
<1>3. UNCHANGED <<h, stray>> /\ faults' \in 0 .. MaxFaults
  BY CursorAssumption DEF GrowFails, Fault, CInv, Types
<1>4. \E io : Finish(io) /\ (ioerr \in BOOLEAN => io \in BOOLEAN)
  <2> DEFINE either == ioerr \/ unread
  <2>1. either \in BOOLEAN /\ Finish(either)
    BY <1>1
  <2> HIDE DEF either
  <2> QED BY <2>1
<1>5. ClusterUnits \in Nat /\ 0 \in Nat /\ 0 <= ClusterUnits /\ ClusterUnits <= ClusterUnits
  BY ClustersAreNumbers
<1>6. h.clus >= 2 => Chain # <<>>
  <2>1. SUFFICES ASSUME h.clus >= 2, Chain = <<>> PROVE FALSE
    OBVIOUS
  <2>2. h.clus < 2
    BY <1>2, <2>1, LinkedRight
  <2>3. h.clus \in Nat
    BY ClustersAreNumbers DEF CInv, Types, Marks, Free
  <2> QED BY <2>1, <2>2, <2>3
<1>7. CASE UNCHANGED <<fat, disk>>
  BY <1>2, <1>3, <1>4, <1>5, <1>7
<1>8. CASE fat' = [fat EXCEPT ![new] = Eoc]
           /\ \E n \in {i \in 0 .. ClusterUnits : i % SectorUnits = 0} :
                disk' = ZeroedTo(new, n)
  <2>1. PICK n \in 0 .. ClusterUnits : disk' = ZeroedTo(new, n)
    BY <1>8
  <2>2. n \in Nat /\ n <= ClusterUnits
    BY <1>5
  <2> QED BY <1>2, <1>3, <1>4, <1>8, <2>1, <2>2
<1>9. CASE h.clus >= 2 /\ fat' = LinkedTo(new) /\ disk' = Zeroed(new)
  BY <1>2, <1>3, <1>4, <1>5, <1>6, <1>9 DEF Zeroed
<1> QED
  BY <1>1, <1>7, <1>8, <1>9

\* What the file has after it: its chain, or one cluster more, and each of its clusters
\* as it was.
LEMMA ChainSurvives ==
  ASSUME CInv, WriterStays, GrowFails
  PROVE  /\ ChainOK' /\ fat' \in Links
         /\ \/ Chain' = Chain
            \/ \E new \in Clusters : Chain' = Append(Chain, new) /\ AtEndOf(Len(Chain))
<1>1. PICK new \in Clusters, n \in Nat :
        /\ fat[new] = Free
        /\ \/ fat' = fat
           \/ fat' = [fat EXCEPT ![new] = Eoc]
           \/ fat' = LinkedTo(new) /\ Chain # <<>>
        /\ Writing /\ NeedsCluster /\ AtChainEnd
        /\ UNCHANGED h
  BY FailedGrowth
<1>2. /\ Chain \in Seq(Clusters) /\ Distinct(Chain) /\ IsChain(Chain, fat, h.first)
      /\ \A k \in DOMAIN Chain : fat[Chain[k]] # Free
      /\ fat \in Links
  BY DEF CInv, ChainOK, Types
<1>3. CASE fat' = fat \/ fat' = [fat EXCEPT ![new] = Eoc]
  <2>1. fat' \in Links
    BY <1>2, <1>3 DEF Links, Marks
  <2>2. \A k \in DOMAIN Chain : fat'[Chain[k]] = fat[Chain[k]]
    <3>1. \A c \in Clusters : c # new => fat'[c] = fat[c]
      BY <1>2, <1>3 DEF Links
    <3>2. \A k \in DOMAIN Chain : Chain[k] \in Clusters /\ Chain[k] # new
      BY <1>1, <1>2
    <3> QED BY <3>1, <3>2
  <2>3. IsChain(Chain, fat', h'.first)
    BY <1>1, <1>2, <2>2 DEF IsChain
  <2>4. Chain' = Chain
    BY <1>2, <2>3, ChainIs DEF Chain
  <2>5. ChainOK'
    BY <1>2, <2>2, <2>3, <2>4 DEF ChainOK
  <2> QED BY <2>1, <2>4, <2>5
<1>4. CASE fat' = LinkedTo(new) /\ Chain # <<>>
  <2> DEFINE t == Append(Chain, new)
  <2>1. /\ LinkedTo(new) \in Links /\ AtEndOf(Len(Chain))
        /\ ChainFrom(LinkedTo(new), h.first) = t
        /\ t \in Seq(Clusters) /\ Distinct(t) /\ IsChain(t, LinkedTo(new), h.first)
        /\ \A k \in DOMAIN t : LinkedTo(new)[t[k]] # Free
    BY <1>1, <1>4, LinkedRight
  <2> HIDE DEF t
  <2>2. Chain' = t
    BY <1>1, <1>4, <2>1 DEF Chain
  <2>3. ChainOK'
    BY <1>1, <1>4, <2>1, <2>2 DEF ChainOK
  <2> QED BY <1>4, <2>1, <2>2, <2>3 DEF t
<1> QED
  BY <1>1, <1>3, <1>4

\* A cluster that was not to be had leaves the cursor where it was, in the chain or in
\* front of the cluster that was linked all the same.
LEMMA GrowFailsPreserves ==
  ASSUME CInv, WriterStays, GrowFails
  PROVE  CInv'
<1>1. PICK new \in Clusters, n \in Nat :
        /\ disk' \in {disk, ZeroedTo(new, n)} /\ UNCHANGED <<h, stray>>
        /\ \E io : Finish(io)
        /\ faults' \in 0 .. MaxFaults /\ Writing
  BY FailedGrowth
<1>2. ChainOK' /\ fat' \in Links
  BY ChainSurvives
<1>3. job' = NoJob
  BY <1>1 DEF Finish
<1>4. job'.op = "none" /\ job' \in Jobs
  BY <1>3 DEF NoJob, Calls
<1>5. disk' \in [Units -> Values]
  BY <1>1, ZeroedIsData DEF CInv, Types
<1>6. Types' /\ ~ stray'
  BY <1>1, <1>2, <1>4, <1>5 DEF CInv, Types
<1>7. JobOK'
  BY <1>4 DEF JobOK
<1>8. h.writable
  BY <1>1 DEF Writing, CInv, JobOK
<1>9. CASE Chain' = Chain
  <2>1. SizeOK'
    BY <1>1, <1>9 DEF CInv, SizeOK
  <2>2. CursorAt'
    BY <1>1, <1>4, <1>8, <1>9 DEF CInv, CursorAt, Inside, AtEndOf, Fresh, Past, Astray
  <2> QED BY <1>2, <1>6, <1>7, <2>1, <2>2 DEF CInv
<1>10. CASE \E c \in Clusters : Chain' = Append(Chain, c) /\ AtEndOf(Len(Chain))
  <2>1. PICK c \in Clusters : Chain' = Append(Chain, c) /\ AtEndOf(Len(Chain))
    BY <1>10
  <2>2. Chain \in Seq(Clusters)
    BY DEF CInv, ChainOK
  <2>3. PICK l \in Nat : l = Len(Chain)
    BY <2>2
  <2>4. /\ Len(Chain') = l + 1 /\ l \in DOMAIN Chain' /\ Chain'[l] = Chain[l]
    BY <2>1, <2>2, <2>3 DEF AtEndOf
  <2>5. SizeOK'
    <3> DEFINE whole == l * ClusterUnits
    <3>1. whole \in Nat /\ Len(Chain') * ClusterUnits = whole + ClusterUnits
      BY <2>4, ClustersAreNumbers, OneMore
    <3>2. h.pos <= h.size /\ h.size <= whole /\ h.size \in Nat
      BY <2>3 DEF CInv, SizeOK, Types
    <3> HIDE DEF whole
    <3> QED BY <1>1, <1>8, <3>1, <3>2, ClustersAreNumbers DEF SizeOK
  <2>6. AtEndOf(l)'
    BY <1>1, <1>4, <2>1, <2>3, <2>4 DEF AtEndOf
  <2> QED BY <1>2, <1>6, <1>7, <2>5, <2>6 DEF CInv, CursorAt
<1> QED
  BY <1>9, <1>10, ChainSurvives

\* A piece of a sector is written inside the cluster the cursor is in.
LEMMA PieceWritten ==
  ASSUME CInv, Writing, ~ NeedsCluster
  PROVE  LET n == Least(SectorUnits - (h.off % SectorUnits), job.left)
         IN  /\ n \in Nat /\ n >= 1 /\ n <= job.left /\ h.off + n <= ClusterUnits
             /\ \E k \in Nat : Inside(k)
             /\ h.clus \in Clusters /\ h.off < ClusterUnits
<1> DEFINE room == SectorUnits - (h.off % SectorUnits)
<1>1. h.off \in 0 .. ClusterUnits /\ job.left \in Nat /\ job.left > 0
      /\ h.off < ClusterUnits /\ h.clus >= 2
  BY ClustersAreNumbers DEF CInv, Types, Writing, NeedsCluster, Marks, Free
<1>2. PICK k \in Nat : Inside(k)
  <2>1. h.writable
    BY DEF CInv, JobOK, Writing
  <2> QED BY <1>1, <2>1, ClustersAreNumbers
          DEF CInv, CursorAt, AtEndOf, Fresh, Past, Astray
<1>3. h.clus \in Clusters
  BY <1>2 DEF Inside, CInv, ChainOK
<1>4. h.off \in 0 .. SecPerClus * SectorUnits - 1
  BY <1>1, ClustersAreNumbers
<1>5. h.off % SectorUnits \in 0 .. SectorUnits - 1 /\ h.off + room <= ClusterUnits
  BY <1>4, ClustersAreNumbers, PieceFits
<1>6. room \in Nat /\ room >= 1
  BY <1>5, ClustersAreNumbers
<1> HIDE DEF room
<1>7. Least(room, job.left) \in Nat /\ Least(room, job.left) >= 1
      /\ Least(room, job.left) <= job.left /\ h.off + Least(room, job.left) <= ClusterUnits
  BY <1>1, <1>5, <1>6, ClustersAreNumbers DEF Least
<1> QED
  BY <1>1, <1>2, <1>3, <1>7 DEF room

\* What is inside a cluster is inside the data region.
LEMMA ClusterIsOnCard ==
  ASSUME NEW c \in Clusters, NEW off \in Nat, off < ClusterUnits
  PROVE  UnitOf(c, off) \in Units
<1>1. c - 2 \in Nat /\ MaxCluster - 2 \in Nat /\ c - 2 < MaxCluster - 2
  BY ClustersAreNumbers
<1> DEFINE j == c - 2
           k == MaxCluster - 2
<1>2. j * ClusterUnits + ClusterUnits <= k * ClusterUnits
  <2>1. j \in Nat /\ k \in Nat /\ j < k
    BY <1>1
  <2> HIDE DEF j, k
  <2> QED BY <2>1, ClustersAreNumbers, FewerFit
<1>3. j * ClusterUnits \in Nat /\ k * ClusterUnits \in Nat
  <2>1. j \in Nat /\ k \in Nat
    BY <1>1
  <2> HIDE DEF j, k
  <2> QED BY <2>1, ClustersAreNumbers
<1> DEFINE at == j * ClusterUnits
           all == k * ClusterUnits
<1>4. at \in Nat /\ all \in Nat /\ at + ClusterUnits <= all
  BY <1>2, <1>3
<1>5. UnitOf(c, off) = at + off /\ Units = 0 .. all - 1
  BY DEF UnitOf, Units
<1> HIDE DEF at, all
<1> QED
  BY <1>4, <1>5, ClustersAreNumbers

\* A piece that is written leaves the cursor behind it, at the end of the cluster when
\* it fills it.
LEMMA WritePreserves ==
  ASSUME CInv, WriteStep
  PROVE  CInv'
<1> DEFINE n == Least(SectorUnits - (h.off % SectorUnits), job.left)
           here == UnitOf(h.clus, h.off)
<1>1. /\ Writing /\ ~ NeedsCluster
      /\ disk' = [u \in Units |-> IF u \in here .. (here + n - 1) THEN job.v ELSE disk[u]]
      /\ stray' = (stray \/ here \notin Units)
      /\ h' = [h EXCEPT !.off = @ + n, !.pos = @ + n, !.size = SizeAfter(n)]
      /\ job' = [job EXCEPT !.left = @ - n]
      /\ UNCHANGED <<fat, faults>>
  BY DEF WriteStep
<1>2. /\ n \in Nat /\ n >= 1 /\ n <= job.left /\ h.off + n <= ClusterUnits
      /\ h.clus \in Clusters /\ h.off < ClusterUnits
      /\ \E k \in Nat : Inside(k)
  BY <1>1, PieceWritten
<1> HIDE DEF n
<1>3. PICK k \in Nat : Inside(k)
  BY <1>2
<1>4. /\ h \in Handles
      /\ job \in Jobs
      /\ disk \in [Units -> Values]
  BY DEF CInv, Types
<1>5. /\ h.pos \in Nat /\ h.off \in Nat /\ h.size \in Nat /\ job.left \in Nat
      /\ ClusterUnits \in Nat /\ h.pos <= h.size
  BY <1>4, ClustersAreNumbers DEF CInv, SizeOK
<1>6. ~ stray'
  <2>1. here \in Units
    BY <1>2, <1>5, ClusterIsOnCard
  <2> HIDE DEF here
  <2> QED BY <1>1, <2>1 DEF CInv
<1>7. PICK o \in 0 .. ClusterUnits, p \in Nat, z \in Nat :
        /\ h' = [h EXCEPT !.off = o, !.pos = p, !.size = z]
        /\ o = h.off + n /\ p = h.pos + n /\ z = SizeAfter(n)
  <2> DEFINE o == h.off + n
             p == h.pos + n
             z == SizeAfter(n)
  <2>1. h' = [h EXCEPT !.off = o, !.pos = p, !.size = z]
    BY <1>1, <1>4
  <2>2. o \in 0 .. ClusterUnits /\ p \in Nat /\ z \in Nat
    BY <1>2, <1>5 DEF SizeAfter, Greatest
  <2> HIDE DEF o, p, z
  <2> QED BY <2>1, <2>2 DEF o, p, z
<1>8. /\ h' \in Handles
      /\ h'.writable = h.writable /\ h'.first = h.first /\ h'.clus = h.clus
      /\ h'.size = z /\ h'.pos = p /\ h'.off = o
  BY <1>4, <1>7
<1>9. PICK left \in Nat : job' = [job EXCEPT !.left = left] /\ left = job.left - n
  <2> DEFINE left == job.left - n
  <2>1. job' = [job EXCEPT !.left = left]
    BY <1>1, <1>4
  <2>2. left \in Nat
    BY <1>2, <1>5
  <2> HIDE DEF left
  <2> QED BY <2>1, <2>2 DEF left
<1>10. /\ job' \in Jobs
       /\ job'.op = job.op /\ job'.v = job.v /\ job.op = "write"
  BY <1>1, <1>4, <1>9 DEF Writing
<1>11. disk' \in [Units -> Values]
  <2>1. job.v \in Values
    BY <1>10 DEF CInv, JobOK
  <2> HIDE DEF here
  <2> QED BY <1>1, <1>4, <2>1
<1>12. Chain' = Chain
  BY <1>1, <1>8 DEF Chain
<1>13. Types'
  BY <1>1, <1>8, <1>10, <1>11 DEF CInv, Types
<1>14. ChainOK'
  BY <1>1, <1>8, <1>12 DEF CInv, ChainOK
<1>15. h.writable
  BY <1>10 DEF CInv, JobOK
<1>16. k + 1 \in DOMAIN Chain /\ h.clus = Chain[k + 1] /\ h.pos = k * ClusterUnits + h.off
       /\ Len(Chain) \in Nat
  BY <1>3 DEF Inside, CInv, ChainOK
<1> DEFINE at == k * ClusterUnits
           whole == Len(Chain) * ClusterUnits
<1>17. /\ at \in Nat /\ whole \in Nat /\ at + ClusterUnits <= whole
       /\ (k + 1) * ClusterUnits = at + ClusterUnits
  <2> DEFINE m == Len(Chain)
  <2>1. m \in Nat /\ k < m
    BY <1>16
  <2> HIDE DEF m
  <2>2. k * ClusterUnits \in Nat /\ m * ClusterUnits \in Nat
        /\ k * ClusterUnits + ClusterUnits <= m * ClusterUnits
        /\ (k + 1) * ClusterUnits = k * ClusterUnits + ClusterUnits
    BY <2>1, ClustersAreNumbers, FewerFit, OneMore
  <2> QED BY <2>2 DEF m
<1>18. h.pos = at + h.off /\ h.size <= whole
  BY <1>16 DEF CInv, SizeOK
<1>19. SizeOK'
  <2>1. p <= z /\ z <= whole
    <3> HIDE DEF at, whole
    <3> QED BY <1>2, <1>5, <1>7, <1>17, <1>18 DEF SizeAfter, Greatest
  <2> QED BY <1>8, <1>12, <1>15, <2>1 DEF SizeOK
<1>20. JobOK'
  BY <1>8, <1>10 DEF CInv, JobOK
<1>21. CursorAt'
  <2>1. CASE o < ClusterUnits
    <3>1. p = at + o
      <4> HIDE DEF at
      <4>1. \A x, y, i \in Nat : (x + y) + i = x + (y + i)
        OBVIOUS
      <4>2. p = (at + h.off) + n /\ o = h.off + n /\ at \in Nat /\ h.off \in Nat /\ n \in Nat
        BY <1>2, <1>5, <1>7, <1>17, <1>18
      <4> QED BY <4>1, <4>2
    <3>2. Inside(k)'
      BY <1>8, <1>12, <1>16, <2>1, <3>1 DEF Inside
    <3> QED BY <3>2 DEF CursorAt
  <2>2. CASE o = ClusterUnits
    <3>1. p = at + ClusterUnits
      <4> HIDE DEF at
      <4> QED BY SMTT(30), <1>2, <1>5, <1>7, <1>17, <1>18, <2>2
    <3>2. AtEndOf(k + 1)'
      BY <1>8, <1>10, <1>12, <1>15, <1>16, <1>17, <2>2, <3>1 DEF AtEndOf
    <3>3. k + 1 \in Nat
      OBVIOUS
    <3> QED BY <3>2, <3>3 DEF CursorAt
  <2> QED BY <1>5, <2>1, <2>2
<1> QED
  BY <1>6, <1>13, <1>14, <1>19, <1>20, <1>21 DEF CInv

-----------------------------------------------------------------------------
(* Every step. *)

\* The invariant is inductive: one step for each call that starts or ends and each turn
\* of a loop.
LEMMA NextPreserves == CInv /\ WriterStays /\ [Next]_vars => CInv'
<1> SUFFICES ASSUME CInv, WriterStays, [Next]_vars
             PROVE  CInv'
  OBVIOUS
<1>1. ASSUME NEW io, Finish(io), UNCHANGED <<disk, fat, h, stray>>,
             faults' = faults \/ \E kind \in FaultKinds : Fault(kind)
      PROVE  CInv'
  <2>1. Chain' = Chain /\ fat' \in Links
    BY <1>1 DEF Chain, CInv, Types
  <2>2. ChainOK'
    BY <1>1, <2>1 DEF CInv, ChainOK
  <2>3. faults' \in 0 .. MaxFaults /\ faults' >= faults
    <3>1. faults' = faults \/ (faults < MaxFaults /\ faults' = faults + 1)
      BY <1>1 DEF Fault
    <3> QED BY <3>1, CursorAssumption DEF CInv, Types
  <2>4. UNCHANGED <<disk, h, stray>>
    BY <1>1
  <2> QED BY <1>1, <2>1, <2>2, <2>3, <2>4, EndPreserves
<1>2. ASSUME NEW n \in Lengths, NEW op \in {"read", "far"}, Start(op, n, 0)
      PROVE  CInv'
  BY <1>2, StartPreserves DEF Calls
<1>3. ASSUME NEW n \in Lengths, NEW v \in Written, Start("write", n, v)
      PROVE  CInv'
  <2>1. v \in Values \cup {0} /\ "write" \in Calls
    BY CursorAssumption DEF Calls
  <2> QED BY <1>3, <2>1, StartPreserves
<1>4. ASSUME NEW target \in 0 .. h.size, Seek(target)
      PROVE  CInv'
  BY <1>4, SeekPreserves
<1>5. CASE ReadStep
  BY <1>5, ReadPreserves
<1>6. CASE FarStep
  BY <1>6, FarPreserves
<1>7. CASE FollowChain
  BY <1>7, FollowPreserves
<1>8. CASE Grow
  BY <1>8, GrowPreserves
<1>9. CASE GrowFails
  BY <1>9, GrowFailsPreserves
<1>10. CASE WriteStep
  BY <1>10, WritePreserves
<1>11. CASE ReadEnds
  BY <1>11, <1>1 DEF ReadEnds
<1>12. CASE FarEnds
  BY <1>12, <1>1 DEF FarEnds
<1>13. CASE VolumeFull
  <2>1. Unread \in FaultKinds
    BY DEF Unread, FaultKinds
  <2> QED BY <1>13, <1>1, <2>1 DEF VolumeFull
<1>14. CASE WriteEnds
  BY <1>14, <1>1 DEF WriteEnds
<1>15. CASE DataFails
  <2>1. Fault("data") /\ Finish(TRUE) /\ UNCHANGED <<disk, fat, h, stray>>
    BY <1>15 DEF DataFails
  <2>2. "data" \in FaultKinds
    BY DEF FaultKinds
  <2> QED BY <2>1, <2>2, <1>1
<1>16. CASE UNCHANGED vars
  <2>1. Chain' = Chain
    BY <1>16 DEF vars, Chain
  <2>2. Types' /\ ChainOK' /\ SizeOK' /\ JobOK' /\ ~ stray'
    BY <1>16, <2>1 DEF vars, CInv, Types, ChainOK, SizeOK, JobOK
  <2>3. CursorAt'
    BY <1>16, <2>1
    DEF vars, CInv, CursorAt, Inside, AtEndOf, Fresh, Past, Astray, Lost
  <2> QED BY <2>2, <2>3 DEF CInv
<1> QED
  BY <1>2, <1>3, <1>4, <1>5, <1>6, <1>7, <1>8, <1>9, <1>10, <1>11, <1>12, <1>13,
     <1>14,
     <1>15, <1>16 DEF Next

\* So it holds in every state the program can reach.
LEMMA CursorIsKept ==
  ASSUME WriterStays
  PROVE  Spec => []CInv
<1>1. Init => CInv
  BY OpenedRight
<1>2. CInv /\ [Next]_vars => CInv'
  BY NextPreserves
<1> QED
  BY <1>1, <1>2, PTL DEF Spec

\* The fields of a fat32_file stay in range, whatever is transferred, sought and failed:
\* the position never passes the size, and a file with a size has a first cluster.
THEOREM TypesHold ==
  ASSUME WriterStays
  PROVE  Spec => []TypeOK
<1>1. CInv => TypeOK
  <2>1. SUFFICES ASSUME CInv PROVE TypeOK
    OBVIOUS
  <2>2. h.size > 0 => h.first # 0
    <3>1. SUFFICES ASSUME h.size > 0, h.first = 0 PROVE FALSE
      OBVIOUS
    <3>2. Chain = <<>>
      BY <2>1, <3>1 DEF CInv, ChainOK, IsChain
    <3>3. Len(Chain) * ClusterUnits = 0
      BY <3>2, ClustersAreNumbers
    <3> QED BY <2>1, <3>1, <3>3 DEF CInv, SizeOK, Types
  <2>3. h.pos \in 0 .. h.size
    BY <2>1 DEF CInv, SizeOK, Types
  <2> QED BY <2>1, <2>2, <2>3 DEF CInv, Types, TypeOK, Links, Marks, Free
<1>2. Spec => []CInv
  BY CursorIsKept
<1> QED
  BY <1>1, <1>2, PTL

\* No write of fat32_write() lands outside the data region (fat32.c:144): the cluster a
\* write goes to is always one of the volume.
THEOREM WritesStayInside ==
  ASSUME WriterStays
  PROVE  Spec => []NoStrayWrite
<1>1. CInv => NoStrayWrite
  BY DEF CInv, NoStrayWrite
<1>2. Spec => []CInv
  BY CursorIsKept
<1> QED
  BY <1>1, <1>2, PTL

\* The cluster and the offset in a fat32_file always name the byte at its position, or the
\* end of the cluster before it, or, when a device failure has been reported, none.
THEOREM CursorNamesItsByte ==
  ASSUME WriterStays
  PROVE  Spec => []CursorRight
<1>1. CInv => CursorRight
  <2> DEFINE k == h.pos \div ClusterUnits
             r == h.pos % ClusterUnits
  <2>1. SUFFICES ASSUME CInv PROVE CursorRight
    OBVIOUS
  <2>2. Len(Chain) \in Nat
    BY <2>1 DEF CInv, ChainOK
  <2>3. ASSUME NEW j \in Nat, Inside(j)
        PROVE  CursorRight
    <3>1. h.off \in 0 .. ClusterUnits - 1 /\ h.pos = j * ClusterUnits + h.off
      BY <2>1, <2>3, ClustersAreNumbers DEF CInv, Types, Inside
    <3>2. k = j /\ r = h.off
      <4>1. \A o \in 0 .. ClusterUnits - 1 : /\ (j * ClusterUnits + o) \div ClusterUnits = j
                                            /\ (j * ClusterUnits + o) % ClusterUnits = o
        BY ClustersAreNumbers, CutIsUnique
      <4> QED BY <3>1, <4>1
    <3> HIDE DEF k, r
    <3>3. h.off = r /\ h.clus = Chain[k + 1] /\ k < Len(Chain)
      BY <2>3, <3>2 DEF Inside
    <3> QED BY <3>3 DEF CursorRight, k, r
  <2>4. ASSUME NEW j \in Nat, AtEndOf(j)
        PROVE  CursorRight
    <3>1. 0 \in 0 .. ClusterUnits - 1 /\ h.pos = j * ClusterUnits + 0
      BY <2>4, ClustersAreNumbers DEF AtEndOf
    <3>2. k = j /\ r = 0
      BY <3>1, ClustersAreNumbers, CutIsUnique
    <3> HIDE DEF k, r
    <3>3. h.off = ClusterUnits /\ r = 0 /\ k > 0 /\ h.clus = Chain[k]
      BY <2>2, <2>4, <3>2 DEF AtEndOf
    <3> QED BY <3>3 DEF CursorRight, k, r
  <2>5. ASSUME h.off = 0, h.pos = Len(Chain) * ClusterUnits,
               h.clus = IF Chain = <<>> THEN 0 ELSE Eoc
        PROVE  CursorRight
    <3>1. 0 \in 0 .. ClusterUnits - 1 /\ h.pos = Len(Chain) * ClusterUnits + 0
      BY <2>2, <2>5, ClustersAreNumbers
    <3>2. k = Len(Chain) /\ r = 0
      <4>1. \A n \in Nat : /\ (n * ClusterUnits + 0) \div ClusterUnits = n
                           /\ (n * ClusterUnits + 0) % ClusterUnits = 0
        <5>1. TAKE n \in Nat
        <5>2. 0 \in 0 .. ClusterUnits - 1
          BY ClustersAreNumbers
        <5> QED BY <5>2, ClustersAreNumbers, CutIsUnique
      <4> QED BY <2>2, <3>1, <4>1
    <3> HIDE DEF k, r
    <3>3. h.off = r /\ ~ (k < Len(Chain))
      BY <2>2, <2>5, <3>2
    <3> QED BY <2>5, <3>3 DEF CursorRight, k, r
  <2>6. CASE Fresh
    <3>1. h.pos = Len(Chain) * ClusterUnits
      BY <2>6, ClustersAreNumbers DEF Fresh
    <3> QED BY <2>5, <2>6, <3>1 DEF Fresh
  <2>7. CASE Past
    BY <2>5, <2>7 DEF Past
  <2>8. CASE Astray
    BY <2>8 DEF Astray, CursorRight
  <2> QED BY <2>1, <2>3, <2>4, <2>6, <2>7, <2>8 DEF CInv, CursorAt
<1>2. Spec => []CInv
  BY CursorIsKept
<1> QED
  BY <1>1, <1>2, PTL

-----------------------------------------------------------------------------
(* Where the file's bytes are. *)

\* The unit that holds the file's byte number i, from 0
Place(i) == UnitOf(Chain[i \div ClusterUnits + 1], i % ClusterUnits)

\* Every byte of the file has a place in the data region.
LEMMA PlaceIsOnCard ==
  ASSUME ChainOK, SizeOK, Types, NEW i \in 0 .. h.size - 1
  PROVE  /\ i \div ClusterUnits + 1 \in DOMAIN Chain
         /\ Chain[i \div ClusterUnits + 1] \in Clusters
         /\ i % ClusterUnits \in 0 .. ClusterUnits - 1
         /\ Place(i) \in Units
<1> DEFINE q == i \div ClusterUnits
           r == i % ClusterUnits
           n == Len(Chain)
<1>1. h.size \in Nat /\ h.size <= n * ClusterUnits /\ n \in Nat /\ Chain \in Seq(Clusters)
  BY DEF SizeOK, Types, ChainOK
<1>2. i \in Nat /\ i < h.size
  BY <1>1
<1>3. q \in Nat /\ r \in 0 .. ClusterUnits - 1 /\ i = q * ClusterUnits + r
  BY <1>2, ClustersAreNumbers, CutExists
<1>4. n * ClusterUnits \in Nat /\ q * ClusterUnits \in Nat
  BY <1>1, <1>3, ClustersAreNumbers
<1> DEFINE whole == n * ClusterUnits
           at == q * ClusterUnits
<1>5. whole \in Nat /\ at \in Nat /\ h.size <= whole /\ i = at + r
  BY <1>1, <1>3, <1>4
<1> HIDE DEF q, r
<1>6. at < whole
  <2> HIDE DEF at, whole
  <2> QED BY <1>1, <1>2, <1>3, <1>5, ClustersAreNumbers
<1>7. q < n
  <2> HIDE DEF n
  <2> QED BY <1>1, <1>3, <1>6, ClustersAreNumbers, FewerFit
<1>8. q + 1 \in DOMAIN Chain /\ Chain[q + 1] \in Clusters
  BY <1>1, <1>3, <1>7
<1>9. UnitOf(Chain[q + 1], r) \in Units
  BY <1>3, <1>8, ClustersAreNumbers, ClusterIsOnCard
<1> QED
  BY <1>3, <1>8, <1>9 DEF q, r, Place

\* What the file holds, byte by byte
LEMMA ContentIsBytes ==
  ASSUME ChainOK, SizeOK, Types
  PROVE  /\ Content \in Seq(Values) /\ Len(Content) = h.size /\ DOMAIN Content = 1 .. h.size
         /\ \A i \in 0 .. h.size - 1 : Content[i + 1] = disk[Place(i)]
<1>1. h.size \in Nat /\ disk \in [Units -> Values]
  BY DEF Types
<1>2. Content = [i \in 1 .. h.size |-> disk[Place(i - 1)]]
  BY DEF Content, Place
<1>3. \A i \in 1 .. h.size : disk[Place(i - 1)] \in Values
  <2>1. TAKE i \in 1 .. h.size
  <2>2. i - 1 \in 0 .. h.size - 1
    BY <1>1
  <2>3. Place(i - 1) \in Units
    BY <2>2, PlaceIsOnCard
  <2> QED BY <1>1, <2>3
<1>4. Content \in [1 .. h.size -> Values]
  BY <1>2, <1>3
<1>5. \A i \in 0 .. h.size - 1 : Content[i + 1] = disk[Place(i)]
  <2>1. TAKE i \in 0 .. h.size - 1
  <2>2. i + 1 \in 1 .. h.size /\ (i + 1) - 1 = i
    BY <1>1
  <2>3. Content[i + 1] = disk[Place((i + 1) - 1)]
    BY <1>2, <2>2
  <2> QED BY <2>2, <2>3
<1> QED
  BY <1>1, <1>4, <1>5

\* The bytes after the cursor, as far as its cluster goes
LEMMA PlaceOfCursor ==
  ASSUME CInv, NEW k \in Nat, Inside(k), NEW i \in Nat, h.off + i < ClusterUnits
  PROVE  /\ Place(h.pos + i) = UnitOf(h.clus, h.off) + i
         /\ (h.pos + i) \div ClusterUnits = k /\ (h.pos + i) % ClusterUnits = h.off + i
         /\ h.clus \in Clusters /\ Place(h.pos + i) \in Units
<1>1. h.off \in Nat /\ h.pos = k * ClusterUnits + h.off /\ h.clus = Chain[k + 1]
      /\ h.clus \in Clusters /\ k * ClusterUnits \in Nat
  <2>1. k * ClusterUnits \in Nat
    BY ClustersAreNumbers
  <2>2. k + 1 \in DOMAIN Chain /\ Chain \in Seq(Clusters)
    BY DEF CInv, ChainOK, Inside
  <2> QED BY <2>1, <2>2 DEF CInv, Types, Inside
<1> DEFINE o == h.off + i
<1>2. o \in 0 .. ClusterUnits - 1
  BY <1>1, ClustersAreNumbers
<1>3. h.pos + i = k * ClusterUnits + o
  <2> DEFINE at == k * ClusterUnits
  <2>1. at \in Nat /\ h.pos = at + h.off
    BY <1>1
  <2> HIDE DEF at
  <2> QED BY <1>1, <2>1
<1>4. (k * ClusterUnits + o) \div ClusterUnits = k /\ (k * ClusterUnits + o) % ClusterUnits = o
  <2> HIDE DEF o
  <2> QED BY <1>2, ClustersAreNumbers, CutIsUnique
<1>5. Place(h.pos + i) = UnitOf(h.clus, o)
  BY <1>1, <1>3, <1>4 DEF Place
<1>6. UnitOf(h.clus, o) = UnitOf(h.clus, h.off) + i
  <2> DEFINE at == (h.clus - 2) * ClusterUnits
  <2>1. at \in Int
    BY <1>1, ClustersAreNumbers
  <2>2. UnitOf(h.clus, o) = at + (h.off + i) /\ UnitOf(h.clus, h.off) + i = (at + h.off) + i
    BY DEF UnitOf
  <2> HIDE DEF at
  <2> QED BY <1>1, <2>1, <2>2
<1>7. UnitOf(h.clus, o) \in Units
  BY <1>1, <1>2, ClustersAreNumbers, ClusterIsOnCard
<1> QED
  BY <1>1, <1>3, <1>4, <1>5, <1>6, <1>7

\* What the device sends is the next n bytes of the file.
LEMMA FetchedIsContent ==
  ASSUME CInv, NEW k \in Nat, Inside(k), NEW n \in Nat, h.off + n <= ClusterUnits,
         h.pos + n <= h.size
  PROVE  \A i \in 1 .. n : Fetched(n)[i] = Content[h.pos + i]
<1>1. TAKE i \in 1 .. n
<1>2. /\ h.off \in Nat /\ h.pos \in Nat /\ h.size \in Nat /\ ClusterUnits \in Nat
  BY ClustersAreNumbers DEF CInv, Types
<1> DEFINE j == i - 1
<1>3. j \in Nat /\ h.off + j < ClusterUnits /\ h.pos + j \in 0 .. h.size - 1
      /\ (h.pos + j) + 1 = h.pos + i
  BY <1>2
<1> HIDE DEF j
<1>4. Place(h.pos + j) = UnitOf(h.clus, h.off) + j /\ Place(h.pos + j) \in Units
  BY <1>3, PlaceOfCursor
<1>5. Content[h.pos + i] = disk[Place(h.pos + j)]
  <2>1. Content[(h.pos + j) + 1] = disk[Place(h.pos + j)]
    BY <1>3, ContentIsBytes DEF CInv
  <2> QED BY <1>3, <2>1
<1>6. Fetched(n)[i] = disk[UnitOf(h.clus, h.off) + j]
  <2> DEFINE at == UnitOf(h.clus, h.off)
             u == at + i - 1
  <2>1. Fetched(n)[i] = IF u \in Units THEN disk[u] ELSE Zero
    BY DEF Fetched
  <2>2. at \in Int
    BY <1>2, ClustersAreNumbers, PlaceOfCursor DEF UnitOf
  <2>3. u = at + j
    <3> HIDE DEF at
    <3> QED BY <2>2 DEF j
  <2> HIDE DEF u, at
  <2>4. u \in Units
    BY <1>4, <2>3 DEF at
  <2> QED BY <2>1, <2>3, <2>4 DEF at
<1> QED
  BY <1>4, <1>5, <1>6

\* The same as a part of a sequence
LEMMA FetchedIsPart ==
  ASSUME CInv, NEW k \in Nat, Inside(k), NEW n \in Nat, h.off + n <= ClusterUnits,
         h.pos + n <= h.size
  PROVE  Fetched(n) = SubSeq(Content, h.pos + 1, h.pos + n)
<1>1. h.pos \in Nat /\ h.size \in Nat /\ Types
  BY DEF CInv, Types
<1>2. Content \in Seq(Values) /\ Len(Content) = h.size
  BY ContentIsBytes DEF CInv
<1> DEFINE a == h.pos + 1
           b == h.pos + n
           part == SubSeq(Content, a, b)
<1>3. a \in Int /\ b \in Int /\ b - a + 1 = n /\ (a <= b <=> n >= 1)
      /\ \A i \in 1 .. n : a + i - 1 = h.pos + i
  BY <1>1
<1>4. \A i \in a .. b : Content[i] \in Values
  BY <1>1, <1>2
<1> HIDE DEF a, b
<1>5. /\ part \in Seq(Values) /\ Len(part) = IF a <= b THEN b - a + 1 ELSE 0
      /\ \A i \in 1 .. b - a + 1 : part[i] = Content[a + i - 1]
  BY <1>3, <1>4, SubSeqProperties
<1> HIDE DEF part
<1>6. Len(part) = n /\ \A i \in 1 .. n : part[i] = Content[h.pos + i]
  BY <1>3, <1>5
<1>7. Fetched(n) \in Seq(Values) /\ Len(Fetched(n)) = n
  BY <1>1, FetchedIsData
<1>8. \A i \in 1 .. n : Fetched(n)[i] = Content[h.pos + i]
  BY FetchedIsContent
<1>9. Fetched(n) = part
  <2> DEFINE f == Fetched(n)
  <2>1. f \in Seq(Values) /\ Len(f) = n /\ \A i \in 1 .. n : f[i] = part[i]
    BY <1>6, <1>7, <1>8
  <2> HIDE DEF f
  <2>2. f = part
    BY <1>5, <1>6, <2>1
  <2> QED BY <2>2 DEF f
<1> QED
  BY <1>9 DEF part, a, b

\* Only the card, the chain and the size say what the file holds.
LEMMA ContentStays ==
  ASSUME UNCHANGED <<disk, fat>>, h'.first = h.first, h'.size = h.size
  PROVE  Content' = Content /\ Chain' = Chain
BY DEF Content, Chain

-----------------------------------------------------------------------------
(* A turn of a reading loop. *)

\* What a turn of either loop does to the file, the position and the call
LEMMA TakesContent ==
  ASSUME CInv, WriterStays, ReadStep \/ FarStep
  PROVE  \E n \in 1 .. job.left :
           /\ h.pos + n <= h.size /\ h'.pos = h.pos + n
           /\ job' = [job EXCEPT !.left = @ - n,
                        !.got = IF job.op = "seek" THEN <<>>
                                ELSE @ \o SubSeq(Content, h.pos + 1, h.pos + n)]
           /\ h.clus \in Clusters /\ job.op \in {"read", "far", "seek"}
           /\ h'.size = h.size
           /\ ioerr' = TRUE \/ (ioerr' = ioerr /\ ~ Lost')
           /\ Content' = Content /\ UNCHANGED res
<1>0. PICK n \in 1 .. job.left : \E next :
        /\ h.pos + n <= h.size /\ h.off + n <= ClusterUnits /\ h.clus \in Clusters
        /\ job.op \in {"read", "far", "seek"} /\ Took(n)
        /\ h'.pos = h.pos + n /\ h'.size = h.size /\ h'.first = h.first
        /\ h'.clus = IF h.off + n = ClusterUnits THEN next ELSE h.clus
        /\ ioerr' = TRUE \/ (ioerr' = ioerr /\ next = fat[h.clus])
        /\ UNCHANGED <<disk, fat, res>>
  <2>1. /\ h \in Handles
        /\ ClusterUnits \in Nat
    BY ClustersAreNumbers DEF CInv, Types
  <2>2. CASE ReadStep
    <3>1. /\ ReadSize \in 1 .. job.left /\ h.pos + ReadSize <= h.size
          /\ h.off + ReadSize <= ClusterUnits /\ Took(ReadSize)
          /\ job.op \in {"read", "seek"} /\ h.clus \in Clusters
          /\ UNCHANGED <<disk, fat, res>>
      BY <2>2, ReadSizeFits DEF ReadStep, Reading, MayRead
    <3>2. PICK next : /\ h' = Advanced(ReadSize, next)
                      /\ ioerr' = TRUE \/ (ioerr' = ioerr /\ next = fat[h.clus])
      BY <2>2 DEF ReadStep
    <3> DEFINE n == ReadSize
    <3>3. n \in 1 .. job.left /\ h.off + n <= ClusterUnits /\ Took(n)
          /\ h.pos + n <= h.size
      BY <3>1
    <3>4. h' = Advanced(n, next) /\ n \in Int
      BY <3>1, <3>2
    <3> HIDE DEF n
    <3>5. /\ h'.pos = h.pos + n /\ h'.size = h.size /\ h'.first = h.first
          /\ h'.clus = IF h.off + n >= ClusterUnits THEN next ELSE h.clus
      BY <2>1, <3>4 DEF Advanced
    <3>6. h.off + n >= ClusterUnits <=> h.off + n = ClusterUnits
      BY <2>1, <3>3, <3>4
    <3> QED BY <3>1, <3>2, <3>3, <3>5, <3>6
  <2>3. CASE FarStep
    <3>1. /\ job.left >= ClusterUnits /\ h.pos + ClusterUnits <= h.size /\ h.off = 0
          /\ job.op = "far" /\ h.clus \in Clusters /\ Took(ClusterUnits)
          /\ UNCHANGED <<disk, fat, res>>
      BY <2>3 DEF FarStep, MayReadFar
    <3>2. PICK next : /\ h' = [h EXCEPT !.pos = @ + ClusterUnits, !.clus = next]
                      /\ ioerr' = TRUE \/ (ioerr' = ioerr /\ next = fat[h.clus])
      BY <2>3 DEF FarStep
    <3>3. /\ h'.pos = h.pos + ClusterUnits /\ h'.size = h.size /\ h'.first = h.first
          /\ h'.clus = next
      BY <2>1, <3>2
    <3>4. ClusterUnits \in 1 .. job.left /\ h.off + ClusterUnits = ClusterUnits
      BY <3>1, ClustersAreNumbers DEF CInv, Types
    <3> QED BY <3>1, <3>2, <3>3, <3>4, <2>1
  <2> QED BY <2>2, <2>3
<1>1. PICK next :
        /\ h.pos + n <= h.size /\ h.off + n <= ClusterUnits /\ h.clus \in Clusters
        /\ job.op \in {"read", "far", "seek"} /\ Took(n)
        /\ h'.pos = h.pos + n /\ h'.size = h.size /\ h'.first = h.first
        /\ h'.clus = IF h.off + n = ClusterUnits THEN next ELSE h.clus
        /\ ioerr' = TRUE \/ (ioerr' = ioerr /\ next = fat[h.clus])
        /\ UNCHANGED <<disk, fat, res>>
  BY <1>0
<1>2. Content' = Content
  BY <1>1, ContentStays
<1>3. n \in Nat /\ n >= 1 /\ h.pos \in Nat /\ h.off \in Nat /\ ClusterUnits \in Nat
  BY ClustersAreNumbers DEF CInv, Types
<1>4. h.off < ClusterUnits
  BY <1>1, <1>3
<1>5. PICK k \in Nat : Inside(k)
  BY <1>1, <1>4, MustBeInside
<1>6. Fetched(n) = SubSeq(Content, h.pos + 1, h.pos + n)
  BY <1>1, <1>3, <1>5, FetchedIsPart
<1>7. job' = [job EXCEPT !.left = @ - n,
                !.got = IF job.op = "seek" THEN <<>>
                        ELSE @ \o SubSeq(Content, h.pos + 1, h.pos + n)]
  BY <1>1, <1>6 DEF Took
<1>8. ASSUME next = fat[h.clus]
      PROVE  ~ Lost'
  <2>1. SUFFICES ASSUME h'.clus = Eoc, h'.pos < h.size
                 PROVE  FALSE
    BY <1>1 DEF Lost
  <2>2. h.off + n = ClusterUnits /\ fat[h.clus] = Eoc
    BY <1>1, <1>8, <2>1, ClustersAreNumbers
  <2>3. h.clus = Chain[k + 1] /\ k + 1 \in DOMAIN Chain /\ h.pos = k * ClusterUnits + h.off
    BY <1>5 DEF Inside, CInv, ChainOK
  <2>4. k + 1 = Len(Chain)
    <3>1. SUFFICES ASSUME k + 1 # Len(Chain) PROVE FALSE
      OBVIOUS
    <3>2. k + 2 \in DOMAIN Chain /\ Chain[k + 2] = Eoc /\ Chain \in Seq(Clusters)
      BY <2>2, <2>3, <3>1 DEF CInv, ChainOK, IsChain
    <3> QED BY <3>2, ClustersAreNumbers
  <2> DEFINE at == k * ClusterUnits
  <2>5. at \in Nat /\ (k + 1) * ClusterUnits = at + ClusterUnits
    BY ClustersAreNumbers, OneMore
  <2>6. h.size <= at + ClusterUnits /\ h.pos = at + h.off /\ h.size \in Nat
    BY <2>3, <2>4, <2>5 DEF CInv, SizeOK, Types
  <2> HIDE DEF at
  <2> QED BY <1>1, <1>3, <2>1, <2>2, <2>5, <2>6
<1> QED
  BY <1>1, <1>2, <1>7, <1>8

-----------------------------------------------------------------------------
(* What a read has moved. *)

\* The strengthening of ReadsAreRight that is inductive
Sent ==
  job.op \in {"read", "far"} =>
    /\ Len(job.got) <= h.pos
    /\ job.got = SubSeq(Content, h.pos - Len(job.got) + 1, h.pos)

\* What has been moved is what lies before the position: every turn adds the bytes that
\* come next, and nothing changes the file while it is read.
LEMMA SentStays ==
  CInv /\ WriterStays /\ Sent /\ [Next]_vars => Sent'
<1> SUFFICES ASSUME CInv, WriterStays, Sent, [Next]_vars
             PROVE  Sent'
  OBVIOUS
<1>1. CASE ReadStep \/ FarStep
  <2>1. PICK n \in 1 .. job.left :
          /\ h.pos + n <= h.size /\ h'.pos = h.pos + n
          /\ job' = [job EXCEPT !.left = @ - n,
                       !.got = IF job.op = "seek" THEN <<>>
                               ELSE @ \o SubSeq(Content, h.pos + 1, h.pos + n)]
          /\ job.op \in {"read", "far", "seek"} /\ Content' = Content
    BY <1>1, TakesContent
  <2>2. /\ job \in Jobs
        /\ h.pos \in Nat
    BY DEF CInv, Types
  <2>3. job'.op = job.op
        /\ (job.op # "seek" => job'.got = job.got \o SubSeq(Content, h.pos + 1, h.pos + n))
    BY <2>1, <2>2
  <2>4. CASE job.op = "seek"
    BY <2>3, <2>4 DEF Sent
  <2>5. CASE job.op \in {"read", "far"}
    <3> DEFINE c == Content
               l == Len(job.got)
               p == h.pos
    <3>1. /\ c \in Seq(Values) /\ l \in Nat /\ p \in Nat /\ n \in Nat /\ l <= p
          /\ p + n <= Len(c)
      BY <2>1, <2>2, <2>5, ContentIsBytes DEF CInv, Sent
    <3>2. job.got = SubSeq(c, p - l + 1, p)
      BY <2>5 DEF Sent
    <3>3. job'.got = SubSeq(c, p - l + 1, p) \o SubSeq(c, p + 1, p + n)
      <4>1. job'.got = job.got \o SubSeq(c, p + 1, p + n)
        BY <2>3, <2>5
      <4> HIDE DEF l
      <4> QED BY <4>1, <3>2
    <3>4. Content' = c /\ h'.pos = p + n
      BY <2>1
    <3> HIDE DEF c, l, p
    <3> DEFINE g == SubSeq(c, p - l + 1, p) \o SubSeq(c, p + 1, p + n)
    <3>5. Len(g) = l + n /\ g = SubSeq(c, (p + n) - Len(g) + 1, p + n)
      BY <3>1, PartsJoin
    <3>6. job'.got = g
      BY <3>3
    <3> HIDE DEF g
    <3>7. Len(job'.got) <= p + n /\ job'.got = SubSeq(c, (p + n) - Len(job'.got) + 1, p + n)
      <4>1. Len(job'.got) = l + n /\ l + n <= p + n
        BY <3>1, <3>5, <3>6
      <4> QED BY <3>5, <3>6, <4>1
    <3> QED BY <3>4, <3>7 DEF Sent
  <2> QED BY <2>1, <2>4, <2>5
<1>2. ASSUME NEW n, NEW op, NEW v, Start(op, n, v)
      PROVE  Sent'
  <2>1. job' = [op |-> op, left |-> n, v |-> v, got |-> <<>>, want |-> n] /\ h' = h
    BY <1>2 DEF Start
  <2>2. job'.got = <<>> /\ h'.pos \in Nat
    BY <2>1 DEF CInv, Types
  <2> DEFINE q == h'.pos
             c == Content'
  <2>3. q \in Int /\ q + 1 \in Int /\ q < q + 1
    BY <2>2
  <2> HIDE DEF q, c
  <2>4. SubSeq(c, q + 1, q) = <<>>
    BY <2>3, SubSeqEmpty
  <2>5. Len(<<>>) = 0 /\ q - 0 + 1 = q + 1 /\ 0 <= q
    BY <2>2, <2>3 DEF q
  <2> QED BY <2>2, <2>4, <2>5 DEF Sent, q, c
<1>3. ASSUME NEW target, Seek(target)
      PROVE  Sent'
  <2>1. job'.op = "seek"
    BY <1>3 DEF Seek, NoJob
  <2> QED BY <2>1 DEF Sent
<1>4. ASSUME NEW io, Finish(io)
      PROVE  Sent'
  <2>1. job'.op = "none"
    BY <1>4 DEF Finish, NoJob
  <2> QED BY <2>1 DEF Sent
<1>5. CASE FollowChain \/ Grow
  BY <1>5 DEF FollowChain, Grow, Claims, Writing, Sent
<1>6. CASE WriteStep
  <2>1. job'.op = "write"
    BY <1>6 DEF WriteStep, Writing, CInv, Types
  <2> QED BY <2>1 DEF Sent
<1>7. CASE UNCHANGED vars
  BY <1>7, ContentStays DEF vars, Sent
<1>8. CASE ReadEnds \/ FarEnds \/ VolumeFull \/ WriteEnds \/ DataFails
  BY <1>4, <1>8 DEF ReadEnds, FarEnds, VolumeFull, WriteEnds, DataFails
<1>9. CASE GrowFails
  <2>1. PICK unread \in BOOLEAN : Finish(ioerr \/ unread)
    BY <1>9 DEF GrowFails
  <2> DEFINE either == ioerr \/ unread
  <2>2. Finish(either)
    BY <2>1
  <2> HIDE DEF either
  <2> QED BY <1>4, <2>2
<1> QED
  BY <1>1, <1>2, <1>3, <1>5, <1>6, <1>7, <1>8, <1>9 DEF Next

\* What a read has moved is what the file holds there, whichever device accesses have
\* failed before: fat32_read() and fat32_read_far() never deliver another file's bytes or
\* their own in another order.
THEOREM ReadsGiveTheContent ==
  ASSUME WriterStays
  PROVE  Spec => []ReadsAreRight
<1>1. Init => Sent
  BY DEF Init, NoJob, Sent
<1>2. CInv /\ WriterStays /\ Sent /\ [Next]_vars => Sent'
  BY SentStays
<1>3. Spec => []CInv
  BY CursorIsKept
<1>4. Sent => ReadsAreRight
  BY DEF Sent, ReadsAreRight
<1> QED
  BY <1>1, <1>2, <1>3, <1>4, PTL DEF Spec

-----------------------------------------------------------------------------
(* The refinement: fat32_read(), fat32_read_far(), fat32_write() and         *)
(* kfs_seek() implement the sequence of bytes with a position that their     *)
(* callers rely on (ByteFile).  A turn of a loop is one step there, taking   *)
(* or putting some bytes; getting a cluster is none.  The heart of it is     *)
(* that a write changes no byte but those it was given (WriteMaps), for      *)
(* which no two bytes of a file may share a place on the card (UnitsApart    *)
(* and the chain that names no cluster twice).                               *)


\* Whether a device failure has cost the place, and whether a call has said so
Told == IF ~ Lost THEN "no" ELSE IF ioerr /\ ~ Idle THEN "new" ELSE "told"

\* Only reading loses the place, and nothing else keeps the cursor off the clusters in
\* front of the end of the file.
LEMMA LostAreReaders ==
  ASSUME CInv
  PROVE  /\ Lost => ~ h.writable
         /\ h.pos < h.size /\ h.clus \notin Clusters => Lost
<1>1. \A k \in Nat : Inside(k) \/ AtEndOf(k) => h.clus \in Clusters
  BY DEF CInv, ChainOK, Inside, AtEndOf
<1>2. Fresh => ~ (h.pos < h.size) /\ h.clus # Eoc
  <2>1. SUFFICES ASSUME Fresh PROVE ~ (h.pos < h.size) /\ h.clus # Eoc
    OBVIOUS
  <2>2. Len(Chain) * ClusterUnits = 0
    BY <2>1, ClustersAreNumbers DEF Fresh
  <2> QED BY <2>1, <2>2, ClustersAreNumbers DEF Fresh, CInv, SizeOK, Types
<1>3. Past => ~ (h.pos < h.size)
  BY DEF Past, CInv, SizeOK, Types
<1> QED
  BY <1>1, <1>2, <1>3, ClustersAreNumbers DEF CInv, CursorAt, Lost, Astray, Past

IsFlag == ioerr \in BOOLEAN

\* io_error is a flag.
LEMMA FlagIsFlag == IsFlag /\ [Next]_vars => IsFlag'
<1> USE DEF IsFlag
<1> SUFFICES ASSUME IsFlag, [Next]_vars PROVE ioerr' \in BOOLEAN
  OBVIOUS
<1>1. CASE UNCHANGED vars
  BY <1>1 DEF vars
<1>2. ASSUME NEW n, NEW op, NEW v, Start(op, n, v) PROVE ioerr' \in BOOLEAN
  BY <1>2 DEF Start
<1>3. ASSUME NEW target, Seek(target) PROVE ioerr' \in BOOLEAN
  BY <1>3 DEF Seek
<1>4. CASE ReadStep \/ FarStep
  BY <1>4 DEF ReadStep, FarStep
<1>5. CASE FollowChain \/ Grow \/ WriteStep
  BY <1>5 DEF FollowChain, Grow, WriteStep
<1>6. CASE ReadEnds \/ FarEnds \/ VolumeFull \/ WriteEnds \/ DataFails
  BY <1>6 DEF ReadEnds, FarEnds, VolumeFull, WriteEnds, DataFails, Finish
<1>7. CASE GrowFails
  <2>1. PICK unread \in BOOLEAN : Finish(ioerr \/ unread)
    BY <1>7 DEF GrowFails
  <2> QED BY <2>1 DEF Finish
<1> QED
  BY <1>1, <1>2, <1>3, <1>4, <1>5, <1>6, <1>7 DEF Next

-----------------------------------------------------------------------------
(* What each action is to the caller. *)

\* A call that ends where the promise lets one end
LEMMA EndMaps ==
  ASSUME CInv, NEW io \in BOOLEAN, ~ Idle, Finish(io), UNCHANGED h, Content' = Content,
         Lost /\ ioerr => io,
         \/ io
         \/ Lost /\ job.op # "write"
         \/ job.left = 0
         \/ job.op = "write"
         \/ job.op = "far" /\ (job.left < ClusterUnits \/ h.pos + ClusterUnits > h.size)
         \/ job.op = "far" /\ h.pos % ClusterUnits # 0
         \/ job.op = "read" /\ h.pos >= h.size
  PROVE  Bytes!Next
<1>1. Len(Content) = h.size
  BY ContentIsBytes DEF CInv
<1>2. Lost' = Lost
  BY DEF Lost
<1>3. Idle'
  BY DEF Finish, NoJob, Idle
<1>4. /\ Told = "new" => io
      /\ Lost => io \/ Told = "told"
      /\ Told' = IF Told = "new" THEN "told" ELSE Told
  BY <1>2, <1>3 DEF Told
<1>5. /\ res' = [op |-> job.op, want |-> job.want, count |-> job.want - job.left, io |-> io]
      /\ job' = NoJob
  BY DEF Finish
<1>6. Bytes!Finish(io)
  <2>1. ~ Bytes!Idle /\ job' = Bytes!NoJob
    BY <1>5 DEF Idle, Bytes!Idle, NoJob, Bytes!NoJob
  <2>2. \/ io
        \/ Told = "told" /\ job.op # "write"
        \/ job.left = 0
        \/ job.op = "write"
        \/ job.op = "far" /\ (job.left < ClusterUnits \/ h.pos + ClusterUnits > Len(Content))
        \/ job.op = "far" /\ h.pos % ClusterUnits # 0
        \/ job.op = "read" /\ h.pos >= Len(Content)
    BY <1>1, <1>4
  <2> QED
    BY <1>4, <1>5, <2>1, <2>2 DEF Bytes!Finish, Told, Bytes!Eof
<1> QED
  BY <1>6 DEF Bytes!Next

\* A call that starts
LEMMA StartMaps ==
  ASSUME CInv, NEW op, NEW n, NEW v, Start(op, n, v), op # "none"
  PROVE  Bytes!Start(op, n, v)
<1>1. /\ Idle /\ res' = NoResult /\ ioerr' = FALSE /\ UNCHANGED <<disk, fat, h>>
      /\ job' = [op |-> op, left |-> n, v |-> v, got |-> <<>>, want |-> n]
  BY DEF Start
<1>2. Content' = Content
  BY <1>1, ContentStays
<1>3. Lost' = Lost
  BY <1>1 DEF Lost
<1>4. Told' = Told
  BY <1>1, <1>3 DEF Told
<1> QED
  BY <1>1, <1>2, <1>4
  DEF Bytes!Start, Bytes!Idle, Idle, Told, Bytes!NoResult, NoResult

\* kfs_seek() before it reads: back to the beginning, or where it is. A lost file is
\* found again by the first.
LEMMA SeekMaps ==
  ASSUME CInv, NEW target \in 0 .. h.size, Seek(target)
  PROVE  Bytes!StartSeek(target)
<1>1. /\ Idle /\ res' = NoResult /\ UNCHANGED <<disk, fat, ioerr>>
      /\ h' = IF target < h.pos THEN [h EXCEPT !.pos = 0, !.clus = h.first, !.off = 0] ELSE h
      /\ job' = [NoJob EXCEPT !.op = "seek", !.left = target - h'.pos,
                              !.want = target - h'.pos]
  BY DEF Seek
<1>2. /\ h \in Handles
      /\ target \in Nat /\ target <= h.size
  BY DEF CInv, Types
<1>3. /\ h'.first = h.first /\ h'.size = h.size
      /\ h'.pos = IF target < h.pos THEN 0 ELSE h.pos
      /\ h'.clus = IF target < h.pos THEN h.first ELSE h.clus
  BY <1>1, <1>2
<1>4. Content' = Content /\ Len(Content) = h.size
  BY <1>1, <1>3, ContentStays, ContentIsBytes DEF CInv
<1>5. ~ Idle'
  BY <1>1 DEF Idle, NoJob
<1>6. IF target < h.pos \/ Told = "no" THEN Told' = "no" ELSE Told' \in {Told, "new"}
  <2>1. CASE target < h.pos
    <3>1. h'.clus # Eoc
      BY <1>2, <1>3, <2>1, ClustersAreNumbers
    <3> QED BY <2>1, <3>1 DEF Told, Lost
  <2>2. CASE ~ (target < h.pos)
    <3>1. Lost' = Lost
      BY <1>3, <2>2 DEF Lost
    <3>2. Told \in {"no", "told"} /\ (Told = "no" <=> ~ Lost)
      BY <1>1 DEF Told
    <3> QED BY <2>2, <3>1, <3>2 DEF Told
  <2> QED BY <2>1, <2>2
<1>7. target <= Len(Content)
  BY <1>2, <1>4
<1> QED
  BY <1>1, <1>3, <1>4, <1>6, <1>7
  DEF Bytes!StartSeek, Bytes!Idle, Idle, Told, Bytes!NoResult, NoResult, Bytes!NoJob, NoJob

\* A turn of a reading loop takes bytes; a chain that cannot be read costs the place.
LEMMA TakeMaps ==
  ASSUME CInv, WriterStays, ReadStep \/ FarStep
  PROVE  Bytes!Next
<1>1. PICK n \in 1 .. job.left :
        /\ h.pos + n <= h.size /\ h'.pos = h.pos + n
        /\ job' = [job EXCEPT !.left = @ - n,
                     !.got = IF job.op = "seek" THEN <<>>
                             ELSE @ \o SubSeq(Content, h.pos + 1, h.pos + n)]
        /\ h.clus \in Clusters /\ job.op \in {"read", "far", "seek"}
        /\ h'.size = h.size
        /\ ioerr' = TRUE \/ (ioerr' = ioerr /\ ~ Lost')
        /\ Content' = Content /\ UNCHANGED res
  BY TakesContent
<1>2. Len(Content) = h.size
  BY ContentIsBytes DEF CInv
<1>3. Told = "no"
  BY <1>1, ClustersAreNumbers DEF Told, Lost
<1>4. job'.op = job.op
  BY <1>1 DEF CInv, Types
<1>5. ~ Idle'
  BY <1>1, <1>4 DEF Idle
<1>6. Told' \in {"no", "new"}
  <2>1. CASE ioerr' = TRUE
    BY <1>5, <2>1 DEF Told
  <2>2. CASE ~ Lost'
    BY <2>2 DEF Told
  <2> QED BY <1>1, <2>1, <2>2
<1>7. n <= job.left /\ h.pos + n <= Len(Content)
  BY <1>1, <1>2 DEF CInv, Types
<1>8. Bytes!Take(n)
  BY <1>1, <1>3, <1>6, <1>7 DEF Bytes!Take, Told
<1> QED
  BY <1>8 DEF Bytes!Next

-----------------------------------------------------------------------------
(* No two bytes of a file share a place. *)

\* A unit of the data region is in one cluster, at one offset.
LEMMA UnitsApart ==
  ASSUME NEW c \in Clusters, NEW d \in Clusters,
         NEW o \in 0 .. ClusterUnits - 1, NEW p \in 0 .. ClusterUnits - 1,
         UnitOf(c, o) = UnitOf(d, p)
  PROVE  c = d /\ o = p
<1> DEFINE j == c - 2
           k == d - 2
<1>1. j \in Nat /\ k \in Nat /\ (j = k => c = d)
  BY ClustersAreNumbers
<1>2. j * ClusterUnits + o = k * ClusterUnits + p
  BY DEF UnitOf
<1> HIDE DEF j, k
<1>3. /\ (j * ClusterUnits + o) \div ClusterUnits = j
      /\ (j * ClusterUnits + o) % ClusterUnits = o
  BY <1>1, ClustersAreNumbers, CutIsUnique
<1>4. /\ (k * ClusterUnits + p) \div ClusterUnits = k
      /\ (k * ClusterUnits + p) % ClusterUnits = p
  BY <1>1, ClustersAreNumbers, CutIsUnique
<1> QED
  BY <1>1, <1>2, <1>3, <1>4

\* The byte a unit of another cluster holds is not touched when one is zeroed.
LEMMA ZeroedApart ==
  ASSUME NEW c \in Clusters, NEW new \in Clusters, c # new, NEW r \in 0 .. ClusterUnits - 1,
         NEW n \in Nat, n <= ClusterUnits, UnitOf(c, r) \in Units
  PROVE  ZeroedTo(new, n)[UnitOf(c, r)] = disk[UnitOf(c, r)]
<1>1. UnitOf(c, r) \notin UnitOf(new, 0) .. UnitOf(new, n - 1)
  <2>1. SUFFICES ASSUME UnitOf(c, r) \in UnitOf(new, 0) .. UnitOf(new, n - 1)
                 PROVE  FALSE
    OBVIOUS
  <2> DEFINE p == UnitOf(c, r) - UnitOf(new, 0)
             at == (new - 2) * ClusterUnits
             u == UnitOf(c, r)
  <2>2. at \in Int /\ UnitOf(new, 0) = at + 0
        /\ UnitOf(new, n - 1) = at + (n - 1)
        /\ \A q \in Int : UnitOf(new, q) = at + q
    BY ClustersAreNumbers DEF UnitOf
  <2>3. u \in at + 0 .. at + (n - 1) /\ p = u - (at + 0)
    BY <2>1, <2>2
  <2> HIDE DEF p, at, u
  <2>4. p \in 0 .. ClusterUnits - 1 /\ u = at + p
    BY <2>2, <2>3, ClustersAreNumbers
  <2>5. UnitOf(c, r) = UnitOf(new, p)
    BY <2>2, <2>4 DEF u
  <2> QED BY <2>4, <2>5, UnitsApart
<1> QED
  BY <1>1 DEF ZeroedTo

\* A file that keeps its clusters, or gets one more at its end, keeps its bytes whatever
\* happens to the content of a cluster that was not its own.
LEMMA BytesStay ==
  ASSUME ChainOK, SizeOK, Types, NEW new \in Clusters, NEW n \in Nat, n <= ClusterUnits,
         \A k \in DOMAIN Chain : Chain'[k] = Chain[k] /\ Chain[k] # new,
         disk' \in {disk, ZeroedTo(new, n)}, h'.size = h.size
  PROVE  Content' = Content
<1>1. ASSUME NEW i \in 1 .. h.size
      PROVE  disk'[UnitOf(Chain'[(i - 1) \div ClusterUnits + 1], (i - 1) % ClusterUnits)]
             = disk[UnitOf(Chain[(i - 1) \div ClusterUnits + 1], (i - 1) % ClusterUnits)]
  <2> DEFINE m == (i - 1) \div ClusterUnits + 1
             r == (i - 1) % ClusterUnits
  <2>1. i - 1 \in 0 .. h.size - 1
    BY DEF Types
  <2>2. /\ m \in DOMAIN Chain /\ Chain[m] \in Clusters /\ r \in 0 .. ClusterUnits - 1
        /\ UnitOf(Chain[m], r) \in Units
    BY <2>1, PlaceIsOnCard DEF Place
  <2> HIDE DEF m, r
  <2>3. Chain'[m] = Chain[m] /\ Chain[m] # new
    BY <2>2
  <2>4. ZeroedTo(new, n)[UnitOf(Chain[m], r)] = disk[UnitOf(Chain[m], r)]
    BY <2>2, <2>3, ZeroedApart
  <2>5. disk'[UnitOf(Chain[m], r)] = disk[UnitOf(Chain[m], r)]
    BY <2>4
  <2> QED BY <2>3, <2>5 DEF m, r
<1> QED
  BY <1>1 DEF Content

\* A cluster that is added at the end, zeroed, changes no byte of the file.
LEMMA GrowMaps ==
  ASSUME CInv, WriterStays, Grow
  PROVE  UNCHANGED <<Content, h.pos, Told, job, res>>
<1>1. PICK new \in Clusters :
        /\ Chain' = Append(Chain, new) /\ \A k \in DOMAIN Chain : Chain[k] # new
        /\ disk' = Zeroed(new)
        /\ h'.writable = h.writable /\ h'.size = h.size /\ h'.pos = h.pos
        /\ h'.clus = new /\ h'.off = 0
        /\ h.pos = Len(Chain) * ClusterUnits /\ h.writable /\ job.op = "write"
        /\ UNCHANGED <<job, res, stray>>
  BY GrowsByOne
<1>2. Chain \in Seq(Clusters) /\ Types /\ ChainOK /\ SizeOK
  BY DEF CInv, ChainOK
<1>3. \A k \in DOMAIN Chain : Chain'[k] = Chain[k] /\ Chain[k] # new
  BY <1>1, <1>2
<1>4. Content' = Content
  <2>1. ClusterUnits \in Nat /\ ClusterUnits <= ClusterUnits
    BY ClustersAreNumbers
  <2> QED BY <1>1, <1>2, <1>3, <2>1, BytesStay DEF Zeroed
<1>5. ~ Lost /\ ~ Lost'
  BY <1>1, LostAreReaders, ClustersAreNumbers DEF Lost
<1> QED
  BY <1>1, <1>4, <1>5 DEF Told

\* Nor does going on in the next cluster.
LEMMA FollowMaps ==
  ASSUME CInv, FollowChain
  PROVE  UNCHANGED <<Content, h.pos, Told, job, res>>
<1>1. Writing /\ h.clus >= 2 /\ fat[h.clus] < Eoc /\ h' = Into(fat[h.clus])
      /\ UNCHANGED <<disk, fat, job, res>>
  BY DEF FollowChain
<1>2. h \in Handles
  BY DEF CInv, Types
<1>3. h'.first = h.first /\ h'.size = h.size /\ h'.pos = h.pos /\ h'.clus = fat[h.clus]
  <2> DEFINE c == fat[h.clus]
             f == IF h.clus < 2 THEN c ELSE h.first
  <2>1. h' = [h EXCEPT !.clus = c, !.off = 0, !.first = f]
    BY <1>1, <1>2 DEF Into
  <2>2. f = h.first
    BY <1>1, <1>2, ClustersAreNumbers DEF Marks, Free
  <2> HIDE DEF c, f
  <2>3. h'.first = f /\ h'.size = h.size /\ h'.pos = h.pos /\ h'.clus = c
    BY <1>2, <2>1
  <2> QED BY <2>2, <2>3 DEF c
<1>4. Content' = Content
  BY <1>1, <1>3, ContentStays
<1>5. ~ Lost /\ ~ Lost'
  BY <1>1, <1>3, LostAreReaders, ClustersAreNumbers DEF Lost, CInv, JobOK, Writing
<1> QED
  BY <1>1, <1>3, <1>4, <1>5 DEF Told

\* A piece that is written is the next bytes of the file and no others.
LEMMA WriteMaps ==
  ASSUME CInv, WriteStep
  PROVE  Bytes!Next
<1> DEFINE n == Least(SectorUnits - (h.off % SectorUnits), job.left)
           here == UnitOf(h.clus, h.off)
<1>1. /\ Writing /\ ~ NeedsCluster
      /\ disk' = [u \in Units |-> IF u \in here .. (here + n - 1) THEN job.v ELSE disk[u]]
      /\ h' = [h EXCEPT !.off = @ + n, !.pos = @ + n, !.size = SizeAfter(n)]
      /\ job' = [job EXCEPT !.left = @ - n]
      /\ UNCHANGED <<fat, res, ioerr>>
  BY DEF WriteStep
<1>2. /\ n \in Nat /\ n >= 1 /\ n <= job.left /\ h.off + n <= ClusterUnits
      /\ h.off < ClusterUnits /\ \E k \in Nat : Inside(k)
  BY <1>1, PieceWritten
<1> HIDE DEF n
<1>3. PICK k \in Nat : Inside(k)
  BY <1>2
<1>4. /\ h \in Handles
      /\ job \in Jobs
      /\ h.pos \in Nat /\ h.off \in Nat /\ h.size \in Nat /\ job.left \in Nat
      /\ h.pos <= h.size /\ ClusterUnits \in Nat
      /\ Types /\ ChainOK /\ SizeOK /\ Distinct(Chain)
  BY ClustersAreNumbers DEF CInv, Types, SizeOK, ChainOK
<1>5. /\ h'.pos = h.pos + n /\ h'.size = SizeAfter(n)
      /\ h'.first = h.first /\ h'.clus = h.clus /\ h'.writable = h.writable
  <2> DEFINE o == h.off + n
             p == h.pos + n
             z == SizeAfter(n)
  <2>1. h' = [h EXCEPT !.off = o, !.pos = p, !.size = z]
    BY <1>1, <1>4
  <2> HIDE DEF o, p, z
  <2>2. /\ h'.pos = p /\ h'.size = z
        /\ h'.first = h.first /\ h'.clus = h.clus /\ h'.writable = h.writable
    BY <1>4, <2>1
  <2> QED BY <2>2 DEF p, z
<1>6. Chain' = Chain
  BY <1>1, <1>5 DEF Chain
<1>7. \A i \in Nat : i < n => /\ Place(h.pos + i) = here + i
                              /\ Place(h.pos + i) \in Units
                              /\ (h.pos + i) \div ClusterUnits = k
                              /\ (h.pos + i) % ClusterUnits = h.off + i
  <2>1. TAKE i \in Nat
  <2>2. SUFFICES ASSUME i < n
                 PROVE  /\ Place(h.pos + i) = here + i
                        /\ Place(h.pos + i) \in Units
                        /\ (h.pos + i) \div ClusterUnits = k
                        /\ (h.pos + i) % ClusterUnits = h.off + i
    OBVIOUS
  <2>3. h.off + i < ClusterUnits
    BY <1>2, <1>4, <2>2
  <2> QED BY <1>3, <2>3, PlaceOfCursor
<1>8. here \in Int
  <2>1. h.clus \in Clusters
    BY <1>3, <1>2, PieceWritten, <1>1
  <2>2. (h.clus - 2) * ClusterUnits \in Int
    BY <2>1, ClustersAreNumbers
  <2> QED BY <1>4, <2>2 DEF UnitOf
<1> DEFINE New(i) == disk'[Place(i)]
<1>9. ASSUME NEW i \in Nat, i < n
      PROVE  disk'[Place(h.pos + i)] = job.v
  <2>1. Place(h.pos + i) = here + i /\ Place(h.pos + i) \in Units
    BY <1>7, <1>9
  <2> HIDE DEF here
  <2>2. here + i \in here .. (here + n - 1)
    BY <1>2, <1>8, <1>9
  <2> QED BY <1>1, <2>1, <2>2
<1>10. ASSUME NEW i \in 0 .. h.size - 1, i < h.pos \/ i >= h.pos + n
       PROVE  disk'[Place(i)] = disk[Place(i)]
  <2> DEFINE m == i \div ClusterUnits
             r == i % ClusterUnits
  <2>1. /\ m + 1 \in DOMAIN Chain /\ Chain[m + 1] \in Clusters /\ r \in 0 .. ClusterUnits - 1
        /\ Place(i) = UnitOf(Chain[m + 1], r) /\ Place(i) \in Units
    BY <1>4, PlaceIsOnCard DEF Place
  <2>2. m \in Nat /\ i = m * ClusterUnits + r
    <3>1. i \in Nat
      BY <1>4
    <3> QED BY <3>1, ClustersAreNumbers, CutExists
  <2> HIDE DEF m, r
  <2>3. Place(i) \notin here .. (here + n - 1)
    <3>1. SUFFICES ASSUME Place(i) \in here .. (here + n - 1)
                   PROVE  FALSE
      OBVIOUS
    <3> DEFINE j == Place(i) - here
    <3>2. j \in Nat /\ j < n /\ Place(i) = here + j
      <4> HIDE DEF here
      <4> QED BY <1>2, <1>8, <3>1
    <3> HIDE DEF j
    <3>3. h.clus = Chain[k + 1] /\ k + 1 \in DOMAIN Chain /\ h.clus \in Clusters
          /\ h.pos = k * ClusterUnits + h.off
      BY <1>3 DEF Inside, CInv, ChainOK
    <3>4. UnitOf(h.clus, h.off + j) = here + j
      <4> DEFINE at == (h.clus - 2) * ClusterUnits
      <4>1. at \in Int
        BY <3>3, ClustersAreNumbers
      <4>2. UnitOf(h.clus, h.off + j) = at + (h.off + j) /\ here = at + h.off
        BY DEF UnitOf
      <4> HIDE DEF at, here
      <4> QED BY <1>4, <3>2, <4>1, <4>2
    <3>5. h.off + j \in 0 .. ClusterUnits - 1
      BY SMTT(30), <1>2, <1>4, <3>2
    <3> DEFINE o == h.off + j
    <3>6. Chain[m + 1] = h.clus /\ r = o
      <4>1. UnitOf(Chain[m + 1], r) = UnitOf(h.clus, o) /\ o \in 0 .. ClusterUnits - 1
        BY <2>1, <3>2, <3>4, <3>5
      <4> HIDE DEF o, here
      <4> QED BY <2>1, <3>3, <4>1, UnitsApart
    <3>7. m = k
      BY SMTT(30), <1>4, <2>1, <2>2, <3>3, <3>6 DEF Distinct
    <3>8. i = h.pos + j
      <4> DEFINE at == k * ClusterUnits
      <4>1. at \in Nat /\ i = at + (h.off + j) /\ h.pos = at + h.off
        BY <2>2, <3>3, <3>6, <3>7, ClustersAreNumbers
      <4> HIDE DEF at
      <4> QED BY <1>4, <3>2, <4>1
    <3> QED BY <1>2, <1>4, <1>10, <3>2, <3>8
  <2> HIDE DEF here
  <2> QED BY <1>1, <2>1, <2>3
<1>11. Len(Content) = h.size /\ \A i \in 0 .. h.size - 1 : Content[i + 1] = disk[Place(i)]
  BY <1>4, ContentIsBytes
<1>12. SizeAfter(n) = IF h.pos + n > Len(Content) THEN h.pos + n ELSE Len(Content)
  <2>1. \A x, y \in Nat : Greatest(x, y) = IF y > x THEN y ELSE x
    BY DEF Greatest
  <2>2. h.pos + n \in Nat
    BY <1>2, <1>4
  <2> QED BY <1>4, <1>11, <2>1, <2>2 DEF SizeAfter
<1>13. Content' = [i \in 1 .. SizeAfter(n) |-> disk'[Place(i - 1)]]
  <2>1. Content' = [i \in 1 .. h'.size |->
           disk'[UnitOf(Chain'[(i - 1) \div ClusterUnits + 1], (i - 1) % ClusterUnits)]]
    BY DEF Content
  <2> QED BY <1>5, <1>6, <2>1 DEF Place
<1>14. ASSUME NEW i \in 1 .. SizeAfter(n)
       PROVE  disk'[Place(i - 1)]
                = IF i \in (h.pos + 1) .. (h.pos + n) THEN job.v ELSE Content[i]
  <2>0. i \in Nat /\ i >= 1 /\ SizeAfter(n) \in Nat /\ i <= SizeAfter(n)
    BY SMTT(30), <1>2, <1>4 DEF SizeAfter, Greatest
  <2>1. CASE i \in (h.pos + 1) .. (h.pos + n)
    <3> DEFINE j == i - 1 - h.pos
    <3>1. j \in Nat /\ j < n /\ h.pos + j = i - 1
      BY SMTT(30), <1>2, <1>4, <2>1
    <3> HIDE DEF j
    <3> QED BY <1>9, <2>1, <3>1
  <2>2. CASE i \notin (h.pos + 1) .. (h.pos + n)
    <3> DEFINE j == i - 1
    <3>1. j \in 0 .. h.size - 1 /\ (j < h.pos \/ j >= h.pos + n) /\ j + 1 = i
      BY SMTT(30), <1>2, <1>4, <2>0, <2>2 DEF SizeAfter, Greatest
    <3>2. disk'[Place(j)] = disk[Place(j)] /\ Content[j + 1] = disk[Place(j)]
      <4> HIDE DEF j
      <4> QED BY <1>10, <1>11, <3>1
    <3> QED BY <2>2, <3>1, <3>2
  <2> QED BY <2>1, <2>2
<1>15. Content' = [i \in 1 .. (IF h.pos + n > Len(Content) THEN h.pos + n ELSE Len(Content))
                     |-> IF i \in (h.pos + 1) .. (h.pos + n) THEN job.v ELSE Content[i]]
  BY <1>12, <1>13, <1>14
<1>16. job.op = "write" /\ job'.op = "write"
  BY <1>1, <1>4 DEF Writing
<1>17. ~ Lost /\ ~ Lost'
  <2>1. ~ Lost /\ h.clus \in Clusters
    BY <1>1, <1>16, PieceWritten, LostAreReaders DEF CInv, JobOK
  <2> QED BY <1>5, <2>1, ClustersAreNumbers DEF Lost
<1>18. Told' = Told
  BY <1>17 DEF Told
<1>19. Bytes!Put(n)
  BY <1>1, <1>2, <1>5, <1>15, <1>16, <1>18 DEF Bytes!Put, Told
<1>20. n \in 1 .. job.left
  BY <1>2, <1>4
<1> QED
  BY <1>19, <1>20 DEF Bytes!Next

-----------------------------------------------------------------------------
\* A reading call ends when it is done, at the end of the file, or where a device
\* failure left it; whole clusters also in front of what is less than one.
LEMMA ReadEndMaps ==
  ASSUME CInv, IsFlag, ReadEnds \/ FarEnds
  PROVE  Bytes!Next
<1>0. ioerr \in BOOLEAN
  BY DEF IsFlag
<1>1. Finish(ioerr) /\ UNCHANGED <<disk, fat, h>>
  BY DEF ReadEnds, FarEnds
<1>2. /\ Content' = Content /\ UNCHANGED h
      /\ h.pos \in Nat /\ h.size \in Nat /\ job.left \in Nat /\ job.op \in Calls
  BY <1>1, ContentStays DEF CInv, Types
<1>3. CASE ReadEnds
  <2>1. ~ Idle /\ job.op # "write"
    BY <1>3 DEF ReadEnds, Reading, Idle
  <2>2. \/ Lost
        \/ job.left = 0
        \/ job.op = "read" /\ h.pos >= h.size
    <3>1. CASE job.left = 0
      BY <3>1
    <3>2. CASE job.left > 0 /\ h.pos >= h.size
      <4>1. job.op # "seek"
        BY <1>2, <3>2 DEF CInv, JobOK
      <4> QED BY <1>3, <3>2, <4>1 DEF ReadEnds, Reading
    <3>3. CASE job.left > 0 /\ h.pos < h.size
      BY <1>3, <3>3, LostAreReaders DEF ReadEnds, MayRead
    <3> QED BY <1>2, <3>1, <3>2, <3>3
  <2> QED BY <1>0, <1>1, <1>2, <2>1, <2>2, EndMaps
<1>4. CASE FarEnds
  <2>1. ~ Idle /\ job.op = "far" /\ ~ MayReadFar
    BY <1>4 DEF FarEnds, Idle
  <2>2. \/ Lost
        \/ job.left < ClusterUnits \/ h.pos + ClusterUnits > h.size
        \/ h.pos % ClusterUnits # 0
    <3>1. SUFFICES ASSUME job.left >= ClusterUnits, h.pos + ClusterUnits <= h.size, ~ Lost
                   PROVE  h.pos % ClusterUnits # 0
      BY <1>2, ClustersAreNumbers
    <3>2. h.pos < h.size
      BY <1>2, <3>1, ClustersAreNumbers
    <3>3. h.clus \in Clusters
      BY <3>1, <3>2, LostAreReaders
    <3>4. PICK k \in Nat : Inside(k)
      BY <2>1, <3>3, MustBeInside DEF CInv, JobOK
    <3>5. h.off # 0
      BY <2>1, <3>1, <3>3 DEF MayReadFar
    <3>6. /\ 0 \in Nat /\ h.off + 0 < ClusterUnits /\ h.off + 0 = h.off /\ h.pos + 0 = h.pos
      BY <1>2, <3>4 DEF Inside, CInv, Types
    <3>7. (h.pos + 0) % ClusterUnits = h.off + 0
      BY <3>4, <3>6, PlaceOfCursor
    <3> QED BY <3>5, <3>6, <3>7
  <2> QED BY <1>0, <1>1, <1>2, <2>1, <2>2, EndMaps
<1> QED
  BY <1>3, <1>4

\* A write ends when all is written or there is no cluster to be had.
LEMMA WriteEndMaps ==
  ASSUME CInv, WriterStays, IsFlag, VolumeFull \/ GrowFails \/ WriteEnds
  PROVE  Bytes!Next
<1>0. ioerr \in BOOLEAN
  BY DEF IsFlag
<1>1. job.op = "write" /\ ~ Idle /\ UNCHANGED h
  BY DEF VolumeFull, GrowFails, Claims, WriteEnds, Writing, Idle
<1>2. Content' = Content
  <2>1. CASE GrowFails
    <3>1. PICK new \in Clusters, n \in Nat :
            fat[new] = Free /\ disk' \in {disk, ZeroedTo(new, n)} /\ n <= ClusterUnits
      BY <2>1, FailedGrowth
    <3>2. /\ Chain \in Seq(Clusters) /\ \A k \in DOMAIN Chain : fat[Chain[k]] # Free
          /\ Types /\ ChainOK /\ SizeOK
      BY DEF CInv, ChainOK
    <3>3. \A k \in DOMAIN Chain : Chain'[k] = Chain[k] /\ Chain[k] # new
      BY <2>1, <3>1, <3>2, ChainSurvives
    <3> QED BY <1>1, <3>1, <3>2, <3>3, BytesStay
  <2>2. CASE VolumeFull \/ WriteEnds
    BY <2>2, ContentStays DEF VolumeFull, WriteEnds
  <2> QED BY <2>1, <2>2
<1>3. \E io \in BOOLEAN : Finish(io) /\ (ioerr => io)
  <2>1. CASE GrowFails
    <3>1. PICK unread \in BOOLEAN : Finish(ioerr \/ unread)
      BY <2>1 DEF GrowFails
    <3> DEFINE either == ioerr \/ unread
    <3>2. either \in BOOLEAN /\ Finish(either) /\ (ioerr => either)
      BY <3>1
    <3> HIDE DEF either
    <3> QED BY <3>2
  <2>2. CASE VolumeFull \/ WriteEnds
    <3> DEFINE up == TRUE
    <3>1. Finish(ioerr) \/ Finish(up)
      BY <2>2 DEF VolumeFull, WriteEnds
    <3>2. up \in BOOLEAN /\ up
      OBVIOUS
    <3> HIDE DEF up
    <3> QED BY <1>0, <3>1, <3>2
  <2> QED BY <2>1, <2>2
<1>4. ~ Lost
  BY <1>1, LostAreReaders DEF CInv, JobOK
<1> QED
  BY <1>1, <1>2, <1>3, <1>4, EndMaps

\* A data sector that cannot be moved ends the call with an I/O error.
LEMMA FailureMaps ==
  ASSUME CInv, DataFails
  PROVE  Bytes!Next
<1> DEFINE up == TRUE
<1>1. ~ Idle /\ Finish(up) /\ UNCHANGED <<disk, fat, h>>
  BY DEF DataFails, Idle, Reading, Writing
<1>2. up \in BOOLEAN /\ up
  OBVIOUS
<1> HIDE DEF up
<1>3. Content' = Content
  BY <1>1, ContentStays
<1> QED
  BY <1>1, <1>2, <1>3, EndMaps

\* A handle that was just opened is a file with a content, at its beginning.
LEMMA InitMaps == Init => Bytes!Init
<1> SUFFICES ASSUME Init PROVE Bytes!Init
  OBVIOUS
<1>1. CInv
  BY OpenedRight
<1>2. Content \in Seq(Values)
  BY <1>1, ContentIsBytes DEF CInv
<1>3. h.pos = 0 /\ h.clus # Eoc /\ job = NoJob /\ res = NoResult
  <2>1. PICK s \in Files :
          IF s = <<>> THEN h = OpenedHandle(TRUE, 0, 0)
          ELSE \E tail \in 1 .. ClusterUnits :
                 h = OpenedHandle(FALSE, s[1], (Len(s) - 1) * ClusterUnits + tail)
    BY DEF Init
  <2>2. s # <<>> => s[1] \in Clusters
    BY CursorAssumption
  <2>3. h.pos = 0 /\ (h.clus = 0 \/ (s # <<>> /\ h.clus = s[1]))
    BY <2>1 DEF OpenedHandle
  <2> QED BY <2>2, <2>3, ClustersAreNumbers DEF Init
<1> QED
  BY <1>2, <1>3
  DEF Bytes!Init, Lost, Bytes!NoJob, NoJob, Bytes!NoResult, NoResult

\* Every step is one of the promised ones, or moves nothing the caller can see.
LEMMA StepMaps ==
  CInv /\ WriterStays /\ IsFlag /\ [Next]_vars => [Bytes!Next]_(Bytes!vars)
<1> SUFFICES ASSUME CInv, WriterStays, IsFlag, [Next]_vars
             PROVE  [Bytes!Next]_(Bytes!vars)
  OBVIOUS
<1>1. ASSUME NEW n \in Lengths, NEW op \in {"read", "far"}, Start(op, n, 0)
      PROVE  Bytes!Next
  BY <1>1, StartMaps DEF Bytes!Next
<1>2. ASSUME NEW n \in Lengths, NEW v \in Written, Start("write", n, v)
      PROVE  Bytes!Next
  BY <1>2, StartMaps DEF Bytes!Next
<1>3. ASSUME NEW target \in 0 .. h.size, Seek(target)
      PROVE  Bytes!Next
  <2>1. Len(Content) = h.size
    BY ContentIsBytes DEF CInv
  <2> QED BY <1>3, <2>1, SeekMaps DEF Bytes!Next
<1>4. CASE ReadStep \/ FarStep
  BY <1>4, TakeMaps
<1>5. CASE FollowChain \/ Grow
  BY <1>5, FollowMaps, GrowMaps DEF Bytes!vars, Told
<1>6. CASE WriteStep
  BY <1>6, WriteMaps
<1>7. CASE ReadEnds \/ FarEnds
  BY <1>7, ReadEndMaps
<1>8. CASE VolumeFull \/ GrowFails \/ WriteEnds
  BY <1>8, WriteEndMaps
<1>9. CASE DataFails
  BY <1>9, FailureMaps
<1>10. CASE UNCHANGED vars
  <2>1. Content' = Content
    BY <1>10, ContentStays DEF vars
  <2> QED BY <1>10, <2>1 DEF vars, Bytes!vars, Lost, Idle
<1> QED
  BY <1>1, <1>2, <1>3, <1>4, <1>5, <1>6, <1>7, <1>8, <1>9, <1>10 DEF Next

\* Through fat32.c and kfs_seek() a file is a sequence of bytes and a position, on every
\* geometry and over every chain: reads move the bytes at the position, writes put theirs
\* there and nowhere else, a seek goes where it was told, and a call that saw no failure
\* stops only where it should. Any number of device accesses may fail, of data, of the FAT
\* or of a cluster that is being added, but for those WriterStays rules out: the reads of
\* the links inside a file that is open for writing.
THEOREM HandleIsAByteFile ==
  ASSUME WriterStays
  PROVE  Spec => ImplementsByteFile
<1>1. Spec => []CInv
  BY CursorIsKept
<1>2. Init => IsFlag
  BY DEF Init, IsFlag
<1>3. IsFlag /\ [Next]_vars => IsFlag'
  BY FlagIsFlag
<1>4. Init => Bytes!Init
  BY InitMaps
<1>5. CInv /\ WriterStays /\ IsFlag /\ [Next]_vars => [Bytes!Next]_(Bytes!vars)
  BY StepMaps
<1> QED
  BY <1>1, <1>2, <1>3, <1>4, <1>5, PTL DEF Spec, ImplementsByteFile, Bytes!Spec

=============================================================================

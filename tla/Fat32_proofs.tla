----------------------------- MODULE Fat32_proofs -----------------------------
(***************************************************************************)
(* Proofs about the writing calls of fat32.c, for every size of the volume,*)
(* number of FAT copies, entries in a sector and names.                    *)
(*                                                                         *)
(* Owned says who owns which cluster: a map from places of entries (and    *)
(* the root) to chains, which the FAT spells, no cluster in it twice, with *)
(* what directories, end markers, names and the handle must be for that.   *)
(* A plan is a sequence of writes, so the invariant must say what the rest *)
(* of it will do: Runs(plan, m, r, x, call) says that there is a machine   *)
(* for each point between two writes, each one Owned, from the one there   *)
(* is to the one after the call.  While a chain is being freed, that of    *)
(* the place x, the FAT may spell a part of it only.                       *)
(***************************************************************************)
EXTENDS Fat32, Numbers, FiniteSetTheorems, TLAPS

-----------------------------------------------------------------------------
(* The inductive invariant: who owns which cluster. *)

\* A chain belongs to the place of the entry that leads to it, or to the root.
Top == <<0, 0>>
Owners == {Top} \cup Position
Nobody == <<0, 1>>

Marks == {Free, Eoc} \cup Clusters
Handles ==
  [open : BOOLEAN, dir : {"root"}, at : Position, first : {0} \cup Clusters,
   cur : {0} \cup Clusters, full : BOOLEAN, size : 0 .. MaxCluster]

\* An entry that leads nowhere has size 0.
Entries == {e \in AnEntry : e.clus = 0 => e.size = 0}

\* What a file or a directory starts with
FirstIn(c) == IF c = <<>> THEN 0 ELSE c[1]

\* p is a place in the directory whose chain is ch[d].
In(ch, d, p) == \E k \in DOMAIN ch[d] : p[1] = ch[d][k]
EntryAt(s, p) == s[p[1]][p[2]]
Used(s, p) == EntryAt(s, p).name \in Names

Dirs(s, ch) ==
  {Top} \cup {p \in Position : In(ch, Top, p) /\ Used(s, p) /\ EntryAt(s, p).isdir}

\* No cluster is twice in the chains.
Apart(ch) ==
  \A p, q \in Owners : \A i \in DOMAIN ch[p], j \in DOMAIN ch[q] :
    ch[p][i] = ch[q][j] => p = q /\ i = j

\* The FAT spells the chains; that of x is being freed.
LinkAfter(c, i) == IF i = Len(c) THEN Eoc ELSE c[i + 1]
Spelt(f, ch, x) ==
  \A p \in Owners : \A i \in DOMAIN ch[p] :
    f[ch[p][i]] = LinkAfter(ch[p], i) \/ (p = x /\ f[ch[p][i]] = Free)

\* Only what a directory lists has a chain.
Listing(s, ch) ==
  \A p \in Position : ch[p] # <<>> => \E d \in Dirs(s, ch) : In(ch, d, p) /\ Used(s, p)

\* An entry leads to its chain, or is that of the file being written; subdirectories
\* are in the root, and have a cluster.
Leading(s, h, ch) ==
  \A d \in Dirs(s, ch), p \in Position : In(ch, d, p) =>
    /\ EntryAt(s, p).name # "data"
    /\ Used(s, p) =>
         /\ EntryAt(s, p).clus = FirstIn(ch[p])
            \/ (h.open /\ p = h.at /\ EntryAt(s, p).clus = 0)
         /\ EntryAt(s, p).isdir => d = Top /\ ch[p] # <<>>

\* Behind an end marker there are only end markers.
Before(k, t, l, u) == k < l \/ (k = l /\ t < u)
Ended(s, ch) ==
  \A d \in Dirs(s, ch) : \A k, l \in DOMAIN ch[d], t, u \in Slot :
    Before(k, t, l, u) /\ s[ch[d][k]][t] = End => s[ch[d][l]][u] = End

Distinct(s, ch) ==
  \A d \in Dirs(s, ch), p, q \in Position :
    In(ch, d, p) /\ In(ch, d, q) /\ Used(s, p) /\ EntryAt(s, p).name = EntryAt(s, q).name
      => p = q

\* If nothing but the power fails, and that while the volume is added to, the size in
\* the entry of a file is the length of its chain.
Building == {"create", "write", "close", "rename", "mkdir"}
Exact == Faults \subseteq {"power"} \X Building
Sized(s, ch) ==
  Exact => \A p \in Position :
    ch[p] # <<>> /\ ~ EntryAt(s, p).isdir /\ EntryAt(s, p).clus # 0
      => EntryAt(s, p).size = Len(ch[p])

\* The handle is in the last cluster of its file, or in the one before it.
InPlace(h, c) ==
  IF c = <<>> THEN h.cur = 0 /\ h.size = 0 /\ ~ h.full
  ELSE \E k \in DOMAIN c :
         /\ h.cur = c[k] /\ h.size = (IF h.full THEN k ELSE k - 1)
         /\ k = Len(c) \/ (k = Len(c) - 1 /\ h.full)
Writing(s, h, ch) ==
  IF h.open
  THEN /\ \E d \in Dirs(s, ch) : In(ch, d, h.at)
       /\ Used(s, h.at) /\ ~ EntryAt(s, h.at).isdir
       /\ h.first = FirstIn(ch[h.at]) /\ InPlace(h, ch[h.at])
  ELSE h = NoHandle

Owned(f, s, h, ch, x) ==
  /\ ch \in [Owners -> Seq(Clusters)] /\ Apart(ch)
  /\ ch[Top] # <<>> /\ ch[Top][1] = RootClus
  /\ Spelt(f, ch, x) /\ Listing(s, ch) /\ Leading(s, h, ch) /\ Ended(s, ch)
  /\ Distinct(s, ch) /\ Sized(s, ch) /\ Writing(s, h, ch)

-----------------------------------------------------------------------------
(* Constants. *)

LEMMA VolumeFacts ==
  /\ MaxCluster \in Nat /\ MaxCluster > 2 /\ NumFats \in Nat \ {0}
  /\ DirSlots \in Nat \ {0, 1} /\ DirSlots \in Nat \ {0}
  /\ \A c \in Clusters : c \in Nat /\ c >= 2 /\ c < MaxCluster
  /\ RootClus \in Clusters /\ RootClus = 2
  /\ Free \notin Clusters /\ Eoc \notin Clusters /\ Free # Eoc
  /\ 1 \in Copies /\ 0 \in Slot /\ 1 \in Slot
  /\ \A t \in Slot : t \in Nat /\ t < DirSlots
BY VolumeAssumption DEF Clusters, RootClus, Free, Eoc, Copies, Slot

LEMMA NameFacts ==
  "end" \notin Names /\ "del" \notin Names /\ "data" \notin Names /\ "." \notin Names
  /\ ".." \notin Names /\ "root" \notin Names
BY VolumeAssumption

LEMMA EntryFacts ==
  /\ \A p \in Position : p = <<p[1], p[2]>> /\ p[1] \in Clusters /\ p[2] \in Slot
  /\ \A c \in Clusters, t \in Slot : <<c, t>> \in Position
  /\ Top \notin Position /\ Nobody \notin Position /\ Nobody # Top /\ Nobody \notin Owners
  /\ Top \in Owners /\ Position \subseteq Owners
  /\ End.name = "end" /\ Del.name = "del" /\ Data.name = "data" /\ End # Del
  /\ End \in Entries /\ Del \in Entries /\ Data \in Entries
<1>1. \A c \in Clusters : c # 0
  BY VolumeFacts
<1>2. Position = Clusters \X Slot
  BY DEF Position
<1>3. /\ End.name = "end" /\ Del.name = "del" /\ Data.name = "data" /\ End # Del
      /\ End \in Entries /\ Del \in Entries /\ Data \in Entries
  BY VolumeFacts DEF End, Del, Data, Entry, Entries, AnEntry, EntryNames
<1>4. Top \notin Position /\ Nobody \notin Position /\ Nobody # Top
  BY <1>1, <1>2 DEF Top, Nobody
<1> QED
  BY <1>2, <1>3, <1>4 DEF Owners

-----------------------------------------------------------------------------
(* Walks along a chain. *)

Turn(walk, bad, on, s) ==
  IF Len(s) > MaxCluster \/ FatNext(walk, Last(s), bad) \notin Clusters THEN s
  ELSE on[Append(s, FatNext(walk, Last(s), bad))]
IsWalk(walk, bad, on) == on = [s \in Seq(Clusters) |-> Turn(walk, bad, on, s)]

\* The recursion of a walk has a solution, since a walk ends when it is longer than
\* the volume: the least number of turns left for which it had none would be one more
\* than a number for which it has.
LEMMA WalkExists ==
  ASSUME NEW walk, NEW bad
  PROVE  \E on : IsWalk(walk, bad, on)
<1> DEFINE Within(k, g) ==
             \A s \in Seq(Clusters) : Len(s) + k > MaxCluster => g[s] = Turn(walk, bad, g, s)
           T == {k \in Nat : ~ \E g : Within(k, g)}
<1>1. T = {}
  <2> SUFFICES ASSUME T # {} PROVE FALSE
    OBVIOUS
  <2>1. PICK m \in T : \A k \in T : m <= k
    <3>1. T \in SUBSET Nat
      OBVIOUS
    <3> HIDE DEF T
    <3> QED BY <3>1, LeastElement
  <2>2. m \in Nat /\ ~ \E g : Within(m, g)
    OBVIOUS
  <2>3. CASE m = 0
    <3> DEFINE g == [s \in Seq(Clusters) |-> s]
    <3>1. ASSUME NEW s \in Seq(Clusters), Len(s) + m > MaxCluster
          PROVE  g[s] = Turn(walk, bad, g, s)
      <4>1. Len(s) > MaxCluster
        BY <2>3, <3>1
      <4> QED BY <4>1 DEF Turn
    <3>2. Within(m, g)
      BY <3>1
    <3> QED BY <2>2, <3>2
  <2>4. CASE m # 0
    <3>1. m - 1 \in Nat /\ ~ (m <= m - 1)
      BY <2>2, <2>4
    <3>2. m - 1 \notin T
      BY <2>1, <3>1
    <3>3. PICK g : Within(m - 1, g)
      BY <3>1, <3>2
    <3> DEFINE f == [s \in Seq(Clusters) |-> Turn(walk, bad, g, s)]
    <3>4. ASSUME NEW s \in Seq(Clusters), Len(s) + m > MaxCluster
          PROVE  f[s] = Turn(walk, bad, f, s)
      <4> DEFINE c == FatNext(walk, Last(s), bad)
      <4>1. f[s] = Turn(walk, bad, g, s)
        OBVIOUS
      <4>2. CASE Len(s) > MaxCluster \/ c \notin Clusters
        BY <4>1, <4>2 DEF Turn
      <4>3. CASE ~ (Len(s) > MaxCluster \/ c \notin Clusters)
        <5>1. c \in Clusters
          BY <4>3
        <5> HIDE DEF c
        <5>2. Append(s, c) \in Seq(Clusters) /\ Len(Append(s, c)) = Len(s) + 1
          BY <5>1
        <5>3. Len(Append(s, c)) + (m - 1) > MaxCluster
          BY <2>2, <3>4, <5>2, VolumeFacts
        <5>4. g[Append(s, c)] = f[Append(s, c)]
          BY <3>3, <5>2, <5>3
        <5>5. Turn(walk, bad, g, s) = g[Append(s, c)] /\ Turn(walk, bad, f, s) = f[Append(s, c)]
          <6> HIDE DEF f
          <6> QED BY <4>3 DEF Turn, c
        <5> QED BY <4>1, <5>4, <5>5
      <4> QED BY <4>2, <4>3
    <3>5. Within(m, f)
      <4> HIDE DEF f
      <4> QED BY <3>4
    <3> QED BY <2>2, <3>5
  <2> QED BY <2>3, <2>4
<1>2. PICK g : Within(MaxCluster + 1, g)
  <2>1. MaxCluster + 1 \in Nat
    BY VolumeFacts
  <2> QED BY <1>1, <2>1
<1> DEFINE on == [s \in Seq(Clusters) |-> g[s]]
<1>3. ASSUME NEW s \in Seq(Clusters)
      PROVE  on[s] = Turn(walk, bad, on, s)
  <2>1. g[s] = Turn(walk, bad, g, s)
    <3>1. Len(s) + (MaxCluster + 1) > MaxCluster
      BY VolumeFacts
    <3> QED BY <1>2, <3>1
  <2> DEFINE c == FatNext(walk, Last(s), bad)
  <2>2. c \in Clusters => Append(s, c) \in Seq(Clusters)
    <3> HIDE DEF c
    <3> QED OBVIOUS
  <2>3. c \in Clusters => on[Append(s, c)] = g[Append(s, c)]
    BY <2>2
  <2>4. Turn(walk, bad, on, s) = Turn(walk, bad, g, s)
    <3> HIDE DEF on
    <3> QED BY <2>3 DEF Turn, c
  <2> QED BY <2>1, <2>4
<1>4. IsWalk(walk, bad, on)
  <2>1. on = [s \in Seq(Clusters) |-> on[s]]
    OBVIOUS
  <2> HIDE DEF on
  <2> QED BY <1>3, <2>1 DEF IsWalk
<1> QED
  BY <1>4

\* The chain from the first cluster of s goes along s, and stops where the FAT does.
LEMMA ChainStops ==
  ASSUME NEW walk, NEW s \in Seq(Clusters), NEW k \in 1 .. Len(s), Len(s) <= MaxCluster,
         \A i \in 1 .. k - 1 : fat[1][s[i]] = s[i + 1], fat[1][s[k]] \notin Clusters
  PROVE  Chain(walk, s[1], NoFault) = SubSeq(s, 1, k)
<1> DEFINE on == CHOOSE on : IsWalk(walk, NoFault, on)
<1>1. IsWalk(walk, NoFault, on)
  BY WalkExists
<1>2. s[1] \in Clusters /\ k \in Nat /\ k <= Len(s) /\ 1 <= k /\ Len(s) \in Nat
  OBVIOUS
<1>3. Chain(walk, s[1], NoFault) = on[<<s[1]>>]
  BY <1>2 DEF Chain, IsWalk, Turn
<1> HIDE DEF on
<1>4. \A c \in Clusters : FatNext(walk, c, NoFault) = fat[1][c]
  BY VolumeFacts DEF FatNext, NoFault
<1>5. ASSUME NEW j \in 1 .. k
      PROVE  /\ SubSeq(s, 1, j) \in Seq(Clusters) /\ Len(SubSeq(s, 1, j)) = j
             /\ \A i \in 1 .. j : SubSeq(s, 1, j)[i] = s[i]
             /\ Last(SubSeq(s, 1, j)) = s[j]
  <2>1. 0 + j <= Len(s) /\ j \in Nat
    BY <1>2
  <2>2. /\ SubSeq(s, 1, j) \in Seq(Clusters) /\ Len(SubSeq(s, 1, j)) = j
        /\ \A i \in 1 .. j : SubSeq(s, 1, j)[i] = s[0 + i]
    BY <2>1, PartIs
  <2>3. \A i \in 1 .. j : 0 + i = i
    OBVIOUS
  <2> QED BY <2>2, <2>3 DEF Last
<1> DEFINE T == {m \in Nat : m < k /\ on[SubSeq(s, 1, k - m)] # SubSeq(s, 1, k)}
<1>6. T = {}
  <2> SUFFICES ASSUME T # {} PROVE FALSE
    OBVIOUS
  <2>1. PICK m \in T : \A n \in T : m <= n
    <3>1. T \in SUBSET Nat
      OBVIOUS
    <3> HIDE DEF T
    <3> QED BY <3>1, LeastElement
  <2>2. m \in Nat /\ m < k /\ on[SubSeq(s, 1, k - m)] # SubSeq(s, 1, k)
    OBVIOUS
  <2> DEFINE j == k - m
  <2>3. j \in 1 .. k
    BY <1>2, <2>2
  <2>4. on[SubSeq(s, 1, j)] = Turn(walk, NoFault, on, SubSeq(s, 1, j))
    BY <1>1, <1>5, <2>3 DEF IsWalk
  <2>5. Last(SubSeq(s, 1, j)) = s[j] /\ Len(SubSeq(s, 1, j)) = j /\ s[j] \in Clusters
    BY <1>2, <1>5, <2>3
  <2>6. CASE m = 0
    <3>1. fat[1][s[j]] \notin Clusters
      BY <1>2, <2>6
    <3>2. Turn(walk, NoFault, on, SubSeq(s, 1, j)) = SubSeq(s, 1, j)
      BY <1>4, <2>5, <3>1 DEF Turn
    <3>3. j = k
      BY <1>2, <2>6
    <3> QED BY <2>2, <2>4, <3>2, <3>3
  <2>7. CASE m # 0
    <3>1. m - 1 \in Nat /\ m - 1 < k /\ ~ (m <= m - 1) /\ k - (m - 1) = j + 1 /\ j \in 1 .. k - 1
          /\ j + 1 \in 1 .. k /\ ~ (j > MaxCluster)
      BY <1>2, <2>2, <2>7, VolumeFacts
    <3>2. on[SubSeq(s, 1, j + 1)] = SubSeq(s, 1, k)
      <4>1. m - 1 \notin T
        BY <2>1, <3>1
      <4> HIDE DEF j
      <4> QED BY <3>1, <4>1
    <3>3. fat[1][s[j]] = s[j + 1] /\ s[j + 1] \in Clusters
      BY <1>2, <3>1
    <3>4. Append(SubSeq(s, 1, j), s[j + 1]) = SubSeq(s, 1, j + 1)
      <4>1. /\ SubSeq(s, 1, j) \in Seq(Clusters) /\ Len(SubSeq(s, 1, j)) = j
            /\ \A i \in 1 .. j : SubSeq(s, 1, j)[i] = s[i]
        BY <1>5, <2>3
      <4>2. /\ SubSeq(s, 1, j + 1) \in Seq(Clusters) /\ Len(SubSeq(s, 1, j + 1)) = j + 1
            /\ \A i \in 1 .. j + 1 : SubSeq(s, 1, j + 1)[i] = s[i]
        BY <1>5, <3>1
      <4> DEFINE a == SubSeq(s, 1, j)
                 b == SubSeq(s, 1, j + 1)
                 e == Append(a, s[j + 1])
      <4> HIDE DEF a, b, j
      <4>3. e \in Seq(Clusters) /\ Len(e) = Len(a) + 1
            /\ \A i \in 1 .. Len(a) + 1 : e[i] = IF i = Len(a) + 1 THEN s[j + 1] ELSE a[i]
        BY SMTT(30), <3>3, <4>1, AppendProperties DEF a
      <4> HIDE DEF e
      <4>4. e = b
        BY SMTT(30), <2>3, <4>1, <4>2, <4>3 DEF a, b
      <4> QED BY <4>4 DEF a, b, e
    <3>5. Turn(walk, NoFault, on, SubSeq(s, 1, j)) = on[Append(SubSeq(s, 1, j), s[j + 1])]
      <4> HIDE DEF j
      <4> QED BY <1>4, <2>5, <3>1, <3>3 DEF Turn
    <3> QED BY <2>2, <2>4, <3>2, <3>4, <3>5
  <2> QED BY <2>6, <2>7
<1>7. k - 1 \notin T
  BY <1>6
<1>8. on[SubSeq(s, 1, 1)] = SubSeq(s, 1, k)
  <2>1. k - 1 \in Nat /\ k - 1 < k /\ k - (k - 1) = 1
    BY <1>2
  <2> QED BY <1>7, <2>1
<1>9. SubSeq(s, 1, 1) = <<s[1]>>
  <2>1. 1 \in 1 .. k
    BY <1>2
  <2> DEFINE a == SubSeq(s, 1, 1)
  <2>2. a \in Seq(Clusters) /\ Len(a) = 1 /\ a[1] = s[1]
    BY <1>5, <2>1
  <2> HIDE DEF a
  <2>3. a = <<s[1]>>
    BY <2>2
  <2> QED BY <2>3 DEF a
<1> QED
  BY <1>3, <1>8, <1>9

-----------------------------------------------------------------------------
(* Scans over the places of a directory. *)

Index(k, t) == (k - 1) * DirSlots + t + 1

LEMMA IndexIs ==
  ASSUME NEW n \in Nat, NEW k \in 1 .. n, NEW t \in Slot
  PROVE  /\ Index(k, t) \in 1 .. n * DirSlots
         /\ (Index(k, t) - 1) \div DirSlots = k - 1 /\ (Index(k, t) - 1) % DirSlots = t
         /\ \A l \in 1 .. n, u \in Slot : Before(l, u, k, t) => Index(l, u) < Index(k, t)
<1> DEFINE D == DirSlots
<1>1. D \in Nat \ {0} /\ \A u \in Slot : u \in 0 .. D - 1
  BY VolumeFacts DEF Slot
<1>2. k - 1 \in Nat /\ k - 1 < n /\ t \in 0 .. D - 1
  BY <1>1
<1> HIDE DEF D
<1>3. (k - 1) * D \in Nat /\ n * D \in Nat /\ (k - 1) * D + D <= n * D
  <2>1. (k - 1 + 1) * D = (k - 1) * D + D /\ (k - 1) * D \in Nat
    BY <1>1, <1>2, OneMore
  <2>2. n * D \in Nat
    BY <1>1, OneMore
  <2>3. ((k - 1) * D) + D <= n * D
    <3>1. k - 1 < n => (k - 1) * D + D <= n * D
      BY <1>1, <1>2, FewerFit
    <3> QED BY <1>2, <3>1
  <2> QED BY <2>1, <2>2, <2>3
<1>4. Index(k, t) = (k - 1) * D + t + 1 /\ Index(k, t) - 1 = (k - 1) * D + t
  <2>1. Index(k, t) = (k - 1) * D + t + 1
    BY DEF Index, D
  <2> QED BY <1>2, <1>3, <2>1
<1>5. Index(k, t) \in 1 .. n * D
  BY <1>1, <1>2, <1>3, <1>4
<1>6. (Index(k, t) - 1) \div D = k - 1 /\ (Index(k, t) - 1) % D = t
  BY <1>1, <1>2, <1>4, CutIsUnique
<1>7. ASSUME NEW l \in 1 .. n, NEW u \in Slot, Before(l, u, k, t)
      PROVE  Index(l, u) < Index(k, t)
  <2>1. l - 1 \in Nat /\ u \in 0 .. D - 1
    BY <1>1
  <2>2. Index(l, u) = (l - 1) * D + u + 1 /\ (l - 1) * D \in Nat
    <3>1. (l - 1) * D \in Nat
      BY <1>1, <2>1, OneMore
    <3> QED BY <3>1 DEF Index, D
  <2>3. CASE l < k
    <3>1. l - 1 < k - 1
      BY <2>3
    <3>2. (l - 1) * D + D <= (k - 1) * D
      BY <1>1, <1>2, <2>1, <3>1, FewerFit
    <3> QED BY <1>1, <1>2, <1>3, <1>4, <2>1, <2>2, <3>2
  <2>4. CASE l = k /\ u < t
    <3>1. (l - 1) * D = (k - 1) * D
      BY <2>4
    <3> QED BY <1>2, <1>3, <1>4, <2>1, <2>2, <2>4, <3>1
  <2> QED BY <1>7, <2>3, <2>4 DEF Before
<1> QED
  BY <1>5, <1>6, <1>7 DEF D

LEMMA IndexCovers ==
  ASSUME NEW n \in Nat, NEW i \in 1 .. n * DirSlots
  PROVE  \E k \in 1 .. n, t \in Slot : i = Index(k, t)
<1> DEFINE D == DirSlots
           a == (i - 1) \div D
           t == (i - 1) % D
<1>1. D \in Nat \ {0}
  BY VolumeFacts
<1> HIDE DEF D
<1>2. n * D \in Nat /\ i \in 1 .. n * D
  BY <1>1, OneMore DEF D
<1>3. i - 1 \in Nat
  BY <1>2
<1>4. a \in Nat /\ t \in 0 .. D - 1 /\ i - 1 = a * D + t /\ a * D \in Nat
  BY <1>1, <1>3, CutExists, OneMore
<1> HIDE DEF a, t
<1>5. a < n
  <2>1. a * D < n * D
    BY <1>1, <1>2, <1>3, <1>4
  <2> QED BY <1>1, <1>4, <2>1, FewerFit
<1> DEFINE k == a + 1
<1>6. k \in 1 .. n /\ k - 1 = a
  BY <1>4, <1>5
<1>7. t \in Slot
  BY <1>4 DEF Slot, D
<1>8. i = Index(k, t)
  <2>1. Index(k, t) = (k - 1) * D + t + 1
    BY DEF Index, D
  <2>2. (k - 1) * D = a * D
    BY <1>6
  <2> QED BY <1>2, <1>4, <2>1, <2>2
<1> QED
  BY <1>6, <1>7, <1>8

LEMMA PlacesAre ==
  ASSUME NEW s \in Seq(Clusters)
  PROVE  LET scan == PositionsIn[s]
         IN  /\ scan \in Seq(Position) /\ Len(scan) = Len(s) * DirSlots
             /\ Len(scan) \in Nat /\ DOMAIN scan = 1 .. Len(scan)
             /\ \A k \in DOMAIN s, t \in Slot :
                  Index(k, t) \in 1 .. Len(scan) /\ scan[Index(k, t)] = <<s[k], t>>
             /\ \A i \in 1 .. Len(scan) : \E k \in DOMAIN s, t \in Slot :
                  i = Index(k, t) /\ scan[i] = <<s[k], t>>
<1> DEFINE n == Len(s)
           m == n * DirSlots
           scan == PositionsIn[s]
           place(i) == <<s[((i - 1) \div DirSlots) + 1], (i - 1) % DirSlots>>
<1>1. scan = [i \in 1 .. m |-> place(i)]
  BY DEF PositionsIn
<1>2. n \in Nat /\ DOMAIN s = 1 .. n /\ \A k \in 1 .. n : s[k] \in Clusters
  OBVIOUS
<1>3. m \in Nat
  BY <1>2, VolumeFacts, OneMore
<1>4. ASSUME NEW k \in 1 .. n, NEW t \in Slot
      PROVE  Index(k, t) \in 1 .. m /\ scan[Index(k, t)] = <<s[k], t>>
  <2>1. /\ Index(k, t) \in 1 .. m
        /\ (Index(k, t) - 1) \div DirSlots = k - 1 /\ (Index(k, t) - 1) % DirSlots = t
    BY <1>2, IndexIs
  <2>2. k - 1 + 1 = k
    BY <1>2
  <2>3. scan[Index(k, t)] = place(Index(k, t))
    <3> HIDE DEF scan, place, m
    <3> QED BY <1>1, <2>1
  <2>4. place(Index(k, t)) = <<s[k], t>>
    BY <2>1, <2>2
  <2> QED BY <2>1, <2>3, <2>4
<1>5. ASSUME NEW i \in 1 .. m
      PROVE  \E k \in 1 .. n, t \in Slot : i = Index(k, t) /\ scan[i] = <<s[k], t>>
  <2>1. PICK k \in 1 .. n, t \in Slot : i = Index(k, t)
    BY <1>2, IndexCovers
  <2> QED BY <1>4, <2>1
<1> HIDE DEF scan, m, place
<1>6. ASSUME NEW i \in 1 .. m
      PROVE  scan[i] \in Position
  <2>1. PICK k \in 1 .. n, t \in Slot : scan[i] = <<s[k], t>>
    BY <1>5
  <2>2. s[k] \in Clusters
    BY <1>2
  <2> QED BY <2>1, <2>2 DEF Position
<1>7. scan \in Seq(Position) /\ Len(scan) = m /\ DOMAIN scan = 1 .. m
  BY <1>1, <1>3, <1>6
<1>8. m = Len(s) * DirSlots /\ DOMAIN s = 1 .. n
  BY DEF m
<1> HIDE DEF n
<1>9. /\ \A k \in DOMAIN s, t \in Slot :
             Index(k, t) \in 1 .. Len(scan) /\ scan[Index(k, t)] = <<s[k], t>>
      /\ \A i \in 1 .. Len(scan) : \E k \in DOMAIN s, t \in Slot :
             i = Index(k, t) /\ scan[i] = <<s[k], t>>
  BY <1>4, <1>5, <1>7, <1>8
<1>10. Len(scan) = Len(s) * DirSlots /\ Len(scan) \in Nat /\ DOMAIN scan = 1 .. Len(scan)
  BY <1>3, <1>7, <1>8
<1> QED
  BY <1>7, <1>9, <1>10 DEF scan

\* The first place of a scan that is in W, or none
FirstAmong(scan, W) ==
  LET hits == {i \in DOMAIN scan : scan[i] \in W}
  IN  IF hits = {} THEN <<>> ELSE scan[Min(hits)]

LEMMA MinIs ==
  ASSUME NEW T \in SUBSET Nat, T # {}
  PROVE  Min(T) \in T /\ \A i \in T : Min(T) <= i
<1>1. \E m \in T : \A i \in T : m <= i
  BY LeastElement
<1> QED
  BY <1>1 DEF Min

LEMMA FirstAmongIs ==
  ASSUME NEW s \in Seq(Clusters), NEW W
  PROVE  LET p == FirstAmong(PositionsIn[s], W)
         IN  \/ p = <<>> /\ \A k \in DOMAIN s, t \in Slot : <<s[k], t>> \notin W
             \/ \E k \in DOMAIN s, t \in Slot :
                  /\ p = <<s[k], t>> /\ p \in W
                  /\ \A l \in DOMAIN s, u \in Slot : Before(l, u, k, t) => <<s[l], u>> \notin W
<1> DEFINE scan == PositionsIn[s]
           hits == {i \in DOMAIN scan : scan[i] \in W}
           p == FirstAmong(scan, W)
<1>1. /\ DOMAIN scan = 1 .. Len(scan) /\ Len(scan) \in Nat
      /\ \A k \in DOMAIN s, t \in Slot :
                  Index(k, t) \in 1 .. Len(scan) /\ scan[Index(k, t)] = <<s[k], t>>
      /\ \A i \in 1 .. Len(scan) : \E k \in DOMAIN s, t \in Slot :
                  i = Index(k, t) /\ scan[i] = <<s[k], t>>
  BY PlacesAre
<1> HIDE DEF scan
<1>2. CASE hits = {}
  <2>1. p = <<>>
    BY <1>2 DEF FirstAmong
  <2>2. \A k \in DOMAIN s, t \in Slot : <<s[k], t>> \notin W
    BY <1>1, <1>2
  <2> QED BY <2>1, <2>2 DEF scan
<1>3. CASE hits # {}
  <2>1. hits \in SUBSET Nat
    BY <1>1
  <2>2. Min(hits) \in hits /\ \A i \in hits : Min(hits) <= i
    <3> HIDE DEF hits
    <3> QED BY <1>3, <2>1, MinIs
  <2>3. p = scan[Min(hits)]
    BY <1>3 DEF FirstAmong
  <2> DEFINE m == Min(hits)
  <2> HIDE DEF m
  <2>4. m \in 1 .. Len(scan) /\ scan[m] \in W /\ \A i \in 1 .. Len(scan) : scan[i] \in W => m <= i
    BY <1>1, <2>2 DEF m
  <2>5. PICK k \in DOMAIN s, t \in Slot : m = Index(k, t) /\ scan[m] = <<s[k], t>>
    BY <1>1, <2>4
  <2>6. ASSUME NEW l \in DOMAIN s, NEW u \in Slot, Before(l, u, k, t)
        PROVE  <<s[l], u>> \notin W
    <3>1. Index(l, u) < Index(k, t) /\ Index(k, t) \in Nat /\ Index(l, u) \in Nat
      <4>1. Len(s) \in Nat /\ DOMAIN s = 1 .. Len(s)
        OBVIOUS
      <4>2. Index(l, u) < Index(k, t)
        BY <2>6, <4>1, IndexIs
      <4> QED BY SMTT(30), <1>1, <4>2
    <3>2. scan[Index(l, u)] \notin W
      BY <1>1, <2>4, <2>5, <3>1
    <3> QED BY <1>1, <3>2
  <2> QED BY <2>3, <2>4, <2>5, <2>6 DEF m, scan
<1> QED
  BY <1>2, <1>3

\* What a directory shows is its scan, as far as it goes before an end marker.
LEMMA UpToEndIs ==
  ASSUME NEW scan \in Seq(Position)
  PROVE  LET shown == UpToEnd[scan]
         IN  /\ shown \in Seq(Position)
             /\ \E n \in 0 .. Len(scan) :
                  /\ DOMAIN shown = 1 .. n
                  /\ \A i \in 1 .. n : shown[i] = scan[i] /\ At(scan[i]) # End
                  /\ n < Len(scan) => At(scan[n + 1]) = End
<1> DEFINE ends == {i \in DOMAIN scan : At(scan[i]) = End}
           shown == UpToEnd[scan]
<1>1. shown = IF ends = {} THEN scan ELSE SubSeq(scan, 1, Min(ends) - 1)
  BY DEF UpToEnd
<1>2. Len(scan) \in Nat /\ DOMAIN scan = 1 .. Len(scan)
  OBVIOUS
<1> HIDE DEF shown
<1>3. CASE ends = {}
  <2>1. shown = scan
    BY <1>1, <1>3
  <2>2. \A i \in 1 .. Len(scan) : At(scan[i]) # End
    BY <1>2, <1>3
  <2> DEFINE n == Len(scan)
  <2>3. n \in 0 .. Len(scan) /\ DOMAIN shown = 1 .. n /\ ~ (n < Len(scan))
    BY <1>2, <2>1
  <2>4. \A i \in 1 .. n : shown[i] = scan[i] /\ At(scan[i]) # End
    BY <2>1, <2>2
  <2>5. shown \in Seq(Position)
    BY <2>1
  <2> HIDE DEF n
  <2> QED BY <2>3, <2>4, <2>5 DEF shown
<1>4. CASE ends # {}
  <2>1. ends \in SUBSET Nat
    BY <1>2
  <2> DEFINE m == Min(ends)
             n == m - 1
  <2>2. m \in ends /\ \A i \in ends : m <= i
    <3> HIDE DEF ends
    <3> QED BY <1>4, <2>1, MinIs
  <2>3. shown = SubSeq(scan, 1, n)
    BY <1>1, <1>4
  <2> HIDE DEF m
  <2>4. m \in 1 .. Len(scan) /\ At(scan[m]) = End /\ \A i \in 1 .. Len(scan) : At(scan[i]) = End => m <= i
    BY <1>2, <2>2
  <2>5. n \in Nat /\ n < Len(scan) /\ n + 1 = m /\ 0 + n <= Len(scan)
    BY <1>2, <2>4
  <2> HIDE DEF n
  <2>6. shown \in Seq(Position) /\ Len(shown) = n /\ \A i \in 1 .. n : shown[i] = scan[0 + i]
    BY <2>3, <2>5, PartIs
  <2>7. \A i \in 1 .. n : 0 + i = i /\ i \in 1 .. Len(scan) /\ ~ (m <= i)
    BY <1>2, <2>5
  <2>8. DOMAIN shown = 1 .. n /\ n \in 0 .. Len(scan)
    BY <1>2, <2>5, <2>6
  <2> QED BY <2>4, <2>5, <2>6, <2>7, <2>8 DEF shown
<1> QED
  BY <1>3, <1>4

\* Behind the first end marker of the chain s there are only end markers.
EndedIn(s) ==
  \A k, l \in DOMAIN s, t, u \in Slot :
    Before(k, t, l, u) /\ sect[s[k]][t] = End => sect[s[l]][u] = End

LEMMA ShownIs ==
  ASSUME NEW s \in Seq(Clusters), EndedIn(s)
  PROVE  /\ \A W : (\A p \in W : At(p) # End) =>
              FirstAmong(UpToEnd[PositionsIn[s]], W) = FirstAmong(PositionsIn[s], W)
         /\ ToSet(UpToEnd[PositionsIn[s]]) =
              {p \in Position : (\E k \in DOMAIN s : p[1] = s[k]) /\ At(p) # End}
<1> DEFINE scan == PositionsIn[s]
           shown == UpToEnd[scan]
<1>1. /\ scan \in Seq(Position)
      /\ DOMAIN scan = 1 .. Len(scan) /\ Len(scan) \in Nat
      /\ \A k \in DOMAIN s, t \in Slot :
                  Index(k, t) \in 1 .. Len(scan) /\ scan[Index(k, t)] = <<s[k], t>>
      /\ \A i \in 1 .. Len(scan) : \E k \in DOMAIN s, t \in Slot :
                  i = Index(k, t) /\ scan[i] = <<s[k], t>>
  BY PlacesAre
<1> HIDE DEF scan
<1>2. PICK n \in 0 .. Len(scan) :
                  /\ DOMAIN shown = 1 .. n
                  /\ \A i \in 1 .. n : shown[i] = scan[i] /\ At(scan[i]) # End
                  /\ n < Len(scan) => At(scan[n + 1]) = End
  BY <1>1, UpToEndIs
<1> HIDE DEF shown
<1>3. Len(s) \in Nat /\ DOMAIN s = 1 .. Len(s) /\ \A k \in 1 .. Len(s) : s[k] \in Clusters
  OBVIOUS
<1>4. ASSUME NEW i \in 1 .. Len(scan), n < i
      PROVE  At(scan[i]) = End
  <2>1. n + 1 \in 1 .. Len(scan) /\ n + 1 <= i /\ At(scan[n + 1]) = End
    BY <1>1, <1>2, <1>4
  <2>2. PICK k \in DOMAIN s, t \in Slot : n + 1 = Index(k, t) /\ scan[n + 1] = <<s[k], t>>
    BY <1>1, <2>1
  <2>3. PICK l \in DOMAIN s, u \in Slot : i = Index(l, u) /\ scan[i] = <<s[l], u>>
    BY <1>1
  <2>4. sect[s[k]][t] = End
    BY <2>1, <2>2 DEF At
  <2>5. ~ Before(l, u, k, t)
    <3>1. SUFFICES ASSUME Before(l, u, k, t) PROVE FALSE
      OBVIOUS
    <3>2. Index(l, u) < Index(k, t)
      BY <1>3, <3>1, IndexIs
    <3> QED BY <1>1, <2>1, <2>2, <2>3, <3>2
  <2>6. (k = l /\ t = u) \/ Before(k, t, l, u)
    BY <1>3, <2>5, VolumeFacts DEF Before
  <2>7. sect[s[l]][u] = End
    BY <2>4, <2>6 DEF EndedIn
  <2> QED BY <2>3, <2>7 DEF At
<1>5. ASSUME NEW W, \A p \in W : At(p) # End
      PROVE  FirstAmong(shown, W) = FirstAmong(scan, W)
  <2> DEFINE a == {i \in DOMAIN shown : shown[i] \in W}
             b == {i \in DOMAIN scan : scan[i] \in W}
  <2>1. ASSUME NEW i \in b PROVE i \in a
    <3>1. i \in 1 .. Len(scan) /\ scan[i] \in W /\ At(scan[i]) # End
      BY <1>1, <1>5
    <3>2. ~ (n < i)
      BY <1>4, <3>1
    <3>3. i \in 1 .. n
      BY <1>1, <3>1, <3>2
    <3> QED BY <1>2, <3>1, <3>3
  <2>2. ASSUME NEW i \in a PROVE i \in b /\ shown[i] = scan[i]
    BY <1>1, <1>2
  <2>3. a = b
    <3> HIDE DEF a, b
    <3> QED BY <2>1, <2>2
  <2>4. a # {} => Min(a) \in a
    <3>1. a \in SUBSET Nat
      BY <1>2
    <3> HIDE DEF a
    <3> QED BY <3>1, MinIs
  <2> HIDE DEF a, b
  <2>5. a # {} => shown[Min(a)] = scan[Min(b)]
    BY <2>2, <2>3, <2>4
  <2>6. /\ FirstAmong(shown, W) = IF a = {} THEN <<>> ELSE shown[Min(a)]
        /\ FirstAmong(scan, W) = IF b = {} THEN <<>> ELSE scan[Min(b)]
    BY DEF FirstAmong, a, b
  <2> QED BY <2>3, <2>5, <2>6
<1>6. ToSet(shown) = {p \in Position : (\E k \in DOMAIN s : p[1] = s[k]) /\ At(p) # End}
  <2>1. ASSUME NEW p \in ToSet(shown)
        PROVE  p \in Position /\ (\E k \in DOMAIN s : p[1] = s[k]) /\ At(p) # End
    <3>1. PICK i \in 1 .. n : p = scan[i] /\ At(scan[i]) # End
      BY <1>2 DEF ToSet
    <3>2. i \in 1 .. Len(scan)
      BY <1>1, <1>2
    <3>3. PICK k \in DOMAIN s, t \in Slot : scan[i] = <<s[k], t>>
      BY <1>1, <3>2
    <3> QED BY <1>3, <3>1, <3>3 DEF Position
  <2>2. ASSUME NEW p \in Position, NEW k \in DOMAIN s, p[1] = s[k], At(p) # End
        PROVE  p \in ToSet(shown)
    <3>1. p = <<s[k], p[2]>> /\ p[2] \in Slot
      BY <2>2, EntryFacts
    <3>2. Index(k, p[2]) \in 1 .. Len(scan) /\ scan[Index(k, p[2])] = p
      BY <1>1, <3>1
    <3>3. ~ (n < Index(k, p[2]))
      BY <1>4, <2>2, <3>2
    <3>4. Index(k, p[2]) \in 1 .. n
      BY <1>1, <3>2, <3>3
    <3> QED BY <1>2, <3>2, <3>4 DEF ToSet
  <2> QED BY <2>1, <2>2
<1> QED
  BY <1>5, <1>6 DEF shown, scan

-----------------------------------------------------------------------------
(* What keeps the chains owned. *)

With(f, a, v) == [f EXCEPT ![a] = v]

LEMMA OwnedIs ==
  ASSUME NEW f, NEW s, NEW h, NEW ch, NEW x, Owned(f, s, h, ch, x)
  PROVE  /\ ch \in [Owners -> Seq(Clusters)] /\ Apart(ch)
         /\ ch[Top] # <<>> /\ ch[Top][1] = RootClus
         /\ Spelt(f, ch, x) /\ Listing(s, ch) /\ Leading(s, h, ch) /\ Ended(s, ch)
         /\ Distinct(s, ch) /\ Sized(s, ch) /\ Writing(s, h, ch)
BY DEF Owned

LEMMA DirsAreOwners ==
  ASSUME NEW s, NEW ch
  PROVE  Dirs(s, ch) \subseteq Owners /\ Top \in Dirs(s, ch)
BY DEF Dirs, Owners

\* A place is in one directory only.
LEMMA OneDirectory ==
  ASSUME NEW ch, Apart(ch), NEW d \in Owners, NEW e \in Owners, NEW p,
         In(ch, d, p), In(ch, e, p)
  PROVE  d = e
BY DEF Apart, In

\* Places are in a directory as long as its clusters are.
LEMMA InOf ==
  ASSUME NEW ch, NEW d, NEW k \in DOMAIN ch[d], NEW t
  PROVE  In(ch, d, <<ch[d][k], t>>)
BY DEF In

\* The FAT may change anywhere but on the chains; clusters of x may be freed.
LEMMA FatChange ==
  ASSUME NEW f, NEW s, NEW h, NEW ch, NEW x, Owned(f, s, h, ch, x), NEW f2,
         \A p \in Owners : \A i \in DOMAIN ch[p] :
            f2[ch[p][i]] = f[ch[p][i]] \/ (p = x /\ f2[ch[p][i]] = Free)
  PROVE  Owned(f2, s, h, ch, x)
<1>1. Spelt(f2, ch, x)
  BY DEF Owned, Spelt
<1> QED
  BY <1>1 DEF Owned

LEMMA HoleOpens ==
  ASSUME NEW f, NEW s, NEW h, NEW ch, NEW x, Owned(f, s, h, ch, Nobody)
  PROVE  Owned(f, s, h, ch, x)
<1>1. Spelt(f, ch, x)
  BY EntryFacts DEF Owned, Spelt
<1> QED
  BY <1>1 DEF Owned

\* Sectors may change anywhere but in the directories.
LEMMA SectChange ==
  ASSUME NEW f, NEW s, NEW h, NEW ch, NEW x, Owned(f, s, h, ch, x), NEW s2,
         \A d \in Dirs(s, ch) : \A k \in DOMAIN ch[d] : s2[ch[d][k]] = s[ch[d][k]]
  PROVE  Owned(f, s2, h, ch, x) /\ Dirs(s2, ch) = Dirs(s, ch)
<1>1. \A d \in Dirs(s, ch) : \A p : In(ch, d, p) =>
         EntryAt(s2, p) = EntryAt(s, p) /\ (Used(s2, p) <=> Used(s, p))
  BY DEF In, EntryAt, Used
<1>2. Dirs(s2, ch) = Dirs(s, ch)
  <2>1. Top \in Dirs(s, ch)
    BY DirsAreOwners
  <2>2. \A p : In(ch, Top, p) => EntryAt(s2, p) = EntryAt(s, p) /\ (Used(s2, p) <=> Used(s, p))
    BY <1>1, <2>1
  <2> QED BY <2>2 DEF Dirs
<1> DEFINE D == Dirs(s, ch)
<1> HIDE DEF D
<1>3. Listing(s2, ch)
  <2>1. \A p \in Position : ch[p] # <<>> => \E d \in D : In(ch, d, p) /\ Used(s, p)
    BY DEF Owned, Listing, D
  <2>2. \A p \in Position : ch[p] # <<>> => \E d \in D : In(ch, d, p) /\ Used(s2, p)
    BY <1>1, <2>1 DEF D
  <2> QED BY <1>2, <2>2 DEF Listing, D
<1>4. Leading(s2, h, ch)
  <2>1. SUFFICES ASSUME NEW d \in D, NEW p \in Position, In(ch, d, p)
        PROVE  /\ EntryAt(s2, p).name # "data"
               /\ Used(s2, p) =>
                  /\ EntryAt(s2, p).clus = FirstIn(ch[p])
                       \/ (h.open /\ p = h.at /\ EntryAt(s2, p).clus = 0)
                  /\ EntryAt(s2, p).isdir => d = Top /\ ch[p] # <<>>
    BY <1>2 DEF Leading, D
  <2>2. EntryAt(s2, p) = EntryAt(s, p) /\ (Used(s2, p) <=> Used(s, p))
    BY <1>1, <2>1 DEF D
  <2> QED BY <2>1, <2>2 DEF Owned, Leading, D
<1>5. Ended(s2, ch)
  <2>1. SUFFICES ASSUME NEW d \in D, NEW k \in DOMAIN ch[d], NEW l \in DOMAIN ch[d],
                        NEW t \in Slot, NEW u \in Slot, Before(k, t, l, u), s2[ch[d][k]][t] = End
        PROVE  s2[ch[d][l]][u] = End
    BY <1>2 DEF Ended, D
  <2>2. s2[ch[d][k]] = s[ch[d][k]] /\ s2[ch[d][l]] = s[ch[d][l]]
    BY DEF D
  <2>3. Ended(s, ch)
    BY DEF Owned
  <2> QED BY <2>1, <2>2, <2>3 DEF Ended, D
<1>6. Distinct(s2, ch)
  <2>1. SUFFICES ASSUME NEW d \in D, NEW p \in Position, NEW q \in Position,
                        In(ch, d, p), In(ch, d, q), Used(s2, p),
                        EntryAt(s2, p).name = EntryAt(s2, q).name
        PROVE  p = q
    BY <1>2 DEF Distinct, D
  <2>2. /\ EntryAt(s2, p) = EntryAt(s, p) /\ (Used(s2, p) <=> Used(s, p))
        /\ EntryAt(s2, q) = EntryAt(s, q)
    BY <1>1, <2>1 DEF D
  <2> QED BY <2>1, <2>2 DEF Owned, Distinct, D
<1>7. Writing(s2, h, ch)
  <2>1. CASE h.open
    <3>1. PICK d \in D : In(ch, d, h.at)
      BY <2>1 DEF Owned, Writing, D
    <3>2. EntryAt(s2, h.at) = EntryAt(s, h.at) /\ (Used(s2, h.at) <=> Used(s, h.at))
      BY <1>1, <3>1 DEF D
    <3> QED BY <1>2, <2>1, <3>1, <3>2 DEF Owned, Writing, D
  <2>2. CASE ~ h.open
    BY <2>2 DEF Owned, Writing
  <2> QED BY <2>1, <2>2
<1>8. Sized(s2, ch)
  <2>1. Listing(s, ch) /\ Sized(s, ch)
    BY DEF Owned
  <2>2. \A p \in Position : ch[p] # <<>> => EntryAt(s2, p) = EntryAt(s, p)
    BY <1>1, <2>1 DEF Listing
  <2> QED BY <2>1, <2>2 DEF Sized
<1> QED
  BY <1>2, <1>3, <1>4, <1>5, <1>6, <1>7, <1>8 DEF Owned

\* The handle may be given up: what it was writing then belongs to its entry, or to
\* nobody.
LEMMA HandleLost ==
  ASSUME NEW f, NEW s, NEW h, NEW ch, NEW x, Owned(f, s, h, ch, x), h.open, h.at \in Position
  PROVE  \E c \in {<<>>, ch[h.at]} :
            /\ c = ch[h.at] <=> EntryAt(s, h.at).clus = FirstIn(ch[h.at])
            /\ Owned(f, s, NoHandle, With(ch, h.at, c), x)
<1> DEFINE p0 == h.at
           c == IF EntryAt(s, p0).clus = FirstIn(ch[p0]) THEN ch[p0] ELSE <<>>
           c2 == With(ch, p0, c)
<1>1. /\ ch \in [Owners -> Seq(Clusters)] /\ p0 \in Owners /\ p0 # Top
  BY EntryFacts DEF Owned
<1>2. c \in Seq(Clusters) /\ (c = <<>> \/ c = ch[p0])
  BY <1>1
<1>3. c2 \in [Owners -> Seq(Clusters)] /\ \A p \in Owners : c2[p] = IF p = p0 THEN c ELSE ch[p]
  BY <1>1, <1>2 DEF With
<1>4. PICK d0 \in Dirs(s, ch) : In(ch, d0, p0)
  BY DEF Owned, Writing
<1>5. Used(s, p0) /\ ~ EntryAt(s, p0).isdir
  BY DEF Owned, Writing
<1>6. (c = ch[p0]) <=> EntryAt(s, p0).clus = FirstIn(ch[p0])
  <2>1. EntryAt(s, p0).clus = FirstIn(ch[p0]) \/ EntryAt(s, p0).clus = 0
    BY <1>4, <1>5 DEF Owned, Leading
  <2>2. ch[p0] = <<>> => FirstIn(ch[p0]) = 0
    BY DEF FirstIn
  <2> QED BY <2>1, <2>2
<1>7. FirstIn(c) = EntryAt(s, p0).clus
  <2>1. EntryAt(s, p0).clus = FirstIn(ch[p0]) \/ EntryAt(s, p0).clus = 0
    BY <1>4, <1>5 DEF Owned, Leading
  <2> QED BY <2>1 DEF FirstIn
<1> HIDE DEF c, c2
<1>8. \A d \in Dirs(s, ch) : c2[d] = ch[d]
  <2>1. p0 \notin Dirs(s, ch)
    BY <1>1, <1>5 DEF Dirs
  <2> QED BY <1>3, <2>1, DirsAreOwners
<1>9. c2[Top] = ch[Top] /\ Dirs(s, c2) = Dirs(s, ch)
  BY <1>1, <1>3, EntryFacts DEF Dirs, In
<1>10. \A d \in Dirs(s, ch) : \A p : In(c2, d, p) <=> In(ch, d, p)
  BY <1>8 DEF In
<1>11. Apart(c2)
  <2>1. \A p \in Owners : c2[p] = ch[p] \/ DOMAIN c2[p] = {}
    BY <1>2, <1>3
  <2> QED BY <2>1 DEF Owned, Apart
<1>12. Spelt(f, c2, x)
  <2>1. \A p \in Owners : c2[p] = ch[p] \/ DOMAIN c2[p] = {}
    BY <1>2, <1>3
  <2> QED BY <2>1 DEF Owned, Spelt
<1>13. Listing(s, c2)
  <2>1. \A p \in Position : c2[p] # <<>> => ch[p] # <<>>
    BY <1>2, <1>3, EntryFacts
  <2> QED BY <1>9, <1>10, <2>1 DEF Owned, Listing
<1>14. Leading(s, NoHandle, c2)
  <2>1. SUFFICES ASSUME NEW d \in Dirs(s, ch), NEW p \in Position, In(ch, d, p)
        PROVE  /\ EntryAt(s, p).name # "data"
               /\ Used(s, p) =>
                  /\ EntryAt(s, p).clus = FirstIn(c2[p])
                  /\ EntryAt(s, p).isdir => d = Top /\ c2[p] # <<>>
    BY <1>9, <1>10 DEF Leading
  <2>2. /\ EntryAt(s, p).name # "data"
        /\ Used(s, p) =>
              /\ EntryAt(s, p).clus = FirstIn(ch[p]) \/ p = p0
              /\ EntryAt(s, p).isdir => d = Top /\ ch[p] # <<>>
    BY <2>1 DEF Owned, Leading
  <2>3. p \in Owners
    BY EntryFacts
  <2> QED BY <1>3, <1>5, <1>7, <2>2, <2>3
<1>15. Ended(s, c2)
  <2>1. SUFFICES ASSUME NEW d \in Dirs(s, ch), NEW k \in DOMAIN c2[d], NEW l \in DOMAIN c2[d],
                        NEW t \in Slot, NEW u \in Slot, Before(k, t, l, u), s[c2[d][k]][t] = End
        PROVE  s[c2[d][l]][u] = End
    BY <1>9 DEF Ended
  <2>2. c2[d] = ch[d]
    BY <1>8
  <2>3. Ended(s, ch)
    BY DEF Owned
  <2> QED BY <2>1, <2>2, <2>3 DEF Ended
<1>16. Distinct(s, c2)
  BY <1>9, <1>10 DEF Owned, Distinct
<1>17. Writing(s, NoHandle, c2)
  BY DEF Writing, NoHandle
<1>18. Sized(s, c2)
  <2>1. \A p \in Position : c2[p] = ch[p] \/ c2[p] = <<>>
    BY <1>2, <1>3, EntryFacts
  <2> QED BY <2>1 DEF Owned, Sized
<1>19. Owned(f, s, NoHandle, c2, x)
  <2>1. ch[Top] # <<>> /\ ch[Top][1] = RootClus
    BY DEF Owned
  <2> QED BY <1>3, <1>9, <1>11, <1>12, <1>13, <1>14, <1>15, <1>16, <1>17, <1>18, <2>1 DEF Owned
<1> QED
  BY <1>2, <1>6, <1>19 DEF c2


\* A free cluster belongs to nobody.
Unowned(ch, c) == \A q \in Owners : \A i \in DOMAIN ch[q] : ch[q][i] # c

LEMMA FreeIsUnowned ==
  ASSUME NEW f, NEW s, NEW h, NEW ch, Owned(f, s, h, ch, Nobody),
         NEW c \in Clusters, f[c] = Free
  PROVE  Unowned(ch, c)
<1> SUFFICES ASSUME NEW q \in Owners, NEW i \in DOMAIN ch[q], ch[q][i] = c PROVE FALSE
  BY DEF Unowned
<1>1. ch[q] \in Seq(Clusters) /\ i \in 1 .. Len(ch[q]) /\ Len(ch[q]) \in Nat
  BY DEF Owned
<1>2. f[c] = LinkAfter(ch[q], i)
  BY EntryFacts DEF Owned, Spelt
<1>3. i # Len(ch[q]) => ch[q][i + 1] \in Clusters
  <2>1. i # Len(ch[q]) => i + 1 \in 1 .. Len(ch[q])
    BY <1>1
  <2> QED BY <1>1, <2>1
<1> QED
  BY <1>2, <1>3, VolumeFacts DEF LinkAfter

\* No chain has more clusters than there are.
LEMMA ChainFits ==
  ASSUME NEW ch \in [Owners -> Seq(Clusters)], Apart(ch), NEW p \in Owners
  PROVE  Len(ch[p]) \in Nat /\ Len(ch[p]) <= MaxCluster - 2
<1> DEFINE n == Len(ch[p])
<1>1. ch[p] \in Seq(Clusters) /\ n \in Nat /\ DOMAIN ch[p] = 1 .. n
  OBVIOUS
<1>2. IsFiniteSet(1 .. n) /\ Cardinality(1 .. n) = n
  <2>1. n >= 1 \/ n = 0
    BY <1>1
  <2>2. IsFiniteSet(1 .. n) /\ Cardinality(1 .. n) = IF 1 <= n THEN n - 1 + 1 ELSE 0
    BY <1>1, FS_Interval
  <2> QED BY <1>1, <2>1, <2>2
<1>3. IsFiniteSet(Clusters) /\ Cardinality(Clusters) = MaxCluster - 2
  <2>1. 2 <= MaxCluster - 1 /\ MaxCluster - 1 \in Int
    BY VolumeFacts
  <2>2. IsFiniteSet(2 .. MaxCluster - 1)
        /\ Cardinality(2 .. MaxCluster - 1) = IF 2 <= MaxCluster - 1 THEN MaxCluster - 1 - 2 + 1 ELSE 0
    BY <2>1, FS_Interval
  <2>3. MaxCluster - 1 - 2 + 1 = MaxCluster - 2
    BY VolumeFacts
  <2> QED BY <2>1, <2>2, <2>3 DEF Clusters
<1>4. ch[p] \in Injection(1 .. n, Clusters)
  <2>1. ch[p] \in [1 .. n -> Clusters]
    BY <1>1
  <2>2. \A i, j \in 1 .. n : ch[p][i] = ch[p][j] => i = j
    BY <1>1 DEF Apart
  <2> QED BY <2>1, <2>2 DEF Injection, IsInjective
<1>5. n <= MaxCluster - 2
  BY <1>2, <1>3, <1>4, FS_Injection
<1> QED
  BY <1>1, <1>5

\* While a file is being written its entry leads nowhere.
Pending(s, p) == Exact => EntryAt(s, p).clus = 0

\* A chain that may grow is that of a directory with no end marker, or of the file
\* being written.
MayGrow(s, h, ch, p, new) ==
  \/ /\ p \in Dirs(s, ch) /\ \A u \in Slot : s[new][u] = End
     /\ \A k \in DOMAIN ch[p], u \in Slot : s[ch[p][k]][u] # End
  \/ h.open /\ p = h.at /\ h.full /\ h.cur = Last(ch[p]) /\ Pending(s, p)

\* It grows by a cluster of nobody's.
LEMMA Extends ==
  ASSUME NEW f \in [Clusters -> Marks], NEW s, NEW h \in Handles, NEW ch, Owned(f, s, h, ch, Nobody),
         NEW p \in Owners, ch[p] # <<>>,
         NEW new \in Clusters, Unowned(ch, new), f[new] = Eoc, MayGrow(s, h, ch, p, new)
  PROVE  LET f2 == With(f, Last(ch[p]), new)
             ch2 == With(ch, p, Append(ch[p], new))
         IN  Owned(f2, s, h, ch2, Nobody) /\ Dirs(s, ch2) = Dirs(s, ch)
<1> DEFINE n == Len(ch[p])
           last == Last(ch[p])
           f2 == With(f, last, new)
           c == Append(ch[p], new)
           ch2 == With(ch, p, c)
           D == Dirs(s, ch)
<1>0. \/ /\ p \in Dirs(s, ch) /\ \A u \in Slot : s[new][u] = End
         /\ \A k \in DOMAIN ch[p], u \in Slot : s[ch[p][k]][u] # End
      \/ h.open /\ p = h.at /\ h.full /\ h.cur = Last(ch[p]) /\ Pending(s, p)
  BY DEF MayGrow
<1> USE <1>0
<1>1. ch \in [Owners -> Seq(Clusters)] /\ ch[p] \in Seq(Clusters) /\ n \in Nat \ {0}
      /\ DOMAIN ch[p] = 1 .. n
  <2>1. ch \in [Owners -> Seq(Clusters)]
    BY DEF Owned
  <2> QED BY <2>1
<1>2. c \in Seq(Clusters) /\ DOMAIN c = 1 .. n + 1 /\ Len(c) = n + 1 /\ c # <<>>
      /\ (\A i \in 1 .. n : c[i] = ch[p][i]) /\ c[n + 1] = new
  <2>1. c \in Seq(Clusters) /\ Len(c) = n + 1
        /\ \A i \in 1 .. n + 1 : c[i] = IF i = n + 1 THEN new ELSE ch[p][i]
    BY <1>1, AppendProperties
  <2> HIDE DEF c
  <2>2. DOMAIN c = 1 .. n + 1
    BY <2>1
  <2>3. \A i \in 1 .. n : i \in 1 .. n + 1 /\ i # n + 1
    BY <1>1
  <2>4. n + 1 \in 1 .. n + 1 /\ n + 1 # 0
    BY <1>1
  <2> QED BY <2>1, <2>2, <2>3, <2>4
<1>3. last = ch[p][n] /\ last \in Clusters /\ n \in DOMAIN ch[p]
  BY <1>1 DEF Last
<1> HIDE DEF n, last, c
<1>4. ch2 \in [Owners -> Seq(Clusters)] /\ ch2[p] = c /\ \A q \in Owners : q # p => ch2[q] = ch[q]
  BY <1>1, <1>2 DEF With
<1>5. f2[last] = new /\ \A d \in Clusters : d # last => f2[d] = f[d]
  BY <1>3 DEF With
<1> HIDE DEF ch2, f2
<1>6. ASSUME NEW q \in Owners, NEW i \in DOMAIN ch2[q]
      PROVE  \/ i \in DOMAIN ch[q] /\ ch2[q][i] = ch[q][i] /\ ch2[q][i] # new
             \/ q = p /\ i = n + 1 /\ ch2[q][i] = new
  <2>1. CASE q # p
    BY <1>4, <2>1 DEF Unowned
  <2>2. CASE q = p
    <3>1. i \in 1 .. n \/ i = n + 1
      BY <1>1, <1>2, <1>4, <2>2
    <3>2. CASE i \in 1 .. n
      BY <1>1, <1>2, <1>4, <2>2, <3>2 DEF Unowned
    <3>3. CASE i = n + 1
      BY <1>2, <1>4, <2>2, <3>3
    <3> QED BY <3>1, <3>2, <3>3
  <2> QED BY <2>1, <2>2
<1>7. Apart(ch2)
  <2> SUFFICES ASSUME NEW q \in Owners, NEW r \in Owners, NEW i \in DOMAIN ch2[q],
                      NEW j \in DOMAIN ch2[r], ch2[q][i] = ch2[r][j]
               PROVE  q = r /\ i = j
    BY DEF Apart
  <2>1. Apart(ch)
    BY DEF Owned
  <2>2. /\ \/ i \in DOMAIN ch[q] /\ ch2[q][i] = ch[q][i] /\ ch2[q][i] # new
           \/ q = p /\ i = n + 1 /\ ch2[q][i] = new
        /\ \/ j \in DOMAIN ch[r] /\ ch2[r][j] = ch[r][j] /\ ch2[r][j] # new
           \/ r = p /\ j = n + 1 /\ ch2[r][j] = new
    BY <1>6
  <2> QED BY <2>1, <2>2 DEF Apart
<1>8. Spelt(f2, ch2, Nobody)
  <2> SUFFICES ASSUME NEW q \in Owners, NEW i \in DOMAIN ch2[q]
               PROVE  f2[ch2[q][i]] = LinkAfter(ch2[q], i)
    BY DEF Spelt
  <2>1. CASE i \in DOMAIN ch[q] /\ ch2[q][i] = ch[q][i] /\ ch2[q][i] # new
    <3>1. f[ch[q][i]] = LinkAfter(ch[q], i)
      BY <2>1, EntryFacts DEF Owned, Spelt
    <3>2. ch[q][i] \in Clusters /\ ch[q] \in Seq(Clusters) /\ i \in 1 .. Len(ch[q]) /\ Len(ch[q]) \in Nat
      BY <1>1, <2>1
    <3>3. CASE ch[q][i] = last
      <4>1. q = p /\ i = n
        BY <1>3, <2>1, <3>3 DEF Owned, Apart
      <4>2. LinkAfter(ch2[q], i) = new
        BY <1>1, <1>2, <1>4, <4>1 DEF LinkAfter
      <4> QED BY <1>5, <2>1, <3>3, <4>2
    <3>4. CASE ch[q][i] # last
      <4>1. f2[ch2[q][i]] = f[ch[q][i]]
        BY <1>5, <2>1, <3>2, <3>4
      <4>2. LinkAfter(ch2[q], i) = LinkAfter(ch[q], i)
        <5>1. CASE q # p
          BY <1>4, <5>1
        <5>2. CASE q = p
          <6>1. i # n /\ i \in 1 .. n
            BY <1>1, <1>3, <2>1, <3>4, <5>2
          <6>2. i + 1 \in 1 .. n /\ i # n + 1
            BY <1>1, <6>1
          <6>3. c[i + 1] = ch[p][i + 1]
            BY <1>2, <6>2
          <6>4. Len(ch[p]) = n
            BY DEF n
          <6> QED BY <1>2, <1>4, <5>2, <6>1, <6>2, <6>3, <6>4 DEF LinkAfter
        <5> QED BY <5>1, <5>2
      <4> QED BY <3>1, <4>1, <4>2
    <3> QED BY <3>3, <3>4
  <2>2. CASE q = p /\ i = n + 1 /\ ch2[q][i] = new
    <3>1. new # last
      BY <1>3 DEF Unowned
    <3>2. f2[new] = Eoc
      BY <1>5, <3>1
    <3> QED BY <1>2, <1>4, <2>2, <3>2 DEF LinkAfter
  <2> QED BY <1>6, <2>1, <2>2
<1>9. p \in Dirs(s, ch) => (\A q : q[1] = new /\ q \in Position => EntryAt(s, q) = End /\ ~ Used(s, q))
  <2> SUFFICES ASSUME p \in Dirs(s, ch), NEW q \in Position, q[1] = new
               PROVE  EntryAt(s, q) = End /\ ~ Used(s, q)
    OBVIOUS
  <2>1. ~ (h.open /\ p = h.at)
    BY EntryFacts DEF Owned, Writing, Dirs, Handles
  <2>2. s[new][q[2]] = End
    BY <2>1, EntryFacts
  <2> QED BY <2>2, EntryFacts, NameFacts DEF EntryAt, Used
<1>10. /\ D \subseteq Owners /\ Top \in D
  BY DirsAreOwners
<1>11. ASSUME NEW d \in D, NEW q \in Position
       PROVE  In(ch2, d, q) <=> In(ch, d, q) \/ (d = p /\ q[1] = new)
  <2>1. CASE d # p
    BY <1>4, <1>10, <2>1 DEF In
  <2>2. CASE d = p
    <3>1. In(ch2, d, q) <=> \E k \in 1 .. n + 1 : q[1] = c[k]
      BY <1>2, <1>4, <2>2 DEF In
    <3>2. In(ch, d, q) <=> \E k \in 1 .. n : q[1] = ch[p][k]
      BY <1>1, <2>2 DEF In
    <3>3. (\E k \in 1 .. n + 1 : q[1] = c[k]) <=> (\E k \in 1 .. n : q[1] = c[k]) \/ q[1] = c[n + 1]
      <4>1. \A k \in 1 .. n + 1 : k \in 1 .. n \/ k = n + 1
        BY <1>1
      <4>2. \A k \in 1 .. n : k \in 1 .. n + 1
        BY <1>1
      <4>3. n + 1 \in 1 .. n + 1
        BY <1>1
      <4> QED BY <4>1, <4>2, <4>3
    <3> QED BY <1>2, <2>2, <3>1, <3>2, <3>3
  <2> QED BY <2>1, <2>2
<1>12. Dirs(s, ch2) = D
  <2>1. \A q \in Position : In(ch2, Top, q) /\ Used(s, q) <=> In(ch, Top, q) /\ Used(s, q)
    BY <1>9, <1>10, <1>11
  <2> QED BY <2>1 DEF Dirs
<1> HIDE DEF D
<1>13. Listing(s, ch2)
  <2> SUFFICES ASSUME NEW q \in Position, ch2[q] # <<>>
               PROVE  \E d \in D : In(ch2, d, q) /\ Used(s, q)
    BY <1>12 DEF Listing
  <2>1. ch[q] # <<>>
    BY <1>4, EntryFacts
  <2>2. PICK d \in D : In(ch, d, q) /\ Used(s, q)
    BY <2>1 DEF Owned, Listing, D
  <2> QED BY <1>11, <2>2
<1>14. \A q \in Owners : FirstIn(ch2[q]) = FirstIn(ch[q]) /\ (ch[q] # <<>> => ch2[q] # <<>>)
  <2>1. c[1] = ch[p][1]
    BY <1>1, <1>2
  <2>2. \A q \in Owners : q # p => FirstIn(ch2[q]) = FirstIn(ch[q])
    BY <1>4
  <2>3. FirstIn(ch2[p]) = FirstIn(ch[p])
    BY <1>2, <1>4, <2>1 DEF FirstIn
  <2> QED BY <1>2, <1>4, <2>2, <2>3
<1>15. Leading(s, h, ch2)
  <2> SUFFICES ASSUME NEW d \in D, NEW q \in Position, In(ch2, d, q)
               PROVE  /\ EntryAt(s, q).name # "data"
                      /\ Used(s, q) =>
                          /\ EntryAt(s, q).clus = FirstIn(ch2[q])
                             \/ (h.open /\ q = h.at /\ EntryAt(s, q).clus = 0)
                          /\ EntryAt(s, q).isdir => d = Top /\ ch2[q] # <<>>
    BY <1>12 DEF Leading
  <2>1. CASE In(ch, d, q)
    <3>1. /\ EntryAt(s, q).name # "data"
          /\ Used(s, q) =>
                          /\ EntryAt(s, q).clus = FirstIn(ch[q])
                             \/ (h.open /\ q = h.at /\ EntryAt(s, q).clus = 0)
                          /\ EntryAt(s, q).isdir => d = Top /\ ch[q] # <<>>
      BY <2>1 DEF Owned, Leading, D
    <3>2. q \in Owners
      BY EntryFacts
    <3> QED BY <1>14, <3>1, <3>2
  <2>2. CASE d = p /\ q[1] = new
    <3>1. EntryAt(s, q) = End /\ ~ Used(s, q)
      BY <1>9, <2>2 DEF D
    <3> QED BY <3>1, EntryFacts
  <2> QED BY <1>11, <2>1, <2>2
<1>16. Ended(s, ch2)
  <2> SUFFICES ASSUME NEW d \in D, NEW k \in DOMAIN ch2[d], NEW l \in DOMAIN ch2[d],
                      NEW t \in Slot, NEW u \in Slot, Before(k, t, l, u), s[ch2[d][k]][t] = End
               PROVE  s[ch2[d][l]][u] = End
    BY <1>12 DEF Ended
  <2>1. Ended(s, ch)
    BY DEF Owned
  <2>2. CASE d # p
    <3>1. ch2[d] = ch[d]
      BY <1>4, <1>10, <2>2 DEF D
    <3> QED BY <2>1, <3>1 DEF Ended, D
  <2>3. CASE d = p
    <3>1. ~ (h.open /\ p = h.at)
      BY <2>3, EntryFacts DEF Owned, Writing, Dirs, Handles, D
    <3>2. (\A v \in Slot : s[new][v] = End) /\ \A m \in DOMAIN ch[p], v \in Slot : s[ch[p][m]][v] # End
      BY <3>1
    <3>3. k \in 1 .. n + 1 /\ l \in 1 .. n + 1
      BY <1>2, <1>4, <2>3
    <3>4. ~ (k \in 1 .. n)
      BY <1>1, <1>2, <1>4, <2>3, <3>2
    <3>5. l = n + 1
      BY <1>1, <3>3, <3>4 DEF Before
    <3> QED BY <1>2, <1>4, <2>3, <3>2, <3>5
  <2> QED BY <2>2, <2>3
<1>17. Distinct(s, ch2)
  <2> SUFFICES ASSUME NEW d \in D, NEW q \in Position, NEW r \in Position, In(ch2, d, q),
                      In(ch2, d, r), Used(s, q), EntryAt(s, q).name = EntryAt(s, r).name
               PROVE  q = r
    BY <1>12 DEF Distinct
  <2>1. Used(s, r)
    BY DEF Used
  <2>2. In(ch, d, q) /\ In(ch, d, r)
    BY <1>9, <1>11, <2>1 DEF D
  <2> QED BY <2>2 DEF Owned, Distinct, D
<1>18. Writing(s, h, ch2)
  <2>1. CASE ~ h.open
    BY <2>1 DEF Owned, Writing
  <2>2. CASE h.open
    <3>1. /\ \E d \in D : In(ch, d, h.at)
          /\ Used(s, h.at) /\ ~ EntryAt(s, h.at).isdir
          /\ h.first = FirstIn(ch[h.at]) /\ InPlace(h, ch[h.at])
      BY <2>2 DEF Owned, Writing, D
    <3>2. h.at \in Position /\ h.at \in Owners
      BY EntryFacts DEF Handles
    <3>3. \E d \in D : In(ch2, d, h.at)
      BY <1>11, <3>1, <3>2
    <3>4. h.first = FirstIn(ch2[h.at])
      BY <1>14, <3>1, <3>2
    <3>5. InPlace(h, ch2[h.at])
      <4>1. CASE h.at # p
        BY <1>4, <3>1, <3>2, <4>1
      <4>2. CASE h.at = p
        <5>1. p \notin Dirs(s, ch)
          BY <3>1, <3>2, <4>2, EntryFacts DEF Dirs
        <5>2. h.full /\ h.cur = last
          BY <5>1 DEF last
        <5>3. PICK k \in DOMAIN ch[p] : h.cur = ch[p][k] /\ h.size = (IF h.full THEN k ELSE k - 1)
          BY <3>1, <4>2 DEF InPlace
        <5>4. k = n
          <6>1. p \in Owners /\ ch[p][k] = ch[p][n]
            BY <1>3, <5>2, <5>3
          <6> QED BY <1>3, <6>1 DEF Owned, Apart
        <5>5. h.cur = c[n] /\ h.size = n /\ n \in DOMAIN c /\ n = Len(c) - 1
          BY <1>1, <1>2, <5>2, <5>3, <5>4
        <5>6. InPlace(h, c)
          BY <1>2, <5>2, <5>5 DEF InPlace
        <5> QED BY <1>4, <4>2, <5>6
      <4> QED BY <4>1, <4>2
    <3> QED BY <1>12, <2>2, <3>1, <3>3, <3>4, <3>5 DEF Writing
  <2> QED BY <2>1, <2>2
<1>19. ch2[Top] # <<>> /\ ch2[Top][1] = RootClus
  <2>1. ch[Top] # <<>> /\ ch[Top][1] = RootClus /\ Top \in Owners
    BY EntryFacts DEF Owned
  <2>2. FirstIn(ch2[Top]) = FirstIn(ch[Top]) /\ ch2[Top] # <<>>
    BY <1>14, <2>1
  <2> QED BY <2>1, <2>2 DEF FirstIn
<1>20. Sized(s, ch2)
  <2>1. Sized(s, ch)
    BY DEF Owned
  <2>2. \A q \in Position : q # p => ch2[q] = ch[q]
    BY <1>4, EntryFacts
  <2>3. p \in Position => EntryAt(s, p).isdir \/ (Exact => EntryAt(s, p).clus = 0)
    BY <1>0, EntryFacts DEF Dirs, Pending
  <2> QED BY <2>1, <2>2, <2>3 DEF Sized
<1>21. Owned(f2, s, h, ch2, Nobody)
  BY <1>4, <1>7, <1>8, <1>13, <1>15, <1>16, <1>17, <1>18, <1>19, <1>20 DEF Owned
<1> QED
  BY <1>12, <1>21 DEF f2, ch2, c, last, D

\* Sector p[1] of s with entry e in its slot p[2]
Put(s, p, e) == [s EXCEPT ![p[1]][p[2]] = e]

LEMMA PutIs ==
  ASSUME NEW s \in [Clusters -> [Slot -> Entries]], NEW p \in Position, NEW e \in Entries
  PROVE  /\ Put(s, p, e) \in [Clusters -> [Slot -> Entries]]
         /\ EntryAt(Put(s, p, e), p) = e
         /\ \A q \in Position : q # p => EntryAt(Put(s, p, e), q) = EntryAt(s, q)
<1> DEFINE c == p[1]
           t == p[2]
           s2 == [s EXCEPT ![c] = [s[c] EXCEPT ![t] = e]]
<1>1. c \in Clusters /\ t \in Slot /\ p = <<c, t>>
  BY EntryFacts
<1> HIDE DEF c, t
<1>2. s2 \in [Clusters -> [Slot -> Entries]]
  BY <1>1
<1>3. s2[c][t] = e
  BY <1>1
<1>4. \A d \in Clusters, u \in Slot : <<d, u>> # <<c, t>> => s2[d][u] = s[d][u]
  BY <1>1
<1>5. \A q \in Position : q # p => s2[q[1]][q[2]] = s[q[1]][q[2]]
  BY <1>1, <1>4, EntryFacts
<1>6. Put(s, p, e) = s2
  BY DEF Put, c, t
<1> HIDE DEF s2
<1> QED
  BY <1>1, <1>2, <1>3, <1>5, <1>6 DEF EntryAt, c, t


\* An entry is written at place p of directory d0, and its chain becomes c.
LEMMA EntryPut ==
  ASSUME NEW f, NEW s \in [Clusters -> [Slot -> Entries]], NEW h \in Handles, NEW ch, NEW x,
         Owned(f, s, h, ch, x),
         NEW p \in Position, NEW d0 \in Dirs(s, ch), In(ch, d0, p), NEW e \in Entries, NEW c \in Seq(Clusters),
         Apart(With(ch, p, c)), Spelt(f, With(ch, p, c), Nobody),
         e # End, e.name # "data", c # <<>> => e.name \in Names,
         e.name \in Names =>
           /\ e.clus = FirstIn(c) \/ (h.open /\ p = h.at /\ e.clus = 0)
           /\ e.isdir => d0 = Top /\ c # <<>>
           /\ \A q \in Position : In(ch, d0, q) /\ q # p => EntryAt(s, q).name # e.name,
         \* the marker
         \A q \in Position : In(ch, d0, q) /\ EntryAt(s, q) = End /\ EntryAt(s, p) = End =>
           \E k, l \in DOMAIN ch[d0] :
              p[1] = ch[d0][k] /\ q[1] = ch[d0][l] /\ ~ Before(l, q[2], k, p[2]),
         \* what is, was or becomes a directory
         p \in Dirs(s, ch) =>
           \/ c = ch[p] /\ e.name \in Names /\ e.isdir
           \/ \A q \in Position : In(ch, p, q) => ~ Used(s, q),
         e.name \in Names /\ e.isdir =>
           \/ c = ch[p] /\ p \in Dirs(s, ch)
           \/ /\ \A i \in DOMAIN c, u \in Slot :
                    s[c[i]][u].name # "data" /\ s[c[i]][u].name \notin Names
              /\ \A k, l \in DOMAIN c, t, u \in Slot :
                    Before(k, t, l, u) /\ s[c[k]][t] = End => s[c[l]][u] = End,
         h.open /\ h.at = p => e.name \in Names /\ ~ e.isdir /\ c = ch[p],
         Exact /\ c # <<>> /\ ~ e.isdir /\ e.clus # 0 => e.size = Len(c)
  PROVE  Owned(f, Put(s, p, e), h, With(ch, p, c), Nobody)
<1> DEFINE s2 == Put(s, p, e)
           ch2 == With(ch, p, c)
           D == Dirs(s, ch)
           D2 == Dirs(s2, ch2)
<1>1. /\ ch \in [Owners -> Seq(Clusters)] /\ p \in Owners /\ p # Top /\ Top \in Owners
      /\ Apart(ch) /\ Apart(ch2)
  BY EntryFacts DEF Owned
<1>2. EntryAt(s2, p) = e /\ \A q \in Position : q # p => EntryAt(s2, q) = EntryAt(s, q)
  BY PutIs
<1>3. ch2 \in [Owners -> Seq(Clusters)] /\ ch2[p] = c /\ \A q \in Owners : q # p => ch2[q] = ch[q]
  BY <1>1 DEF With
<1> HIDE DEF s2, ch2
<1>4. \A q \in Position : q # p => (Used(s2, q) <=> Used(s, q))
  BY <1>2 DEF Used
<1>5. Used(s2, p) <=> e.name \in Names
  BY <1>2 DEF Used
<1>6. D \subseteq Owners /\ Top \in D /\ D2 \subseteq Owners /\ Top \in D2
  BY DirsAreOwners
<1>7. \A q : In(ch2, Top, q) <=> In(ch, Top, q)
  BY <1>1, <1>3 DEF In
<1>8. \A q \in Owners : q # p => (q \in D2 <=> q \in D)
  <2> SUFFICES ASSUME NEW q \in Owners, q # p PROVE q \in D2 <=> q \in D
    OBVIOUS
  <2>1. q = Top \/ q \in Position
    BY DEF Owners
  <2>2. CASE q = Top
    BY <1>6, <2>2
  <2>3. CASE q \in Position
    BY <1>2, <1>4, <1>7, <2>3, EntryFacts DEF Dirs
  <2> QED BY <2>1, <2>2, <2>3
<1>9. p \in D2 => e.name \in Names /\ e.isdir
  BY <1>1, <1>2, <1>5 DEF Dirs
<1>9a. p # d0 /\ d0 \in Owners /\ d0 \in D2
  <2>1. d0 \in Owners
    BY <1>6
  <2>2. p # d0
    <3>1. SUFFICES ASSUME p = d0 PROVE FALSE
      OBVIOUS
    <3>2. In(ch, Top, p)
      BY <1>1, <3>1 DEF Dirs
    <3>3. p = Top
      BY <1>1, <3>1, <3>2, OneDirectory
    <3> QED BY <1>1, <3>3
  <2> QED BY <1>8, <2>1, <2>2
<1>9b. e.name \in Names /\ e.isdir => p \in D2
  <2> SUFFICES ASSUME e.name \in Names, e.isdir PROVE p \in D2
    OBVIOUS
  <2>1. In(ch2, Top, p)
    BY <1>7
  <2> QED BY <1>2, <1>5, <2>1 DEF Dirs
<1> HIDE DEF D, D2
<1>10. \A d \in D2 : d # p => d \in D /\ ch2[d] = ch[d] /\ \A q : In(ch2, d, q) <=> In(ch, d, q)
  BY <1>3, <1>6, <1>8 DEF In
\* In a directory that p became, and in what it was before
<1>11. ASSUME p \in D2, NEW q \in Position, In(ch2, p, q)
       PROVE  /\ q # p /\ EntryAt(s2, q) = EntryAt(s, q)
              /\ \/ c = ch[p] /\ p \in D /\ In(ch, p, q)
                 \/ EntryAt(s, q).name # "data" /\ ~ Used(s, q)
  <2>1. q # p
    <3>1. SUFFICES ASSUME q = p PROVE FALSE
      OBVIOUS
    <3>2. In(ch2, d0, p)
      BY <1>9a, <1>10
    <3>3. p = d0
      BY <1>1, <1>9a, <1>11, <3>1, <3>2, OneDirectory
    <3> QED BY <1>9a, <3>3
  <2>2. CASE c = ch[p] /\ p \in Dirs(s, ch)
    <3>1. In(ch, p, q)
      BY <1>3, <1>11, <2>2 DEF In
    <3> QED BY <1>2, <2>1, <2>2, <3>1 DEF D
  <2>3. CASE \A i \in DOMAIN c, u \in Slot :
                    s[c[i]][u].name # "data" /\ s[c[i]][u].name \notin Names
    <3>1. PICK i \in DOMAIN c : q[1] = c[i]
      BY <1>3, <1>11 DEF In
    <3>2. q[2] \in Slot
      BY EntryFacts
    <3>3. EntryAt(s, q).name # "data" /\ EntryAt(s, q).name \notin Names
      BY <2>3, <3>1, <3>2 DEF EntryAt
    <3> QED BY <1>2, <2>1, <3>3 DEF Used
  <2> QED BY <1>9, <1>11, <2>2, <2>3
<1>12. Listing(s2, ch2)
  <2> SUFFICES ASSUME NEW q \in Position, ch2[q] # <<>>
               PROVE  \E d \in D2 : In(ch2, d, q) /\ Used(s2, q)
    BY DEF Listing, D2
  <2>1. CASE q = p
    <3>1. Used(s2, p)
      BY <1>3, <1>5, <2>1
    <3>2. In(ch2, d0, p)
      BY <1>9a, <1>10
    <3> QED BY <1>9a, <2>1, <3>1, <3>2
  <2>2. CASE q # p
    <3>1. ch[q] # <<>>
      BY <1>3, <2>2, EntryFacts
    <3>2. PICK d \in D : In(ch, d, q) /\ Used(s, q)
      BY <3>1 DEF Owned, Listing, D
    <3>3. CASE d # p
      <4>1. d \in D2
        BY <1>6, <1>8, <3>3
      <4> QED BY <1>4, <1>10, <2>2, <3>2, <3>3, <4>1
    <3>4. CASE d = p
      <4>1. c = ch[p] /\ e.name \in Names /\ e.isdir
        BY <3>2, <3>4 DEF D
      <4>2. p \in D2
        BY <1>9b, <4>1
      <4>3. In(ch2, p, q)
        BY <1>3, <3>2, <3>4, <4>1 DEF In
      <4> QED BY <1>4, <2>2, <3>2, <4>2, <4>3
    <3> QED BY <3>3, <3>4
  <2> QED BY <2>1, <2>2
<1>13. Leading(s2, h, ch2)
  <2> SUFFICES ASSUME NEW d \in D2, NEW q \in Position, In(ch2, d, q)
               PROVE  /\ EntryAt(s2, q).name # "data"
                      /\ Used(s2, q) =>
                          /\ EntryAt(s2, q).clus = FirstIn(ch2[q])
                             \/ (h.open /\ q = h.at /\ EntryAt(s2, q).clus = 0)
                          /\ EntryAt(s2, q).isdir => d = Top /\ ch2[q] # <<>>
    BY DEF Leading, D2
  <2>1. CASE q = p
    <3>1. d = d0
      <4>1. In(ch2, d0, p)
        BY <1>9a, <1>10
      <4> QED BY <1>1, <1>6, <1>9a, <2>1, <4>1, OneDirectory
    <3>2. CASE e.name \notin Names
      BY <1>2, <1>5, <2>1, <3>2
    <3>3. CASE e.name \in Names
      BY <1>2, <1>3, <2>1, <3>1, <3>3
    <3> QED BY <3>2, <3>3
  <2>2. CASE q # p
    <3>1. EntryAt(s2, q) = EntryAt(s, q) /\ (Used(s2, q) <=> Used(s, q)) /\ ch2[q] = ch[q]
      BY <1>2, <1>3, <1>4, <2>2, EntryFacts
    <3>2. CASE d \in D /\ In(ch, d, q)
      BY <3>1, <3>2 DEF Owned, Leading, D
    <3>3. CASE ~ (d \in D /\ In(ch, d, q))
      <4>1. d = p
        BY <1>10, <3>3
      <4>2. EntryAt(s, q).name # "data" /\ ~ Used(s, q)
        BY <1>11, <3>3, <4>1
      <4> QED BY <3>1, <4>2
    <3> QED BY <3>2, <3>3
  <2> QED BY <2>1, <2>2
<1>14. Ended(s2, ch2)
  <2> SUFFICES ASSUME NEW d \in D2, NEW k \in DOMAIN ch2[d], NEW l \in DOMAIN ch2[d],
                      NEW t \in Slot, NEW u \in Slot, Before(k, t, l, u), s2[ch2[d][k]][t] = End
               PROVE  s2[ch2[d][l]][u] = End
    BY DEF Ended, D2
  <2> DEFINE a == <<ch2[d][k], t>>
             b == <<ch2[d][l], u>>
  <2>0. ch2[d] \in Seq(Clusters) /\ ch2[d][k] \in Clusters /\ ch2[d][l] \in Clusters
    <3>1. ch2[d] \in Seq(Clusters)
      BY <1>3, <1>6
    <3> QED BY <3>1
  <2>1. a \in Position /\ b \in Position /\ a[1] = ch2[d][k] /\ a[2] = t /\ b[1] = ch2[d][l] /\ b[2] = u
    BY <2>0, EntryFacts
  <2>2. EntryAt(s2, a) = End /\ In(ch2, d, a) /\ In(ch2, d, b)
    BY <2>1 DEF EntryAt, In
  <2> HIDE DEF a, b
  <2>3. a # p
    BY <1>2, <2>2
  <2>4. EntryAt(s, a) = End
    BY <1>2, <2>1, <2>2, <2>3
  <2>5. CASE d # p
    <3>1. d \in D /\ ch2[d] = ch[d] /\ In(ch, d, a) /\ In(ch, d, b)
      BY <1>10, <2>2, <2>5
    <3>2. EntryAt(s, b) = End
      <4>1. s[ch[d][k]][t] = End /\ k \in DOMAIN ch[d] /\ l \in DOMAIN ch[d]
        BY <2>1, <2>4, <3>1 DEF EntryAt
      <4>2. Ended(s, ch)
        BY DEF Owned
      <4>3. s[ch[d][l]][u] = End
        BY <3>1, <4>1, <4>2 DEF Ended, D
      <4> QED BY <2>1, <3>1, <4>3 DEF EntryAt
    <3>3. b # p
      <4>1. SUFFICES ASSUME b = p PROVE FALSE
        OBVIOUS
      <4>2. d = d0
        BY <1>1, <1>6, <1>9a, <3>1, <4>1, OneDirectory
      <4>3. PICK k2, l2 \in DOMAIN ch[d0] :
              p[1] = ch[d0][k2] /\ a[1] = ch[d0][l2] /\ ~ Before(l2, a[2], k2, p[2])
        BY <2>1, <2>4, <3>1, <3>2, <4>1, <4>2
      <4>4. k2 = l /\ l2 = k
        BY <1>1, <1>9a, <2>1, <3>1, <4>1, <4>2, <4>3 DEF Apart
      <4> QED BY <2>1, <4>1, <4>3, <4>4
    <3> QED BY <1>2, <2>1, <3>2, <3>3 DEF EntryAt
  <2>6. CASE d = p
    <3>1. b # p /\ EntryAt(s2, b) = EntryAt(s, b)
      BY <1>11, <2>1, <2>2, <2>6
    <3>2. CASE c = ch[p] /\ p \in Dirs(s, ch)
      <4>1. Ended(s, ch)
        BY DEF Owned
      <4>2. ch2[d] = ch[d]
        BY <1>3, <2>6, <3>2
      <4>3. s[ch[d][l]][u] = End
        BY <2>1, <2>4, <2>6, <3>2, <4>1, <4>2 DEF Ended, EntryAt
      <4> QED BY <2>1, <3>1, <4>2, <4>3 DEF EntryAt
    <3>3. CASE \A m, n \in DOMAIN c, v, w \in Slot :
                    Before(m, v, n, w) /\ s[c[m]][v] = End => s[c[n]][w] = End
      <4>1. s[c[l]][u] = End
        BY <1>3, <2>1, <2>4, <2>6, <3>3 DEF EntryAt
      <4> QED BY <1>3, <2>1, <2>6, <3>1, <4>1 DEF EntryAt
    <3> QED BY <1>9, <2>6, <3>2, <3>3
  <2> QED BY <2>5, <2>6
<1>15. Distinct(s2, ch2)
  <2> SUFFICES ASSUME NEW d \in D2, NEW q \in Position, NEW r \in Position, In(ch2, d, q),
                      In(ch2, d, r), Used(s2, q), EntryAt(s2, q).name = EntryAt(s2, r).name
               PROVE  q = r
    BY DEF Distinct, D2
  <2>1. Used(s2, r)
    BY DEF Used
  <2>2. CASE d = d0
    <3>1. d \in D /\ In(ch, d, q) /\ In(ch, d, r)
      BY <1>9a, <1>10, <2>2
    <3>2. CASE q = p /\ r # p
      BY <1>2, <1>5, <2>2, <3>1, <3>2
    <3>3. CASE q # p /\ r = p
      BY <1>2, <1>5, <2>1, <2>2, <3>1, <3>3
    <3>4. CASE q # p /\ r # p
      <4>1. Used(s, q) /\ EntryAt(s, q).name = EntryAt(s, r).name
        BY <1>2, <1>4, <3>4
      <4> QED BY <3>1, <4>1 DEF Owned, Distinct, D
    <3> QED BY <3>2, <3>3, <3>4
  <2>3. CASE d # d0 /\ d # p
    <3>1. d \in D /\ In(ch, d, q) /\ In(ch, d, r)
      BY <1>10, <2>3
    <3>2. q # p /\ r # p
      BY <1>1, <1>6, <1>9a, <2>3, <3>1, OneDirectory
    <3>3. Used(s, q) /\ EntryAt(s, q).name = EntryAt(s, r).name
      BY <1>2, <1>4, <3>2
    <3> QED BY <3>1, <3>3 DEF Owned, Distinct, D
  <2>4. CASE d = p
    <3>1. q # p /\ r # p /\ EntryAt(s2, q) = EntryAt(s, q) /\ EntryAt(s2, r) = EntryAt(s, r)
      BY <1>11, <2>4
    <3>2. Used(s, q)
      BY <1>4, <3>1
    <3>3. Used(s, r)
      BY <1>4, <2>1, <3>1
    <3>4. p \in D /\ In(ch, p, q) /\ In(ch, p, r)
      BY <1>11, <2>4, <3>2, <3>3
    <3> QED BY <3>1, <3>2, <3>4 DEF Owned, Distinct, D
  <2> QED BY <2>2, <2>3, <2>4
<1>16. Writing(s2, h, ch2)
  <2>1. CASE ~ h.open
    BY <2>1 DEF Owned, Writing
  <2>2. CASE h.open
    <3>1. PICK d \in D : In(ch, d, h.at)
      BY <2>2 DEF Owned, Writing, D
    <3>2. /\ Used(s, h.at) /\ ~ EntryAt(s, h.at).isdir
          /\ h.first = FirstIn(ch[h.at]) /\ InPlace(h, ch[h.at])
      BY <2>2 DEF Owned, Writing
    <3>3. h.at \in Position /\ h.at \in Owners
      BY EntryFacts DEF Handles
    <3>4. Used(s2, h.at) /\ ~ EntryAt(s2, h.at).isdir /\ ch2[h.at] = ch[h.at]
      <4>1. CASE h.at = p
        BY <1>2, <1>3, <1>5, <2>2, <4>1
      <4>2. CASE h.at # p
        BY <1>2, <1>3, <1>4, <3>2, <3>3, <4>2
      <4> QED BY <4>1, <4>2
    <3>5. \E g \in D2 : In(ch2, g, h.at)
      <4>1. CASE d # p
        <5>1. d \in D2
          BY <1>6, <1>8, <4>1
        <5> QED BY <1>10, <3>1, <4>1, <5>1
      <4>2. CASE d = p
        <5>1. c = ch[p] /\ e.name \in Names /\ e.isdir
          BY <3>1, <3>2, <3>3, <4>2 DEF D
        <5> QED BY <1>3, <1>9b, <3>1, <4>2, <5>1 DEF In
      <4> QED BY <4>1, <4>2
    <3> QED BY <2>2, <3>2, <3>4, <3>5 DEF Writing, D2
  <2> QED BY <2>1, <2>2
<1>17. ch2[Top] # <<>> /\ ch2[Top][1] = RootClus
  BY <1>1, <1>3 DEF Owned
<1>18. Spelt(f, ch2, Nobody)
  BY DEF ch2
<1>19. Sized(s2, ch2)
  <2>1. Sized(s, ch)
    BY DEF Owned
  <2>2. \A q \in Position : q # p => ch2[q] = ch[q] /\ EntryAt(s2, q) = EntryAt(s, q)
    BY <1>2, <1>3, EntryFacts
  <2> QED BY <1>2, <1>3, <2>1, <2>2 DEF Sized
<1>20. Owned(f, s2, h, ch2, Nobody)
  BY <1>1, <1>3, <1>12, <1>13, <1>14, <1>15, <1>16, <1>17, <1>18, <1>19 DEF Owned
<1> QED
  BY <1>20 DEF s2, ch2

-----------------------------------------------------------------------------
(* Runs of steps. *)

\* A machine is a card with a handle, and who owns what on it.
Machines ==
  [fat : [Copies -> [Clusters -> Marks]], sect : [Clusters -> [Slot -> Entries]],
   hdl : Handles, ch : [Owners -> Seq(Clusters)]]
Machine(f, s, h, ch) == [fat |-> f, sect |-> s, hdl |-> h, ch |-> ch]
Sound(x) == {m \in Machines : Owned(m.fat[1], m.sect, m.hdl, m.ch, x)}

Steps ==
  [do : {"fat"}, copy : Copies, clus : Clusters, val : Marks]
    \cup [do : {"sect"}, clus : Clusters, as : [Slot -> Entries]]
    \cup [do : {"slot"}, at : Position, entry : Entries]
    \cup [do : {"handle"}, h : Handles]

\* What the step st makes of the machine m, but for the owners
Goes(m, st, n) ==
  /\ n.fat = IF st.do = "fat" THEN [m.fat EXCEPT ![st.copy][st.clus] = st.val] ELSE m.fat
  /\ n.sect = CASE st.do = "sect" -> [m.sect EXCEPT ![st.clus] = st.as]
                [] st.do = "slot" -> [m.sect EXCEPT ![st.at[1]][st.at[2]] = st.entry]
                [] OTHER -> m.sect
  /\ n.hdl = IF st.do = "handle" THEN st.h ELSE m.hdl

\* The entry at q is the one the call cl is about.
Called(m, d, name) == IF name = "root" THEN d = Top ELSE d # Top /\ EntryAt(m.sect, d).name = name
Aimed(m, n, cl, q) ==
  \/ /\ EntryAt(m.sect, q).name = cl.name
     /\ \E d \in Dirs(m.sect, m.ch) : In(m.ch, d, q) /\ Called(m, d, cl.dir)
  \/ m.hdl.open /\ q = m.hdl.at
  \/ n.hdl.open /\ q = n.hdl.at

\* The entries the call is not about stay where they are, with what they lead to.
Keeps(m, n, x, d, q) ==
  /\ q # x /\ d # x /\ d \in Dirs(n.sect, n.ch) /\ In(n.ch, d, q)
  /\ EntryAt(n.sect, q) = EntryAt(m.sect, q)
  /\ EntryAt(m.sect, q).isdir \/ n.ch[q] = m.ch[q]
\* There is no name in a directory that is being freed.
Hollow(m, x) ==
  x \in Dirs(m.sect, m.ch) => \A q \in Position : In(m.ch, x, q) => ~ Used(m.sect, q)

Spares(m, n, x, cl) ==
  \A d \in Dirs(m.sect, m.ch), q \in Position :
    In(m.ch, d, q) /\ Used(m.sect, q) => Aimed(m, n, cl, q) \/ Keeps(m, n, x, d, q)

Moves(m, st, n, x, cl) ==
  /\ Goes(m, st, n)
  /\ st.do # "handle" => Spares(m, n, x, cl)

Course(p, Q, x, cl) == \A i \in 1 .. Len(p) : Moves(Q[i], p[i], Q[i + 1], x, cl)

\* The steps p of the call cl take the machine m to the machine r, while the chain of x
\* may be being freed.
Runs(p, m, r, x, cl) ==
  /\ p \in Seq(Steps)
  /\ \E Q \in [1 .. Len(p) + 1 -> Sound(x)] :
       Q[1] = m /\ Q[Len(p) + 1] = r /\ Course(p, Q, x, cl)

LEMMA NothingRuns ==
  ASSUME NEW x, NEW cl, NEW m \in Sound(x)
  PROVE  Runs(<<>>, m, m, x, cl)
<1> DEFINE p == <<>>
           Q == [i \in 1 .. 1 |-> m]
<1>1. p \in Seq(Steps) /\ Len(p) = 0
  OBVIOUS
<1>2. Q \in [1 .. 1 -> Sound(x)] /\ Q[1] = m
  OBVIOUS
<1> HIDE DEF p, Q
<1>3. Runs(p, m, m, x, cl)
  BY <1>1, <1>2 DEF Runs, Course
<1> QED
  BY <1>3 DEF p

LEMMA NothingChanges ==
  ASSUME NEW x, NEW cl, NEW m, NEW r, Runs(<<>>, m, r, x, cl)
  PROVE  m = r /\ m \in Sound(x)
BY DEF Runs

LEMMA OneRuns ==
  ASSUME NEW x, NEW cl, NEW m \in Sound(x), NEW n \in Sound(x), NEW st \in Steps,
         Moves(m, st, n, x, cl)
  PROVE  Runs(<<st>>, m, n, x, cl)
<1> DEFINE p == <<st>>
           Q == [i \in 1 .. 2 |-> IF i = 1 THEN m ELSE n]
<1>1. p \in Seq(Steps) /\ Len(p) = 1 /\ p[1] = st
  OBVIOUS
<1>2. Q \in [1 .. 2 -> Sound(x)] /\ Q[1] = m /\ Q[2] = n
  OBVIOUS
<1> HIDE DEF p, Q
<1>3. Course(p, Q, x, cl)
  BY <1>1, <1>2 DEF Course
<1>4. Runs(p, m, n, x, cl)
  BY <1>1, <1>2, <1>3 DEF Runs
<1> QED
  BY <1>4 DEF p

\* One run after another
LEMMA RunsCompose ==
  ASSUME NEW x, NEW cl, NEW p1, NEW p2, NEW q, NEW m, NEW r,
         Runs(p1, q, m, x, cl), Runs(p2, m, r, x, cl)
  PROVE  Runs(p1 \o p2, q, r, x, cl)
<1>1. p1 \in Seq(Steps) /\ p2 \in Seq(Steps)
  BY DEF Runs
<1> DEFINE n1 == Len(p1)
           n2 == Len(p2)
           p == p1 \o p2
<1>2. PICK Q1 \in [1 .. n1 + 1 -> Sound(x)] : Q1[1] = q /\ Q1[n1 + 1] = m /\ Course(p1, Q1, x, cl)
  BY DEF Runs
<1>3. PICK Q2 \in [1 .. n2 + 1 -> Sound(x)] : Q2[1] = m /\ Q2[n2 + 1] = r /\ Course(p2, Q2, x, cl)
  BY DEF Runs
<1> DEFINE Q == [i \in 1 .. n1 + n2 + 1 |-> IF i <= n1 THEN Q1[i] ELSE Q2[i - n1]]
<1>4. n1 \in Nat /\ n2 \in Nat
  BY <1>1
<1>5. p \in Seq(Steps) /\ Len(p) = n1 + n2
      /\ \A i \in 1 .. n1 + n2 : p[i] = IF i <= n1 THEN p1[i] ELSE p2[i - n1]
  BY <1>1, ConcatProperties
<1> HIDE DEF n1, n2, p
<1>6. Q \in [1 .. n1 + n2 + 1 -> Sound(x)]
  <2> SUFFICES ASSUME NEW i \in 1 .. n1 + n2 + 1
               PROVE  (IF i <= n1 THEN Q1[i] ELSE Q2[i - n1]) \in Sound(x)
    OBVIOUS
  <2>1. (i <= n1 => i \in 1 .. n1 + 1) /\ (~ (i <= n1) => i - n1 \in 1 .. n2 + 1)
    BY <1>4
  <2> QED BY <2>1
<1>7. \A i \in 1 .. n1 + 1 : Q[i] = Q1[i]
  BY <1>2, <1>3, <1>4
<1>8. \A i \in n1 + 1 .. n1 + n2 + 1 : Q[i] = Q2[i - n1]
  BY <1>4
<1>9. Q[1] = q /\ Q[n1 + n2 + 1] = r
  BY <1>2, <1>3, <1>4, <1>7, <1>8
<1> HIDE DEF Q
<1>10. ASSUME NEW i \in 1 .. n1 + n2
       PROVE  Moves(Q[i], p[i], Q[i + 1], x, cl)
  <2>1. CASE i <= n1
    <3>1. i \in 1 .. n1 /\ i \in 1 .. n1 + 1 /\ i + 1 \in 1 .. n1 + 1
      BY <1>4, <2>1
    <3>2. Q[i] = Q1[i] /\ Q[i + 1] = Q1[i + 1] /\ p[i] = p1[i]
      BY <1>5, <1>7, <2>1, <3>1
    <3> QED BY <1>2, <3>1, <3>2 DEF Course, n1
  <2>2. CASE ~ (i <= n1)
    <3>1. /\ i - n1 \in 1 .. n2 /\ (i + 1) - n1 = (i - n1) + 1
          /\ i \in n1 + 1 .. n1 + n2 + 1 /\ i + 1 \in n1 + 1 .. n1 + n2 + 1
      BY <1>4, <2>2
    <3>2. Q[i] = Q2[i - n1] /\ Q[i + 1] = Q2[(i - n1) + 1] /\ p[i] = p2[i - n1]
      BY <1>5, <1>8, <2>2, <3>1
    <3> QED BY <1>3, <3>1, <3>2 DEF Course, n2
  <2> QED BY <2>1, <2>2
<1>11. Course(p, Q, x, cl)
  BY <1>5, <1>10 DEF Course
<1>12. Runs(p, q, r, x, cl)
  BY <1>5, <1>6, <1>9, <1>11 DEF Runs
<1> QED
  BY <1>12 DEF p

LEMMA RunsEnds ==
  ASSUME NEW x, NEW cl, NEW p, NEW q, NEW r, Runs(p, q, r, x, cl)
  PROVE  p \in Seq(Steps) /\ q \in Sound(x) /\ r \in Sound(x)
<1>1. p \in Seq(Steps)
  BY DEF Runs
<1>2. PICK Q \in [1 .. Len(p) + 1 -> Sound(x)] : Q[1] = q /\ Q[Len(p) + 1] = r
  BY DEF Runs
<1>3. Len(p) \in Nat
  BY <1>1
<1>4. 1 \in 1 .. Len(p) + 1 /\ Len(p) + 1 \in 1 .. Len(p) + 1
  BY <1>3
<1> QED
  BY <1>1, <1>2, <1>4

\* The first step of a run, and what is left after it
LEMMA RunsOn ==
  ASSUME NEW x, NEW cl, NEW p, NEW q, NEW r, Runs(p, q, r, x, cl), p # <<>>
  PROVE  \E m \in Sound(x) : /\ Head(p) \in Steps /\ q \in Sound(x)
                             /\ Moves(q, Head(p), m, x, cl) /\ Runs(Tail(p), m, r, x, cl)
<1> DEFINE n == Len(p)
           t == Tail(p)
<1>1. /\ p \in Seq(Steps) /\ n \in Nat \ {0} /\ Head(p) = p[1] /\ p[1] \in Steps
      /\ t \in Seq(Steps) /\ Len(t) = n - 1
      /\ \A i \in 1 .. n - 1 : t[i] = p[i + 1]
  <2>1. p \in Seq(Steps)
    BY DEF Runs
  <2> QED BY <2>1
<1>2. PICK Q \in [1 .. n + 1 -> Sound(x)] : Q[1] = q /\ Q[n + 1] = r /\ Course(p, Q, x, cl)
  BY DEF Runs
<1> DEFINE R == [i \in 1 .. n |-> Q[i + 1]]
<1> HIDE DEF t
<1>3. Moves(q, p[1], Q[2], x, cl) /\ q \in Sound(x) /\ Q[2] \in Sound(x)
  <2>1. 1 \in 1 .. Len(p) /\ 1 + 1 = 2 /\ 1 \in 1 .. n + 1 /\ 2 \in 1 .. n + 1
    BY <1>1
  <2> QED BY <1>2, <2>1 DEF Course
<1>4. R \in [1 .. (n - 1) + 1 -> Sound(x)] /\ R[1] = Q[2] /\ R[(n - 1) + 1] = r
  BY <1>1, <1>2
<1>5. ASSUME NEW i \in 1 .. n - 1
      PROVE  Moves(R[i], t[i], R[i + 1], x, cl)
  <2>1. i + 1 \in 1 .. Len(p) /\ R[i] = Q[i + 1] /\ R[i + 1] = Q[(i + 1) + 1] /\ t[i] = p[i + 1]
    BY <1>1
  <2> HIDE DEF R
  <2> QED BY <1>2, <2>1 DEF Course
<1> HIDE DEF R
<1>6. Runs(t, Q[2], r, x, cl)
  BY <1>1, <1>3, <1>4, <1>5 DEF Runs, Course
<1> QED
  BY <1>1, <1>3, <1>6 DEF t

\* Rounds that lead from one machine to the next lead from the first to the last.
LEMMA RoundsRun ==
  ASSUME NEW x, NEW cl, NEW n \in Nat, NEW seqs, seqs = [i \in 1 .. n |-> seqs[i]],
         NEW M, M[0] \in Sound(x), \A i \in 1 .. n : Runs(seqs[i], M[i - 1], M[i], x, cl)
  PROVE  Runs(FlattenSeq(seqs), M[0], M[n], x, cl)
<1>0. seqs \in Seq(Seq(Steps)) /\ Len(seqs) = n
  <2>1. \A i \in 1 .. n : seqs[i] \in Seq(Steps)
    BY DEF Runs
  <2> DEFINE S == Seq(Steps)
  <2> HIDE DEF S
  <2>2. seqs \in [1 .. n -> S]
    BY <2>1 DEF S
  <2>3. seqs \in Seq(S) /\ Len(seqs) = n
    BY <2>2
  <2> QED BY <2>3 DEF S
<1>1. PICK f : /\ f[0] = <<>> /\ f[Len(seqs)] = FlattenSeq(seqs)
               /\ \A i \in 1 .. Len(seqs) : f[i] = f[i - 1] \o seqs[i]
  BY <1>0, FlattenJoins
<1> DEFINE T == {k \in 0 .. n : ~ Runs(f[k], M[0], M[k], x, cl)}
<1>2. T = {}
  <2> SUFFICES ASSUME T # {} PROVE FALSE
    OBVIOUS
  <2>1. PICK m \in T : \A k \in T : m <= k
    <3>1. T \in SUBSET Nat
      OBVIOUS
    <3> HIDE DEF T
    <3> QED BY <3>1, LeastElement
  <2>2. m \in 0 .. n /\ ~ Runs(f[m], M[0], M[m], x, cl)
    OBVIOUS
  <2>3. CASE m = 0
    BY <1>1, <2>2, <2>3, NothingRuns
  <2>4. CASE m # 0
    <3>1. m - 1 \in 0 .. n /\ ~ (m <= m - 1) /\ m \in 1 .. n
      BY <2>2, <2>4
    <3>2. m - 1 \notin T
      BY <2>1, <3>1
    <3>3. Runs(f[m - 1], M[0], M[m - 1], x, cl)
      BY <3>1, <3>2
    <3> HIDE DEF T
    <3>4. Runs(f[m - 1] \o seqs[m], M[0], M[m], x, cl)
      BY <3>1, <3>3, RunsCompose
    <3> QED BY <1>0, <1>1, <2>2, <3>1, <3>4
  <2> QED BY <2>3, <2>4
<1>3. n \in 0 .. n /\ n \notin T
  BY <1>2
<1>4. Runs(f[n], M[0], M[n], x, cl)
  BY <1>3
<1> QED
  BY <1>0, <1>1, <1>4


-----------------------------------------------------------------------------
(* The writes the calls are made of. *)

LEMMA MachineIs ==
  /\ \A m \in Machines : /\ m.fat \in [Copies -> [Clusters -> Marks]] /\ m.fat[1] \in [Clusters -> Marks]
                         /\ m.sect \in [Clusters -> [Slot -> Entries]] /\ m.hdl \in Handles
                         /\ m.ch \in [Owners -> Seq(Clusters)]
                         /\ m = Machine(m.fat, m.sect, m.hdl, m.ch)
  /\ \A f \in [Copies -> [Clusters -> Marks]], s \in [Clusters -> [Slot -> Entries]], h \in Handles,
        ch \in [Owners -> Seq(Clusters)] :
          LET m == Machine(f, s, h, ch)
          IN  m \in Machines /\ m.fat = f /\ m.sect = s /\ m.hdl = h /\ m.ch = ch
BY VolumeFacts DEF Machines, Machine

LEMMA SoundIs ==
  ASSUME NEW x, NEW m
  PROVE  m \in Sound(x) <=> m \in Machines /\ Owned(m.fat[1], m.sect, m.hdl, m.ch, x)
BY DEF Sound

\* The steps that are taken
LEMMA StepIs ==
  /\ \A i \in Copies, c \in Clusters, v \in Marks :
       LET st == [do |-> "fat", copy |-> i, clus |-> c, val |-> v]
       IN  st \in Steps /\ st.do = "fat" /\ st.copy = i /\ st.clus = c /\ st.val = v
  /\ \A c \in Clusters, a \in [Slot -> Entries] :
       LET st == [do |-> "sect", clus |-> c, as |-> a]
       IN  st \in Steps /\ st.do = "sect" /\ st.clus = c /\ st.as = a
  /\ \A p \in Position, e \in Entries :
       LET st == [do |-> "slot", at |-> p, entry |-> e]
       IN  st \in Steps /\ st.do = "slot" /\ st.at = p /\ st.entry = e
  /\ \A h \in Handles :
       LET st == [do |-> "handle", h |-> h]
       IN  st \in Steps /\ st.do = "handle" /\ st.h = h
BY DEF Steps

\* All the copies of the FAT with v for cluster c
Fats(f, c, v) == [i \in Copies |-> [f[i] EXCEPT ![c] = v]]

LEMMA FatsAre ==
  ASSUME NEW f \in [Copies -> [Clusters -> Marks]], NEW c \in Clusters, NEW v \in Marks
  PROVE  /\ Fats(f, c, v) \in [Copies -> [Clusters -> Marks]]
         /\ \A i \in Copies : Fats(f, c, v)[i] = [f[i] EXCEPT ![c] = v]
         /\ Fats(f, c, v)[1] = [f[1] EXCEPT ![c] = v]
BY VolumeFacts DEF Fats

\* Who is spared does not depend on the FAT.
LEMMA SparesLooks ==
  ASSUME NEW x, NEW cl, NEW m, NEW n, Spares(m, n, x, cl),
         NEW m2, m2.sect = m.sect, m2.hdl = m.hdl, m2.ch = m.ch,
         NEW n2, n2.sect = n.sect, n2.hdl = n.hdl, n2.ch = n.ch
  PROVE  Spares(m2, n2, x, cl)
<1>1. \A q : Aimed(m2, n2, cl, q) <=> Aimed(m, n, cl, q)
  BY DEF Aimed, Called
<1>2. \A d, q : Keeps(m2, n2, x, d, q) <=> Keeps(m, n, x, d, q)
  BY DEF Keeps
<1> QED
  BY <1>1, <1>2 DEF Spares

\* fat_set() writes the copies one by one; readers look at the first.
LEMMA FatSetRuns ==
  ASSUME NEW x, NEW cl, NEW m \in Sound(x), NEW c \in Clusters, NEW v \in Marks,
         NEW n, n = Machine(Fats(m.fat, c, v), m.sect, m.hdl, n.ch), n \in Sound(x),
         Spares(m, n, x, cl), Spares(n, n, x, cl)
  PROVE  Runs(FatSet(c, v), m, n, x, cl)
<1> DEFINE F(k) == [i \in Copies |-> IF i <= k THEN [m.fat[i] EXCEPT ![c] = v] ELSE m.fat[i]]
           N(k) == Machine(F(k), m.sect, m.hdl, n.ch)
           Q == [j \in 1 .. NumFats + 1 |-> IF j = 1 THEN m ELSE N(j - 1)]
           p == FatSet(c, v)
<1>1. NumFats \in Nat \ {0} /\ Copies = 1 .. NumFats /\ 1 \in Copies
  BY VolumeFacts DEF Copies
<1>2. p \in Seq(Steps) /\ Len(p) = NumFats /\ DOMAIN p = 1 .. NumFats
      /\ \A i \in 1 .. NumFats : /\ p[i].do = "fat" /\ p[i].copy = i /\ p[i].clus = c /\ p[i].val = v
                                 /\ p[i] \in Steps
  <2>1. p = [i \in 1 .. NumFats |-> [do |-> "fat", copy |-> i, clus |-> c, val |-> v]]
    BY <1>1 DEF FatSet
  <2>2. \A i \in 1 .. NumFats :
          LET st == [do |-> "fat", copy |-> i, clus |-> c, val |-> v]
          IN  st \in Steps /\ st.do = "fat" /\ st.copy = i /\ st.clus = c /\ st.val = v
    BY <1>1, StepIs
  <2> HIDE DEF p
  <2>3. \A i \in 1 .. NumFats : /\ p[i].do = "fat" /\ p[i].copy = i /\ p[i].clus = c /\ p[i].val = v
                                /\ p[i] \in Steps
    BY <2>1, <2>2
  <2>4. p \in [1 .. NumFats -> Steps]
    BY <2>1, <2>3
  <2> DEFINE S == Steps
  <2> HIDE DEF S
  <2>5. p \in Seq(S) /\ Len(p) = NumFats /\ DOMAIN p = 1 .. NumFats
    BY <1>1, <2>4 DEF S
  <2> QED BY <2>3, <2>5 DEF S
<1>3. m \in Machines /\ m.fat \in [Copies -> [Clusters -> Marks]] /\ n \in Machines
      /\ m.sect \in [Clusters -> [Slot -> Entries]] /\ m.hdl \in Handles
      /\ n.ch \in [Owners -> Seq(Clusters)] /\ n.sect = m.sect /\ n.hdl = m.hdl
      /\ n.fat = Fats(m.fat, c, v)
  <2>1. m \in Machines /\ n \in Machines
    BY SoundIs
  <2>2. m.fat \in [Copies -> [Clusters -> Marks]] /\ m.sect \in [Clusters -> [Slot -> Entries]]
        /\ m.hdl \in Handles /\ n.ch \in [Owners -> Seq(Clusters)]
    BY <2>1, MachineIs
  <2>3. Fats(m.fat, c, v) \in [Copies -> [Clusters -> Marks]]
    BY <2>2, FatsAre
  <2>4. Machine(Fats(m.fat, c, v), m.sect, m.hdl, n.ch).fat = Fats(m.fat, c, v)
        /\ Machine(Fats(m.fat, c, v), m.sect, m.hdl, n.ch).sect = m.sect
        /\ Machine(Fats(m.fat, c, v), m.sect, m.hdl, n.ch).hdl = m.hdl
    BY DEF Machine
  <2> QED BY <2>1, <2>2, <2>4
<1>4. ASSUME NEW k \in 1 .. NumFats
      PROVE  /\ F(k) \in [Copies -> [Clusters -> Marks]] /\ F(k)[1] = n.fat[1]
             /\ N(k) \in Sound(x)
             /\ N(k).fat = F(k) /\ N(k).sect = m.sect /\ N(k).hdl = m.hdl /\ N(k).ch = n.ch
  <2>1. F(k) \in [Copies -> [Clusters -> Marks]]
    BY <1>3
  <2>2. F(k)[1] = n.fat[1]
    <3>1. n.fat[1] = [m.fat[1] EXCEPT ![c] = v]
      BY <1>1, <1>3 DEF Fats
    <3>2. F(k)[1] = IF 1 <= k THEN [m.fat[1] EXCEPT ![c] = v] ELSE m.fat[1]
      BY <1>1
    <3>3. 1 <= k
      BY <1>1
    <3> HIDE DEF F
    <3> QED BY <3>1, <3>2, <3>3
  <2> HIDE DEF F
  <2>3. N(k) \in Machines /\ N(k).fat = F(k) /\ N(k).sect = m.sect /\ N(k).hdl = m.hdl /\ N(k).ch = n.ch
    <3>1. N(k).fat = F(k) /\ N(k).sect = m.sect /\ N(k).hdl = m.hdl /\ N(k).ch = n.ch
      BY DEF Machine
    <3>2. N(k) \in Machines
      BY <1>3, <2>1 DEF Machine, Machines
    <3> QED BY <3>1, <3>2
  <2>4. Owned(n.fat[1], n.sect, n.hdl, n.ch, x)
    BY SoundIs
  <2> HIDE DEF N
  <2>5. Owned(N(k).fat[1], N(k).sect, N(k).hdl, N(k).ch, x)
    BY <1>3, <2>2, <2>3, <2>4
  <2> QED BY <2>1, <2>2, <2>3, <2>5, SoundIs
<1>5. ASSUME NEW k \in 2 .. NumFats
      PROVE  k - 1 \in 1 .. NumFats /\ F(k) = [F(k - 1) EXCEPT ![k][c] = v]
  <2>1. k - 1 \in 1 .. NumFats /\ k \in Copies
    BY <1>1
  <2>2. F(k - 1) \in [Copies -> [Clusters -> Marks]] /\ F(k) \in [Copies -> [Clusters -> Marks]]
    BY <1>1, <1>4, <2>1
  <2>3. \A i \in Copies : F(k)[i] = IF i = k THEN [F(k - 1)[k] EXCEPT ![c] = v] ELSE F(k - 1)[i]
    <3> SUFFICES ASSUME NEW i \in Copies
                 PROVE  F(k)[i] = IF i = k THEN [F(k - 1)[k] EXCEPT ![c] = v] ELSE F(k - 1)[i]
      OBVIOUS
    <3>1. F(k)[i] = IF i <= k THEN [m.fat[i] EXCEPT ![c] = v] ELSE m.fat[i]
      OBVIOUS
    <3>2. F(k - 1)[i] = IF i <= k - 1 THEN [m.fat[i] EXCEPT ![c] = v] ELSE m.fat[i]
      OBVIOUS
    <3>3. F(k - 1)[k] = m.fat[k]
      BY <1>1, <2>1
    <3> HIDE DEF F
    <3> QED BY <1>1, <3>1, <3>2, <3>3
  <2> HIDE DEF F
  <2> QED BY <2>1, <2>2, <2>3
<1>6. F(1) = [m.fat EXCEPT ![1][c] = v]
  <2>1. F(1) \in [Copies -> [Clusters -> Marks]]
    BY <1>1, <1>4
  <2>2. \A i \in Copies : F(1)[i] = IF i = 1 THEN [m.fat[1] EXCEPT ![c] = v] ELSE m.fat[i]
    BY <1>1
  <2> HIDE DEF F
  <2> QED BY <1>1, <1>3, <2>1, <2>2
<1>7. N(NumFats) = n
  <2>1. F(NumFats) = Fats(m.fat, c, v)
    BY <1>1 DEF Fats
  <2> HIDE DEF F
  <2> QED BY <2>1
<1>8. Q \in [1 .. NumFats + 1 -> Sound(x)] /\ Q[1] = m /\ Q[NumFats + 1] = n
      /\ \A k \in 1 .. NumFats : Q[k + 1] = N(k)
  <2>1. \A k \in 1 .. NumFats : N(k) \in Sound(x)
    BY <1>4
  <2> HIDE DEF N
  <2>2. \A j \in 1 .. NumFats + 1 : j # 1 => j - 1 \in 1 .. NumFats
    BY <1>1
  <2>3. Q \in [1 .. NumFats + 1 -> Sound(x)]
    BY <2>1, <2>2
  <2>4. Q[1] = m
    BY <1>1
  <2>5. \A k \in 1 .. NumFats : Q[k + 1] = N(k)
    BY <1>1
  <2> QED BY <1>1, <1>7, <2>3, <2>4, <2>5
<1> HIDE DEF Q, N, F, p
<1>9. ASSUME NEW i \in 1 .. NumFats
      PROVE  Moves(Q[i], p[i], Q[i + 1], x, cl)
  <2>1. Q[i + 1].fat = F(i) /\ Q[i + 1].sect = m.sect /\ Q[i + 1].hdl = m.hdl /\ Q[i + 1].ch = n.ch
    BY <1>4, <1>8
  <2>2. CASE i = 1
    <3>1. Goes(Q[i], p[i], Q[i + 1])
      BY <1>2, <1>6, <1>8, <2>1, <2>2 DEF Goes
    <3>2. Spares(Q[i], Q[i + 1], x, cl)
      <4>1. Q[i] = m
        BY <1>8, <2>2
      <4> QED BY <1>3, <2>1, <4>1, SparesLooks
    <3> QED BY <3>1, <3>2 DEF Moves
  <2>3. CASE i # 1
    <3>1. i \in 2 .. NumFats /\ i - 1 \in 1 .. NumFats /\ (i - 1) + 1 = i
      BY <1>1, <2>3
    <3>2. Q[i] = N(i - 1)
      BY <1>8, <3>1
    <3>3. Q[i].fat = F(i - 1) /\ Q[i].sect = m.sect /\ Q[i].hdl = m.hdl /\ Q[i].ch = n.ch
      BY <1>4, <3>1, <3>2
    <3>4. Goes(Q[i], p[i], Q[i + 1])
      BY <1>2, <1>5, <2>1, <3>1, <3>3 DEF Goes
    <3>5. Spares(Q[i], Q[i + 1], x, cl)
      BY <1>3, <2>1, <3>3, SparesLooks
    <3> QED BY <3>4, <3>5 DEF Moves
  <2> QED BY <2>2, <2>3
<1>10. Course(p, Q, x, cl)
  BY <1>2, <1>9 DEF Course
<1>11. Runs(p, m, n, x, cl)
  BY <1>2, <1>8, <1>10 DEF Runs
<1> QED
  BY <1>11 DEF p

LEMMA SlotRuns ==
  ASSUME NEW x, NEW cl, NEW m \in Sound(x), NEW p \in Position, NEW e \in Entries,
         NEW n, n = Machine(m.fat, Put(m.sect, p, e), m.hdl, n.ch), n \in Sound(x), Spares(m, n, x, cl)
  PROVE  Runs(PutSlot(p, e), m, n, x, cl)
<1> DEFINE st == [do |-> "slot", at |-> p, entry |-> e]
<1>1. st \in Steps /\ st.do = "slot" /\ st.at = p /\ st.entry = e
  BY StepIs
<1>2. n.fat = m.fat /\ n.sect = Put(m.sect, p, e) /\ n.hdl = m.hdl
  BY DEF Machine
<1>3. PutSlot(p, e) = <<st>>
  BY DEF PutSlot
<1> HIDE DEF st
<1>4. Moves(m, st, n, x, cl)
  BY <1>1, <1>2 DEF Moves, Goes, Put
<1> QED
  BY <1>1, <1>3, <1>4, OneRuns

LEMMA SectRuns ==
  ASSUME NEW x, NEW cl, NEW m \in Sound(x), NEW c \in Clusters, NEW a \in [Slot -> Entries],
         NEW n, n = Machine(m.fat, [m.sect EXCEPT ![c] = a], m.hdl, n.ch), n \in Sound(x), Spares(m, n, x, cl)
  PROVE  Runs(<<[do |-> "sect", clus |-> c, as |-> a]>>, m, n, x, cl)
<1> DEFINE st == [do |-> "sect", clus |-> c, as |-> a]
<1>1. st \in Steps /\ st.do = "sect" /\ st.clus = c /\ st.as = a
  BY StepIs
<1>2. n.fat = m.fat /\ n.sect = [m.sect EXCEPT ![c] = a] /\ n.hdl = m.hdl
  BY DEF Machine
<1> HIDE DEF st
<1>4. Moves(m, st, n, x, cl)
  BY <1>1, <1>2 DEF Moves, Goes
<1>5. Runs(<<st>>, m, n, x, cl)
  BY <1>1, <1>4, OneRuns
<1> QED
  BY <1>5 DEF st

LEMMA HandleRuns ==
  ASSUME NEW x, NEW cl, NEW m \in Sound(x), NEW h \in Handles,
         NEW n, n = Machine(m.fat, m.sect, h, n.ch), n \in Sound(x)
  PROVE  Runs(SetHandle(h), m, n, x, cl)
<1> DEFINE st == [do |-> "handle", h |-> h]
<1>1. st \in Steps /\ st.do = "handle" /\ st.h = h
  BY StepIs
<1>2. n.fat = m.fat /\ n.sect = m.sect /\ n.hdl = h
  BY DEF Machine
<1>3. SetHandle(h) = <<st>>
  BY DEF SetHandle
<1> HIDE DEF st
<1>4. Moves(m, st, n, x, cl)
  BY <1>1, <1>2 DEF Moves, Goes
<1> QED
  BY <1>1, <1>3, <1>4, OneRuns

\* Nothing is lost where directories and entries stay, and only directories and the
\* file being written grow.
LEMMA SparesBuilding ==
  ASSUME NEW cl, NEW m, NEW n,
         Dirs(m.sect, m.ch) \subseteq Dirs(n.sect, n.ch),
         \A d \in Dirs(m.sect, m.ch), q \in Position : In(m.ch, d, q) =>
            In(n.ch, d, q) /\ EntryAt(n.sect, q) = EntryAt(m.sect, q),
         \A q \in Position : \/ n.ch[q] = m.ch[q] \/ EntryAt(m.sect, q).isdir
                             \/ m.hdl.open /\ q = m.hdl.at
  PROVE  Spares(m, n, Nobody, cl)
BY EntryFacts, DirsAreOwners DEF Spares, Keeps, Aimed

\* x may be freed when the call is about it.
LEMMA SparesItself ==
  ASSUME NEW cl, NEW x, NEW m,
         x \in Position => Aimed(m, m, cl, x) /\ Hollow(m, x),
         x \in {Nobody} \cup Position
  PROVE  Spares(m, m, x, cl)
BY EntryFacts, DirsAreOwners DEF Spares, Keeps, Hollow

LEMMA FatSound ==
  ASSUME NEW x, NEW m \in Sound(x), NEW c \in Clusters, NEW v \in Marks,
         Unowned(m.ch, c) \/ (x \in Owners /\ v = Free /\ \E i \in DOMAIN m.ch[x] : m.ch[x][i] = c)
  PROVE  Machine(Fats(m.fat, c, v), m.sect, m.hdl, m.ch) \in Sound(x)
<1> DEFINE f == Fats(m.fat, c, v)
           n == Machine(f, m.sect, m.hdl, m.ch)
<1>1. m \in Machines /\ Owned(m.fat[1], m.sect, m.hdl, m.ch, x)
  BY SoundIs
<1>2. m.fat \in [Copies -> [Clusters -> Marks]] /\ m.fat[1] \in [Clusters -> Marks]
      /\ m.sect \in [Clusters -> [Slot -> Entries]] /\ m.hdl \in Handles
      /\ m.ch \in [Owners -> Seq(Clusters)]
  BY <1>1, MachineIs
<1>3. f \in [Copies -> [Clusters -> Marks]] /\ f[1] = [m.fat[1] EXCEPT ![c] = v]
  BY <1>2, FatsAre
<1> HIDE DEF f
<1>4. n \in Machines /\ n.fat = f /\ n.sect = m.sect /\ n.hdl = m.hdl /\ n.ch = m.ch
  BY <1>2, <1>3 DEF Machine, Machines
<1>5. ASSUME NEW p \in Owners, NEW i \in DOMAIN m.ch[p]
      PROVE  f[1][m.ch[p][i]] = m.fat[1][m.ch[p][i]] \/ (p = x /\ f[1][m.ch[p][i]] = Free)
  <2>1. m.ch[p][i] \in Clusters
    BY <1>2
  <2>2. m.ch[p][i] # c => f[1][m.ch[p][i]] = m.fat[1][m.ch[p][i]]
    BY <1>2, <1>3, <2>1
  <2>3. m.ch[p][i] = c => p = x /\ v = Free
    BY <1>1 DEF Unowned, Owned, Apart
  <2>4. f[1][c] = v
    BY <1>2, <1>3
  <2> QED BY <2>2, <2>3, <2>4
<1>6. Owned(f[1], m.sect, m.hdl, m.ch, x)
  BY <1>1, <1>5, FatChange
<1> HIDE DEF n
<1>7. n \in Sound(x)
  BY <1>4, <1>6, SoundIs
<1> QED
  BY <1>7 DEF n, f

LEMMA FilledIs ==
  ASSUME NEW e \in Entries
  PROVE  Filled(e) \in [Slot -> Entries] /\ \A t \in Slot : Filled(e)[t] = e
BY DEF Filled

\* A sector that is not a directory's may be written.
LEMMA SectorRuns ==
  ASSUME NEW cl, NEW m \in Sound(Nobody), NEW c \in Clusters, NEW a \in [Slot -> Entries],
         \A d \in Dirs(m.sect, m.ch) : \A k \in DOMAIN m.ch[d] : m.ch[d][k] # c
  PROVE  LET n == Machine(m.fat, [m.sect EXCEPT ![c] = a], m.hdl, m.ch)
         IN  /\ n \in Sound(Nobody) /\ Dirs(n.sect, n.ch) = Dirs(m.sect, m.ch)
             /\ Runs(<<[do |-> "sect", clus |-> c, as |-> a]>>, m, n, Nobody, cl)
<1> DEFINE s == [m.sect EXCEPT ![c] = a]
           n == Machine(m.fat, s, m.hdl, m.ch)
<1>1. m \in Machines /\ Owned(m.fat[1], m.sect, m.hdl, m.ch, Nobody)
  BY SoundIs
<1>2. m.fat \in [Copies -> [Clusters -> Marks]]
      /\ m.sect \in [Clusters -> [Slot -> Entries]] /\ m.hdl \in Handles
      /\ m.ch \in [Owners -> Seq(Clusters)]
  BY <1>1, MachineIs
<1>3. s \in [Clusters -> [Slot -> Entries]] /\ \A d \in Clusters : d # c => s[d] = m.sect[d]
  BY <1>2
<1>4. ASSUME NEW d \in Dirs(m.sect, m.ch), NEW k \in DOMAIN m.ch[d]
      PROVE  m.ch[d][k] \in Clusters /\ s[m.ch[d][k]] = m.sect[m.ch[d][k]]
  <2>1. m.ch[d] \in Seq(Clusters)
    BY <1>2, DirsAreOwners
  <2>2. m.ch[d][k] \in Clusters
    BY <2>1
  <2> QED BY <1>3, <2>2
<1>5. n \in Machines /\ n.fat = m.fat /\ n.sect = s /\ n.hdl = m.hdl /\ n.ch = m.ch
  <2> HIDE DEF s
  <2> QED BY <1>2, <1>3 DEF Machine, Machines
<1>6. Owned(m.fat[1], s, m.hdl, m.ch, Nobody) /\ Dirs(s, m.ch) = Dirs(m.sect, m.ch)
  <2> HIDE DEF s
  <2> QED BY <1>1, <1>4, SectChange
<1> HIDE DEF n, s
<1>7. n \in Sound(Nobody) /\ Dirs(n.sect, n.ch) = Dirs(m.sect, m.ch)
  BY <1>5, <1>6, SoundIs
<1>8. \A d \in Dirs(m.sect, m.ch), q \in Position : In(m.ch, d, q) =>
            In(n.ch, d, q) /\ EntryAt(n.sect, q) = EntryAt(m.sect, q)
  BY <1>4, <1>5 DEF In, EntryAt
<1>9. Spares(m, n, Nobody, cl)
  BY <1>5, <1>7, <1>8, SparesBuilding
<1>10. Runs(<<[do |-> "sect", clus |-> c, as |-> a]>>, m, n, Nobody, cl)
  <2>1. n = Machine(m.fat, [m.sect EXCEPT ![c] = a], m.hdl, n.ch)
    BY <1>5 DEF n, s
  <2> QED BY <1>7, <1>9, <2>1, SectRuns
<1> QED
  BY <1>7, <1>10 DEF n, s

\* A cluster is claimed: marked, and zeroed.
Claimed(m, new) ==
  Machine(Fats(m.fat, new, Eoc), [m.sect EXCEPT ![new] = Filled(End)], m.hdl, m.ch)

LEMMA ClaimRuns ==
  ASSUME NEW cl, NEW m \in Sound(Nobody), NEW new \in Clusters, Unowned(m.ch, new)
  PROVE  LET n == Claimed(m, new)
         IN  /\ n \in Sound(Nobody) /\ Dirs(n.sect, n.ch) = Dirs(m.sect, m.ch)
             /\ Runs(Claim(new), m, n, Nobody, cl)
<1> DEFINE m1 == Machine(Fats(m.fat, new, Eoc), m.sect, m.hdl, m.ch)
           n == Claimed(m, new)
<1>1. Eoc \in Marks
  BY DEF Marks
<1>2. m1 \in Sound(Nobody)
  BY <1>1, FatSound
<1>3. m1.fat = Fats(m.fat, new, Eoc) /\ m1.sect = m.sect /\ m1.hdl = m.hdl /\ m1.ch = m.ch
  BY DEF Machine
<1>4. m1 = Machine(Fats(m.fat, new, Eoc), m.sect, m.hdl, m1.ch)
  BY <1>3
<1> HIDE DEF m1
<1>5. Spares(m, m1, Nobody, cl) /\ Spares(m1, m1, Nobody, cl)
  BY <1>3, SparesBuilding
<1>6. Runs(FatSet(new, Eoc), m, m1, Nobody, cl)
  BY <1>1, <1>2, <1>4, <1>5, FatSetRuns
<1>7. ASSUME NEW d \in Dirs(m1.sect, m1.ch), NEW k \in DOMAIN m1.ch[d]
      PROVE  m1.ch[d][k] # new
  BY <1>3, DirsAreOwners DEF Unowned
<1>8. Filled(End) \in [Slot -> Entries]
  BY FilledIs, EntryFacts
<1>9. /\ Machine(m1.fat, [m1.sect EXCEPT ![new] = Filled(End)], m1.hdl, m1.ch) \in Sound(Nobody)
      /\ Dirs(Machine(m1.fat, [m1.sect EXCEPT ![new] = Filled(End)], m1.hdl, m1.ch).sect,
              Machine(m1.fat, [m1.sect EXCEPT ![new] = Filled(End)], m1.hdl, m1.ch).ch)
           = Dirs(m1.sect, m1.ch)
      /\ Runs(<<[do |-> "sect", clus |-> new, as |-> Filled(End)]>>, m1,
              Machine(m1.fat, [m1.sect EXCEPT ![new] = Filled(End)], m1.hdl, m1.ch), Nobody, cl)
  BY <1>2, <1>7, <1>8, SectorRuns
<1>10. n = Machine(m1.fat, [m1.sect EXCEPT ![new] = Filled(End)], m1.hdl, m1.ch)
  BY <1>3 DEF Claimed
<1>11. n \in Sound(Nobody) /\ Dirs(n.sect, n.ch) = Dirs(m.sect, m.ch)
       /\ Runs(Zero(new), m1, n, Nobody, cl)
  BY <1>3, <1>9, <1>10 DEF Zero
<1> HIDE DEF n
<1>12. Runs(Claim(new), m, n, Nobody, cl)
  BY <1>6, <1>11, RunsCompose DEF Claim
<1> QED
  BY <1>11, <1>12 DEF n

LEMMA ClaimedIs ==
  ASSUME NEW x, NEW m \in Sound(x), NEW new \in Clusters
  PROVE  LET n == Claimed(m, new)
         IN  /\ n.fat = Fats(m.fat, new, Eoc) /\ n.hdl = m.hdl /\ n.ch = m.ch
             /\ n.fat[1][new] = Eoc /\ \A c \in Clusters : c # new => n.fat[1][c] = m.fat[1][c]
             /\ \A t \in Slot : n.sect[new][t] = End
             /\ \A c \in Clusters : c # new => n.sect[c] = m.sect[c]
             /\ \A q \in Position : q[1] # new => EntryAt(n.sect, q) = EntryAt(m.sect, q)
<1> DEFINE n == Claimed(m, new)
<1>1. n.fat = Fats(m.fat, new, Eoc) /\ n.hdl = m.hdl /\ n.ch = m.ch
      /\ n.sect = [m.sect EXCEPT ![new] = Filled(End)]
  BY DEF Claimed, Machine
<1>2. m \in Machines
  BY SoundIs
<1>3. m.fat \in [Copies -> [Clusters -> Marks]] /\ m.sect \in [Clusters -> [Slot -> Entries]]
      /\ m.fat[1] \in [Clusters -> Marks]
  BY <1>2, MachineIs
<1>5. n.fat[1] = [m.fat[1] EXCEPT ![new] = Eoc]
  BY <1>1, VolumeFacts DEF Fats
<1> HIDE DEF n
<1>6. n.fat[1][new] = Eoc /\ \A c \in Clusters : c # new => n.fat[1][c] = m.fat[1][c]
  BY <1>3, <1>5
<1>7. n.sect[new] = Filled(End) /\ \A c \in Clusters : c # new => n.sect[c] = m.sect[c]
  BY <1>1, <1>3
<1>8. \A t \in Slot : n.sect[new][t] = End
  BY <1>7, FilledIs, EntryFacts
<1>9. \A q \in Position : q[1] # new => EntryAt(n.sect, q) = EntryAt(m.sect, q)
  BY <1>7, EntryFacts DEF EntryAt
<1> QED
  BY <1>1, <1>6, <1>7, <1>8, <1>9 DEF n

\* A chain grows: the new cluster is claimed, and then linked.
Grown(m, p, new) ==
  Machine(Fats(Fats(m.fat, new, Eoc), Last(m.ch[p]), new), [m.sect EXCEPT ![new] = Filled(End)],
          m.hdl, With(m.ch, p, Append(m.ch[p], new)))

LEMMA GrowRuns ==
  ASSUME NEW cl, NEW m \in Sound(Nobody), NEW p \in Owners, m.ch[p] # <<>>,
         NEW new \in Clusters, Unowned(m.ch, new),
         \/ p \in Dirs(m.sect, m.ch) /\ \A k \in DOMAIN m.ch[p], u \in Slot : m.sect[m.ch[p][k]][u] # End
         \/ /\ m.hdl.open /\ p = m.hdl.at /\ m.hdl.full /\ m.hdl.cur = Last(m.ch[p])
            /\ Pending(m.sect, p)
  PROVE  LET n == Grown(m, p, new)
         IN  /\ n \in Sound(Nobody) /\ Dirs(n.sect, n.ch) = Dirs(m.sect, m.ch)
             /\ Runs(Grow(Last(m.ch[p]), new), m, n, Nobody, cl)
<1> DEFINE m1 == Claimed(m, new)
           last == Last(m.ch[p])
           f2 == Fats(m1.fat, last, new)
           ch2 == With(m.ch, p, Append(m.ch[p], new))
           n == Machine(f2, m1.sect, m.hdl, ch2)
<1>1. m1 \in Sound(Nobody) /\ Dirs(m1.sect, m1.ch) = Dirs(m.sect, m.ch)
      /\ Runs(Claim(new), m, m1, Nobody, cl)
  BY ClaimRuns
<1>2. /\ m1.fat = Fats(m.fat, new, Eoc) /\ m1.hdl = m.hdl /\ m1.ch = m.ch
      /\ m1.fat[1][new] = Eoc
      /\ \A t \in Slot : m1.sect[new][t] = End
      /\ \A c \in Clusters : c # new => m1.sect[c] = m.sect[c]
      /\ \A q \in Position : q[1] # new => EntryAt(m1.sect, q) = EntryAt(m.sect, q)
  BY ClaimedIs
<1>2a. m1.sect = [m.sect EXCEPT ![new] = Filled(End)]
  BY DEF Claimed, Machine
<1> HIDE DEF m1
<1>3. m1 \in Machines /\ Owned(m1.fat[1], m1.sect, m1.hdl, m1.ch, Nobody)
  BY <1>1, SoundIs
<1>4. m1.fat \in [Copies -> [Clusters -> Marks]] /\ m1.fat[1] \in [Clusters -> Marks]
      /\ m1.sect \in [Clusters -> [Slot -> Entries]] /\ m1.hdl \in Handles
      /\ m.ch \in [Owners -> Seq(Clusters)]
  BY <1>2, <1>3, MachineIs
<1>5. last \in Clusters /\ new \in Marks
  <2>1. m.ch[p] \in Seq(Clusters) /\ Len(m.ch[p]) \in Nat \ {0}
    BY <1>4
  <2>2. Len(m.ch[p]) \in DOMAIN m.ch[p]
    BY <2>1
  <2> QED BY <2>1, <2>2 DEF Last, Marks
<1>6. \/ p \in Dirs(m1.sect, m1.ch) /\ (\A u \in Slot : m1.sect[new][u] = End)
           /\ \A k \in DOMAIN m1.ch[p], u \in Slot : m1.sect[m1.ch[p][k]][u] # End
      \/ /\ m1.hdl.open /\ p = m1.hdl.at /\ m1.hdl.full /\ m1.hdl.cur = Last(m1.ch[p])
         /\ Pending(m1.sect, p)
  <2>1. CASE p \in Dirs(m.sect, m.ch) /\ \A k \in DOMAIN m.ch[p], u \in Slot : m.sect[m.ch[p][k]][u] # End
    <3>1. \A k \in DOMAIN m.ch[p] : m.ch[p][k] # new /\ m.ch[p][k] \in Clusters
      <4>1. m.ch[p] \in Seq(Clusters)
        BY <1>4
      <4> QED BY <4>1 DEF Unowned
    <3>2. ASSUME NEW k \in DOMAIN m1.ch[p], NEW u \in Slot
          PROVE  m1.sect[m1.ch[p][k]][u] # End
      <4>1. m1.ch = m.ch
        BY <1>2
      <4>2. k \in DOMAIN m.ch[p] /\ m1.sect[m.ch[p][k]] = m.sect[m.ch[p][k]]
        BY <1>2, <3>1, <4>1
      <4>3. m.sect[m.ch[p][k]][u] # End
        BY <2>1, <4>2
      <4> QED BY <4>1, <4>2, <4>3
    <3>3. p \in Dirs(m1.sect, m1.ch) /\ \A u \in Slot : m1.sect[new][u] = End
      BY <1>1, <1>2, <2>1
    <3> QED BY <3>2, <3>3
  <2>2. CASE /\ m.hdl.open /\ p = m.hdl.at /\ m.hdl.full /\ m.hdl.cur = Last(m.ch[p])
             /\ Pending(m.sect, p)
    <3>1. p \in Position /\ \E d \in Dirs(m1.sect, m1.ch) : In(m1.ch, d, p)
      <4>1. Writing(m1.sect, m1.hdl, m1.ch)
        BY <1>3, OwnedIs
      <4> QED BY <1>2, <1>4, <2>2, <4>1 DEF Writing, Handles
    <3>2. p[1] # new
      BY <1>2, <3>1, DirsAreOwners DEF In, Unowned
    <3>3. Pending(m1.sect, p)
      BY <1>2, <2>2, <3>1, <3>2 DEF Pending
    <3> QED BY <1>2, <2>2, <3>3
  <2> QED BY <2>1, <2>2
<1>7. LET f3 == With(m1.fat[1], Last(m1.ch[p]), new)
          ch3 == With(m1.ch, p, Append(m1.ch[p], new))
      IN  Owned(f3, m1.sect, m1.hdl, ch3, Nobody) /\ Dirs(m1.sect, ch3) = Dirs(m1.sect, m1.ch)
  <2>1. m1.ch[p] # <<>> /\ Unowned(m1.ch, new)
    BY <1>2
  <2> DEFINE f1 == m1.fat[1]
             s1 == m1.sect
             h1 == m1.hdl
             ch1 == m1.ch
  <2>2. f1 \in [Clusters -> Marks] /\ h1 \in Handles /\ f1[new] = Eoc /\ ch1[p] # <<>>
        /\ Owned(f1, s1, h1, ch1, Nobody) /\ Unowned(ch1, new)
    BY <1>2, <1>3, <1>4, <2>1
  <2>3. MayGrow(s1, h1, ch1, p, new)
    BY <1>6 DEF MayGrow
  <2> HIDE DEF f1, s1, h1, ch1
  <2>4. LET f3 == With(f1, Last(ch1[p]), new)
            ch3 == With(ch1, p, Append(ch1[p], new))
        IN  Owned(f3, s1, h1, ch3, Nobody) /\ Dirs(s1, ch3) = Dirs(s1, ch1)
    BY <2>2, <2>3, Extends
  <2> QED BY <2>4 DEF f1, s1, h1, ch1
<1>8. f2 \in [Copies -> [Clusters -> Marks]] /\ f2[1] = With(m1.fat[1], last, new)
  <2>1. f2 \in [Copies -> [Clusters -> Marks]]
    BY <1>4, <1>5, FatsAre
  <2>2. f2[1] = With(m1.fat[1], last, new)
    BY VolumeFacts DEF Fats, With
  <2> QED BY <2>1, <2>2
<1>9. ch2 \in [Owners -> Seq(Clusters)]
  <2>1. Append(m.ch[p], new) \in Seq(Clusters)
    BY <1>4
  <2> HIDE DEF n
  <2> QED BY <1>4, <2>1 DEF With
<1>10. Owned(f2[1], m1.sect, m.hdl, ch2, Nobody) /\ Dirs(m1.sect, ch2) = Dirs(m.sect, m.ch)
  BY <1>1, <1>2, <1>7, <1>8
<1>11. n.fat = f2 /\ n.sect = m1.sect /\ n.hdl = m.hdl /\ n.ch = ch2 /\ n = Machine(f2, m1.sect, m1.hdl, n.ch)
  BY <1>2 DEF Machine
<1>12. n \in Machines
  <2> HIDE DEF f2, ch2
  <2> QED BY <1>2, <1>4, <1>8, <1>9 DEF Machine, Machines
<1>12a. \A q \in Owners : q # p => ch2[q] = m.ch[q]
  BY <1>4 DEF With
<1>12b. \A k \in DOMAIN m.ch[p] : k \in DOMAIN ch2[p] /\ ch2[p][k] = m.ch[p][k]
  <2>1. m.ch[p] \in Seq(Clusters)
    BY <1>4
  <2>2. ch2[p] = Append(m.ch[p], new)
    BY <1>4 DEF With
  <2> HIDE DEF n, ch2
  <2> DEFINE c == m.ch[p]
  <2> HIDE DEF c
  <2>3. c \in Seq(Clusters)
    BY <2>1 DEF c
  <2>4. \A k \in DOMAIN c : k \in DOMAIN Append(c, new) /\ Append(c, new)[k] = c[k]
    BY <2>3
  <2> QED BY <2>2, <2>4 DEF c
<1> HIDE DEF n, f2, ch2
<1>13. n \in Sound(Nobody) /\ Dirs(n.sect, n.ch) = Dirs(m.sect, m.ch)
  BY <1>10, <1>11, <1>12, SoundIs
<1>14. \A d \in Dirs(m1.sect, m1.ch), q \in Position : In(m1.ch, d, q) => In(n.ch, d, q)
  <2> SUFFICES ASSUME NEW d \in Dirs(m1.sect, m1.ch), NEW q \in Position, In(m1.ch, d, q)
               PROVE  In(n.ch, d, q)
    OBVIOUS
  <2>1. d \in Owners
    BY DirsAreOwners
  <2>2. \A k \in DOMAIN m.ch[d] : k \in DOMAIN ch2[d] /\ ch2[d][k] = m.ch[d][k]
    BY <1>12a, <1>12b, <2>1
  <2> QED BY <1>2, <1>11, <2>2 DEF In
<1>15. \A q \in Position : \/ n.ch[q] = m1.ch[q] \/ EntryAt(m1.sect, q).isdir
                           \/ m1.hdl.open /\ q = m1.hdl.at
  <2> SUFFICES ASSUME NEW q \in Position, n.ch[q] # m1.ch[q]
               PROVE  EntryAt(m1.sect, q).isdir \/ (m1.hdl.open /\ q = m1.hdl.at)
    OBVIOUS
  <2>1. q = p
    BY <1>2, <1>11, <1>12a, EntryFacts
  <2>2. p \in Dirs(m1.sect, m1.ch) => EntryAt(m1.sect, p).isdir
    BY <2>1, EntryFacts DEF Dirs
  <2> QED BY <1>6, <2>1, <2>2
<1>16. Spares(m1, n, Nobody, cl) /\ Spares(n, n, Nobody, cl)
  <2>1. Spares(m1, n, Nobody, cl)
    BY <1>1, <1>11, <1>13, <1>14, <1>15, SparesBuilding
  <2>2. Spares(n, n, Nobody, cl)
    BY EntryFacts, SparesItself
  <2> QED BY <2>1, <2>2
<1>17. Runs(FatSet(last, new), m1, n, Nobody, cl)
  <2>1. n = Machine(Fats(m1.fat, last, new), m1.sect, m1.hdl, n.ch)
    BY <1>11 DEF f2
  <2> QED BY <1>1, <1>5, <1>13, <1>16, <2>1, FatSetRuns
<1>18. Runs(Grow(last, new), m, n, Nobody, cl)
  BY <1>1, <1>17, RunsCompose DEF Grow
<1>19. n = Grown(m, p, new)
  BY <1>2, <1>2a DEF n, f2, ch2, last, Grown
<1> QED
  BY <1>13, <1>18, <1>19 DEF last

LEMMA GrownIs ==
  ASSUME NEW x, NEW m \in Sound(x), NEW p \in Owners, m.ch[p] # <<>>, NEW new \in Clusters, Unowned(m.ch, new)
  PROVE  LET n == Grown(m, p, new)
         IN  /\ n.fat = Fats(Fats(m.fat, new, Eoc), Last(m.ch[p]), new) /\ n.hdl = m.hdl
             /\ \A c \in Clusters : c # new /\ Unowned(m.ch, c) => n.fat[1][c] = m.fat[1][c]
             /\ \A c \in Clusters : c # new => n.sect[c] = m.sect[c]
             /\ \A t \in Slot : n.sect[new][t] = End
             /\ n.ch[p] = Append(m.ch[p], new) /\ \A q \in Owners : q # p => n.ch[q] = m.ch[q]
             /\ \A d \in Owners, q \in Position : In(n.ch, d, q) <=> In(m.ch, d, q) \/ (d = p /\ q[1] = new)
             /\ \A c \in Clusters : Unowned(n.ch, c) <=> Unowned(m.ch, c) /\ c # new
             /\ \A q \in Position : q[1] # new => EntryAt(n.sect, q) = EntryAt(m.sect, q)
<1> DEFINE n == Grown(m, p, new)
           last == Last(m.ch[p])
           c2 == Append(m.ch[p], new)
<1>1. n.fat = Fats(Fats(m.fat, new, Eoc), last, new) /\ n.hdl = m.hdl
      /\ n.sect = [m.sect EXCEPT ![new] = Filled(End)] /\ n.ch = With(m.ch, p, c2)
  BY DEF Grown, Machine
<1>2. m \in Machines
  BY SoundIs
<1>3. m.fat \in [Copies -> [Clusters -> Marks]] /\ m.sect \in [Clusters -> [Slot -> Entries]]
      /\ m.fat[1] \in [Clusters -> Marks] /\ m.ch \in [Owners -> Seq(Clusters)]
  BY <1>2, MachineIs
<1>4. m.ch[p] \in Seq(Clusters) /\ Len(m.ch[p]) \in Nat \ {0}
  BY <1>3
<1>5. last = m.ch[p][Len(m.ch[p])] /\ last \in Clusters /\ Len(m.ch[p]) \in DOMAIN m.ch[p]
  BY <1>4 DEF Last
<1>6. n.fat[1] = [[m.fat[1] EXCEPT ![new] = Eoc] EXCEPT ![last] = new]
  BY <1>1, VolumeFacts DEF Fats
<1>7. n.sect[new] = Filled(End) /\ \A c \in Clusters : c # new => n.sect[c] = m.sect[c]
  BY <1>1, <1>3
<1>8. n.ch[p] = c2 /\ \A q \in Owners : q # p => n.ch[q] = m.ch[q]
  BY <1>1, <1>3 DEF With
<1>9. \A t \in Slot : n.sect[new][t] = End
  BY <1>7, FilledIs, EntryFacts
<1>10. \A q \in Position : q[1] # new => EntryAt(n.sect, q) = EntryAt(m.sect, q)
  BY <1>7, EntryFacts DEF EntryAt
<1>11. DOMAIN c2 = 1 .. Len(m.ch[p]) + 1 /\ DOMAIN m.ch[p] = 1 .. Len(m.ch[p])
       /\ c2[Len(m.ch[p]) + 1] = new /\ \A k \in 1 .. Len(m.ch[p]) : c2[k] = m.ch[p][k]
  <2> DEFINE c == m.ch[p]
  <2> HIDE DEF c
  <2>1. c \in Seq(Clusters)
    BY <1>4 DEF c
  <2>2. DOMAIN Append(c, new) = 1 .. Len(c) + 1 /\ DOMAIN c = 1 .. Len(c)
       /\ Append(c, new)[Len(c) + 1] = new /\ \A k \in 1 .. Len(c) : Append(c, new)[k] = c[k]
    BY <2>1
  <2> QED BY <2>2 DEF c
<1> HIDE DEF n, c2
<1>12. ASSUME NEW c \in Clusters, c # new, Unowned(m.ch, c)
       PROVE  n.fat[1][c] = m.fat[1][c]
  <2>1. c # last
    BY <1>5, <1>12 DEF Unowned
  <2> HIDE DEF last
  <2> QED BY <1>3, <1>5, <1>6, <1>12, <2>1
<1>13. \A k : k \in 1 .. Len(m.ch[p]) + 1 <=> k \in 1 .. Len(m.ch[p]) \/ k = Len(m.ch[p]) + 1
  BY <1>4
<1>14. ASSUME NEW d \in Owners, NEW q \in Position
       PROVE  In(n.ch, d, q) <=> In(m.ch, d, q) \/ (d = p /\ q[1] = new)
  <2>1. CASE d # p
    BY <1>8, <2>1 DEF In
  <2>2. CASE d = p
    BY <1>8, <1>11, <1>13, <2>2 DEF In
  <2> QED BY <2>1, <2>2
<1>15. ASSUME NEW c \in Clusters
       PROVE  Unowned(n.ch, c) <=> Unowned(m.ch, c) /\ c # new
  <2>1. (\A i \in DOMAIN n.ch[p] : n.ch[p][i] # c) <=> (\A i \in DOMAIN m.ch[p] : m.ch[p][i] # c) /\ c # new
    BY <1>8, <1>11, <1>13
  <2> QED BY <1>8, <2>1 DEF Unowned
<1>16. /\ n.fat = Fats(Fats(m.fat, new, Eoc), Last(m.ch[p]), new) /\ n.hdl = m.hdl
       /\ n.ch[p] = Append(m.ch[p], new)
  BY <1>1, <1>8 DEF c2
<1> QED
  BY <1>7, <1>8, <1>9, <1>10, <1>12, <1>14, <1>15, <1>16 DEF n

\* A chain is freed from its start.
FreedTo(f, c, k) ==
  [i \in Copies |-> [d \in Clusters |-> IF \E j \in 1 .. k : c[j] = d THEN Free ELSE f[i][d]]]

LEMMA FreeChainRuns ==
  ASSUME NEW cl, NEW x \in Position, NEW m \in Sound(x), Aimed(m, m, cl, x), Hollow(m, x)
  PROVE  LET n == Machine(FreedTo(m.fat, m.ch[x], Len(m.ch[x])), m.sect, m.hdl, m.ch)
         IN  /\ n \in Sound(x)
             /\ Runs(FlattenSeq([k \in DOMAIN m.ch[x] |-> FatSet(m.ch[x][k], Free)]), m, n, x, cl)
<1> DEFINE c == m.ch[x]
           l == Len(c)
           F(k) == FreedTo(m.fat, c, k)
           M == [k \in 0 .. l |-> Machine(F(k), m.sect, m.hdl, m.ch)]
           seqs == [k \in 1 .. l |-> FatSet(c[k], Free)]
<1>1. m \in Machines
  BY SoundIs
<1>2. m.fat \in [Copies -> [Clusters -> Marks]] /\ m.sect \in [Clusters -> [Slot -> Entries]]
      /\ m.hdl \in Handles /\ m.ch \in [Owners -> Seq(Clusters)] /\ m = Machine(m.fat, m.sect, m.hdl, m.ch)
  BY <1>1, MachineIs
<1>3. c \in Seq(Clusters) /\ l \in Nat /\ DOMAIN c = 1 .. l /\ \A k \in 1 .. l : c[k] \in Clusters
  <2>1. c \in Seq(Clusters)
    BY <1>2, EntryFacts
  <2> QED BY <2>1
<1>4. Free \in Marks
  BY DEF Marks
<1>5. F(0) = m.fat
  <2>1. \A i \in Copies, d \in Clusters : F(0)[i][d] = m.fat[i][d]
    BY DEF FreedTo
  <2>2. F(0) \in [Copies -> [Clusters -> Marks]]
    BY <1>2, <1>4 DEF FreedTo
  <2> HIDE DEF F
  <2> QED BY <1>2, <2>1, <2>2
<1> HIDE DEF c, l
<1>6. ASSUME NEW k \in 1 .. l
      PROVE  F(k) = Fats(F(k - 1), c[k], Free)
  <2>1. c[k] \in Clusters /\ k \in 1 .. l /\ l \in Nat
    BY <1>3
  <2>2. \A j : j \in 1 .. k <=> j \in 1 .. k - 1 \/ j = k
    BY <2>1
  <2>3. \A d : (\E j \in 1 .. k : c[j] = d) <=> (\E j \in 1 .. k - 1 : c[j] = d) \/ d = c[k]
    BY <2>2
  <2> DEFINE P(d) == \E j \in 1 .. k : c[j] = d
             R(d) == \E j \in 1 .. k - 1 : c[j] = d
  <2>4. \A d : P(d) <=> R(d) \/ d = c[k]
    BY <2>3
  <2>5. F(k) = [i \in Copies |-> [d \in Clusters |-> IF P(d) THEN Free ELSE m.fat[i][d]]]
        /\ F(k - 1) = [i \in Copies |-> [d \in Clusters |-> IF R(d) THEN Free ELSE m.fat[i][d]]]
    BY DEF FreedTo
  <2> DEFINE g == F(k - 1)
  <2> HIDE DEF P, R, F
  <2>6. Fats(g, c[k], Free) = [i \in Copies |-> [g[i] EXCEPT ![c[k]] = Free]]
    BY DEF Fats
  <2>7. \A i \in Copies : F(k)[i] = [g[i] EXCEPT ![c[k]] = Free]
    <3> SUFFICES ASSUME NEW i \in Copies PROVE F(k)[i] = [g[i] EXCEPT ![c[k]] = Free]
      OBVIOUS
    <3>1. F(k)[i] = [d \in Clusters |-> IF P(d) THEN Free ELSE m.fat[i][d]]
          /\ g[i] = [d \in Clusters |-> IF R(d) THEN Free ELSE m.fat[i][d]]
      BY <2>5
    <3> HIDE DEF g
    <3> QED BY <2>1, <2>4, <3>1
  <2>8. F(k) = [i \in Copies |-> F(k)[i]]
    BY <2>5
  <2> HIDE DEF g
  <2>9. F(k) = Fats(g, c[k], Free)
    BY <2>6, <2>7, <2>8
  <2> QED BY <2>9 DEF g
<1> HIDE DEF F
<1>7. \A k \in 0 .. l : M[k].fat = F(k) /\ M[k].sect = m.sect /\ M[k].hdl = m.hdl /\ M[k].ch = m.ch
                        /\ M[k] = Machine(F(k), m.sect, m.hdl, m.ch)
  BY DEF Machine
<1> HIDE DEF M
<1>8. ASSUME NEW k \in 1 .. l, M[k - 1] \in Sound(x)
      PROVE  M[k] \in Sound(x) /\ Runs(seqs[k], M[k - 1], M[k], x, cl)
  <2> DEFINE a == M[k - 1]
             b == M[k]
  <2>1. k - 1 \in 0 .. l /\ k \in 0 .. l /\ c[k] \in Clusters
    BY <1>3
  <2>2. a.sect = m.sect /\ a.hdl = m.hdl /\ a.ch = m.ch /\ a.fat = F(k - 1) /\ b.ch = m.ch
        /\ b.sect = m.sect /\ b.hdl = m.hdl
    BY <1>7, <2>1
  <2>3. b = Machine(Fats(a.fat, c[k], Free), a.sect, a.hdl, a.ch)
    BY <1>6, <1>7, <2>1, <2>2
  <2>4. a \in Sound(x) /\ seqs[k] = FatSet(c[k], Free)
    BY <1>8
  <2> HIDE DEF a, b, seqs
  <2>5. b \in Sound(x)
    <3>1. x \in Owners /\ \E i \in DOMAIN a.ch[x] : a.ch[x][i] = c[k]
      <4>1. k \in DOMAIN c
        BY <1>3
      <4> QED BY <2>2, <4>1, EntryFacts DEF c
    <3> QED BY <1>4, <2>1, <2>3, <2>4, <3>1, FatSound
  <2>6. Spares(m, m, x, cl)
    BY SparesItself
  <2>7. Spares(a, b, x, cl) /\ Spares(b, b, x, cl)
    BY <2>2, <2>6, SparesLooks
  <2>8. b = Machine(Fats(a.fat, c[k], Free), a.sect, a.hdl, b.ch)
    BY <2>2, <2>3
  <2>9. Runs(FatSet(c[k], Free), a, b, x, cl)
    BY <1>4, <2>1, <2>4, <2>5, <2>7, <2>8, FatSetRuns
  <2> QED BY <2>4, <2>5, <2>9 DEF a, b
<1>9. M[0] = m
  <2>1. 0 \in 0 .. l
    BY <1>3
  <2> QED BY <1>2, <1>5, <1>7, <2>1
<1> DEFINE T == {k \in 0 .. l : M[k] \notin Sound(x)}
<1>10. T = {}
  <2> SUFFICES ASSUME T # {} PROVE FALSE
    OBVIOUS
  <2>1. PICK k \in T : \A j \in T : k <= j
    <3>1. T \in SUBSET Nat
      OBVIOUS
    <3> HIDE DEF T
    <3> QED BY <3>1, LeastElement
  <2>2. k \in 0 .. l /\ M[k] \notin Sound(x)
    OBVIOUS
  <2>3. k # 0
    BY <1>9, <2>2
  <2>4. k \in 1 .. l /\ k - 1 \in 0 .. l /\ ~ (k <= k - 1)
    BY <1>3, <2>2, <2>3
  <2>5. M[k - 1] \in Sound(x)
    BY <2>1, <2>4
  <2> HIDE DEF T
  <2> QED BY <1>8, <2>2, <2>4, <2>5
<1>11. \A k \in 0 .. l : M[k] \in Sound(x)
  BY <1>10
<1>12. \A k \in 1 .. l : Runs(seqs[k], M[k - 1], M[k], x, cl)
  <2>1. \A k \in 1 .. l : k - 1 \in 0 .. l
    BY <1>3
  <2> HIDE DEF seqs
  <2> QED BY <1>8, <1>11, <2>1
<1>13. seqs = [k \in 1 .. l |-> seqs[k]]
  OBVIOUS
<1> HIDE DEF seqs
<1>14. Runs(FlattenSeq(seqs), M[0], M[l], x, cl)
  BY <1>3, <1>9, <1>12, <1>13, RoundsRun
<1>15. l \in 0 .. l
  BY <1>3
<1>16. seqs = [k \in DOMAIN c |-> FatSet(c[k], Free)]
  BY <1>3 DEF seqs
<1>17. M[l] = Machine(FreedTo(m.fat, c, l), m.sect, m.hdl, m.ch)
  BY <1>7, <1>15 DEF F
<1>18. Runs(FlattenSeq([k \in DOMAIN c |-> FatSet(c[k], Free)]), m, M[l], x, cl)
  BY <1>9, <1>14, <1>16
<1>19. M[l] \in Sound(x)
  BY <1>11, <1>15
<1> QED
  BY <1>17, <1>18, <1>19 DEF c, l

-----------------------------------------------------------------------------
(* The books. *)

\* The copies of the FAT agree, and the clusters in use are somebody's or among the lost.
Tidy(m, lost) ==
  /\ \A i \in Copies : m.fat[i] = m.fat[1]
  /\ \A c \in Clusters : m.fat[1][c] # Free /\ Unowned(m.ch, c) => c \in lost

\* All of the file that is being written has been counted, and its entry leads nowhere yet.
Settled(m) ==
  m.hdl.open => /\ Pending(m.sect, m.hdl.at)
                /\ Exact => m.hdl.size = Len(m.ch[m.hdl.at])

LEMMA TidyClaimed ==
  ASSUME NEW m \in Machines, NEW new \in Clusters, NEW lost, Tidy(m, lost)
  PROVE  Tidy(Claimed(m, new), lost \cup {new})
<1> DEFINE n == Claimed(m, new)
<1>1. n.fat = Fats(m.fat, new, Eoc) /\ n.ch = m.ch
  BY DEF Claimed, Machine
<1> HIDE DEF n
<1>2. m.fat \in [Copies -> [Clusters -> Marks]]
  BY MachineIs
<1>3. \A i \in Copies : n.fat[i] = [m.fat[i] EXCEPT ![new] = Eoc]
  BY <1>1 DEF Fats
<1>4. 1 \in Copies /\ m.fat[1] \in [Clusters -> Marks]
  BY <1>2, VolumeFacts
<1>5. \A i \in Copies : n.fat[i] = n.fat[1]
  BY <1>3, <1>4 DEF Tidy
<1>6. \A c \in Clusters : c # new => n.fat[1][c] = m.fat[1][c]
  BY <1>3, <1>4
<1>7. Tidy(n, lost \cup {new})
  BY <1>1, <1>5, <1>6 DEF Tidy
<1> QED
  BY <1>7 DEF n

LEMMA TidyGrown ==
  ASSUME NEW x, NEW m \in Sound(x), NEW p \in Owners, m.ch[p] # <<>>, NEW new \in Clusters,
         Unowned(m.ch, new), NEW lost, Tidy(m, lost)
  PROVE  Tidy(Grown(m, p, new), lost)
<1> DEFINE n == Grown(m, p, new)
           last == Last(m.ch[p])
<1>1. /\ n.fat = Fats(Fats(m.fat, new, Eoc), last, new)
      /\ \A c \in Clusters : c # new /\ Unowned(m.ch, c) => n.fat[1][c] = m.fat[1][c]
      /\ \A c \in Clusters : Unowned(n.ch, c) <=> Unowned(m.ch, c) /\ c # new
  BY GrownIs
<1> HIDE DEF n, last
<1>2. \A i \in Copies : n.fat[i] = [[m.fat[i] EXCEPT ![new] = Eoc] EXCEPT ![last] = new]
  BY <1>1 DEF Fats
<1>3. \A i \in Copies : n.fat[i] = n.fat[1]
  BY <1>2, VolumeFacts DEF Tidy
<1>4. Tidy(n, lost)
  BY <1>1, <1>3 DEF Tidy
<1> QED
  BY <1>4 DEF n

\* A chain has been freed, and belongs to nobody any more.
LEMMA TidyFreed ==
  ASSUME NEW m \in Machines, NEW x \in Owners, NEW lost, Tidy(m, lost), NEW n,
         n.fat = FreedTo(m.fat, m.ch[x], Len(m.ch[x])), \A q \in Owners : q # x => n.ch[q] = m.ch[q]
  PROVE  Tidy(n, lost)
<1> DEFINE c == m.ch[x]
<1>1. m.fat \in [Copies -> [Clusters -> Marks]] /\ m.ch \in [Owners -> Seq(Clusters)]
  BY MachineIs
<1>2. c \in Seq(Clusters) /\ DOMAIN c = 1 .. Len(c)
  BY <1>1
<1>3. \A i \in Copies, d \in Clusters :
         n.fat[i][d] = IF \E j \in 1 .. Len(c) : c[j] = d THEN Free ELSE m.fat[i][d]
  BY DEF FreedTo
<1>4. 1 \in Copies
  BY VolumeFacts
<1>5. \A i \in Copies : n.fat[i] = n.fat[1]
  BY <1>4 DEF FreedTo, Tidy
<1>6. ASSUME NEW d \in Clusters, n.fat[1][d] # Free, Unowned(n.ch, d)
      PROVE  d \in lost
  <2>1. m.fat[1][d] # Free /\ \A j \in DOMAIN c : c[j] # d
    BY <1>2, <1>3, <1>4, <1>6
  <2>2. Unowned(m.ch, d)
    BY <1>6, <2>1 DEF Unowned
  <2> QED BY <2>1, <2>2 DEF Tidy
<1> QED
  BY <1>5, <1>6 DEF Tidy

-----------------------------------------------------------------------------
(* What a call reads of a sound volume. *)

\* m is the machine there is.
Now(m) == m.fat = fat /\ m.sect = sect /\ m.hdl = hdl

LEMMA NowIs ==
  ASSUME NEW x, NEW m \in Sound(x), Now(m)
  PROVE  /\ fat \in [Copies -> [Clusters -> Marks]] /\ fat[1] \in [Clusters -> Marks]
         /\ sect \in [Clusters -> [Slot -> Entries]] /\ hdl \in Handles
         /\ m.ch \in [Owners -> Seq(Clusters)] /\ Owned(fat[1], sect, hdl, m.ch, x)
         /\ \A q : At(q) = EntryAt(sect, q)
<1>1. m \in Machines /\ Owned(m.fat[1], m.sect, m.hdl, m.ch, x)
  BY SoundIs
<1>2. m.fat \in [Copies -> [Clusters -> Marks]] /\ m.fat[1] \in [Clusters -> Marks]
      /\ m.sect \in [Clusters -> [Slot -> Entries]] /\ m.hdl \in Handles
      /\ m.ch \in [Owners -> Seq(Clusters)]
  BY <1>1, MachineIs
<1> QED
  BY <1>1, <1>2 DEF Now, At, EntryAt

LEMMA StartOfPart ==
  ASSUME NEW s \in Seq(Clusters), NEW k \in 1 .. Len(s)
  PROVE  LET part == SubSeq(s, 1, k)
         IN  /\ part \in Seq(Clusters) /\ Len(part) = k /\ DOMAIN part = 1 .. k
             /\ \A i \in 1 .. k : part[i] = s[i]
             /\ k = Len(s) => part = s
<1> DEFINE part == SubSeq(s, 1, k)
<1>1. k \in Nat /\ 0 + k <= Len(s) /\ 1 = 0 + 1 /\ k = 0 + k
  OBVIOUS
<1>2. part \in Seq(Clusters) /\ Len(part) = k /\ \A i \in 1 .. k : part[i] = s[0 + i]
  BY <1>1, PartIs
<1>3. \A i \in 1 .. k : 0 + i = i
  OBVIOUS
<1> HIDE DEF part
<1>4. \A i \in 1 .. k : part[i] = s[i]
  BY <1>2, <1>3
<1>5. k = Len(s) => part = s
  BY <1>2, <1>4
<1> QED
  BY <1>2, <1>4, <1>5 DEF part

\* A walk reads the whole chain s, or a part of it.
ReadsAll(walk, s) == Chain(walk, s[1], NoFault) = s /\ fat[1][Last(s)] = Eoc
ReadsPart(walk, s) == \E k \in 1 .. Len(s) : Chain(walk, s[1], NoFault) = SubSeq(s, 1, k)

\* There is a chain of p to walk.
Walkable(x, m, p) == m \in Sound(x) /\ Now(m) /\ p \in Owners /\ m.ch[p] # <<>>

\* A walk goes to the end of a chain, or to where it has been freed.
LEMMA WalkIs ==
  ASSUME NEW x, NEW m, NEW walk, NEW p, Walkable(x, m, p)
  PROVE  ReadsPart(walk, m.ch[p]) /\ (p # x => ReadsAll(walk, m.ch[p]))
<1> DEFINE s == m.ch[p]
           n == Len(s)
           T == {i \in 1 .. n : fat[1][s[i]] \notin Clusters}
<1>0. m \in Sound(x) /\ Now(m) /\ p \in Owners /\ m.ch[p] # <<>>
  BY DEF Walkable
<1>1. m.ch \in [Owners -> Seq(Clusters)] /\ Owned(fat[1], sect, hdl, m.ch, x)
  BY <1>0, NowIs
<1> USE <1>0
<1>2. s \in Seq(Clusters) /\ n \in Nat \ {0} /\ DOMAIN s = 1 .. n
  <2>1. s \in Seq(Clusters)
    BY <1>1
  <2> QED BY <2>1
<1>3. n <= MaxCluster
  <2>1. Apart(m.ch)
    BY <1>1 DEF Owned
  <2>2. n <= MaxCluster - 2
    BY <1>1, <2>1, ChainFits
  <2> QED BY <1>2, <2>2, VolumeFacts
<1>4. \A i \in 1 .. n : fat[1][s[i]] = LinkAfter(s, i) \/ (p = x /\ fat[1][s[i]] = Free)
  BY <1>1, <1>2 DEF Owned, Spelt
<1>4a. /\ n \in 1 .. n /\ LinkAfter(s, n) = Eoc
       /\ \A i \in 1 .. n : i # n => i + 1 \in 1 .. n /\ LinkAfter(s, i) = s[i + 1] /\ s[i + 1] \in Clusters
  <2>1. n \in 1 .. n /\ \A i \in 1 .. n : i # n => i + 1 \in 1 .. n
    BY <1>2
  <2>2. \A i \in 1 .. n : s[i] \in Clusters
    BY <1>2
  <2> QED BY <2>1, <2>2 DEF LinkAfter
<1>4b. Last(s) = s[n]
  BY DEF Last
<1> HIDE DEF s, n
<1>5. n \in T
  BY <1>4, <1>4a, VolumeFacts
<1>6. PICK k \in T : \A i \in T : k <= i
  <2>1. T \in SUBSET Nat /\ T # {}
    BY <1>5
  <2> HIDE DEF T
  <2> QED BY <2>1, LeastElement
<1>7. k \in 1 .. n /\ fat[1][s[k]] \notin Clusters /\ \A i \in 1 .. k - 1 : i \notin T
  <2>1. \A i \in 1 .. k - 1 : ~ (k <= i)
    BY <1>2
  <2> QED BY <1>6, <2>1
<1>8. \A i \in 1 .. k - 1 : fat[1][s[i]] = s[i + 1]
  <2> SUFFICES ASSUME NEW i \in 1 .. k - 1 PROVE fat[1][s[i]] = s[i + 1]
    OBVIOUS
  <2>1. i \in 1 .. n /\ i # n
    BY <1>2, <1>7
  <2>2. fat[1][s[i]] \in Clusters
    BY <1>7, <2>1
  <2> QED BY <1>4, <1>4a, <2>1, <2>2, VolumeFacts
<1>9. Chain(walk, s[1], NoFault) = SubSeq(s, 1, k)
  BY <1>2, <1>3, <1>7, <1>8, ChainStops DEF n
<1>10. ASSUME p # x PROVE Chain(walk, s[1], NoFault) = s /\ fat[1][Last(s)] = Eoc
  <2>1. k = n
    <3>1. SUFFICES ASSUME k # n PROVE FALSE
      OBVIOUS
    <3>2. fat[1][s[k]] \in Clusters
      BY <1>4, <1>4a, <1>7, <1>10, <3>1
    <3> QED BY <1>7, <3>2
  <2>2. SubSeq(s, 1, k) = s
    BY <1>2, <1>7, <2>1, StartOfPart DEF n
  <2>3. fat[1][s[n]] = Eoc
    BY <1>4, <1>4a, <1>10
  <2> QED BY <1>4b, <1>9, <2>2, <2>3
<1> QED
  BY <1>7, <1>9, <1>10 DEF s, n, ReadsAll, ReadsPart

LEMMA DirIs ==
  ASSUME NEW f, NEW s, NEW h, NEW ch, NEW x, Owned(f, s, h, ch, x), NEW d \in Dirs(s, ch)
  PROVE  d \in Owners /\ ch[d] # <<>> /\ ch[d] \in Seq(Clusters) /\ ch[d][1] \in Clusters
<1>1. d \in Owners
  BY DirsAreOwners
<1>2. ch[d] # <<>>
  <2>1. CASE d = Top
    BY <2>1 DEF Owned
  <2>2. CASE d # Top
    <3>1. d \in Position /\ In(ch, Top, d) /\ Used(s, d) /\ EntryAt(s, d).isdir
      BY <2>2 DEF Dirs
    <3>2. Top \in Dirs(s, ch)
      BY DirsAreOwners
    <3> QED BY <3>1, <3>2 DEF Owned, Leading
  <2> QED BY <2>1, <2>2
<1>3. ch[d] \in Seq(Clusters)
  BY <1>1 DEF Owned
<1> QED
  BY <1>1, <1>2, <1>3

\* What is written in the part of a directory that a walk shows
LEMMA DirectoryEnds ==
  ASSUME NEW x, NEW m \in Sound(x), Now(m), NEW d \in Dirs(sect, m.ch),
         NEW k \in 1 .. Len(m.ch[d])
  PROVE  EndedIn(SubSeq(m.ch[d], 1, k))
<1> DEFINE s == m.ch[d]
           part == SubSeq(s, 1, k)
<1>1. Owned(fat[1], sect, hdl, m.ch, x)
  BY NowIs
<1>2. s \in Seq(Clusters) /\ DOMAIN s = 1 .. Len(s) /\ Len(s) \in Nat
  <2>1. s \in Seq(Clusters)
    BY <1>1, DirIs
  <2> QED BY <2>1
<1>3. Ended(sect, m.ch)
  BY <1>1 DEF Owned
<1>4. \A i, j \in DOMAIN s, t, u \in Slot :
         Before(i, t, j, u) /\ sect[s[i]][t] = End => sect[s[j]][u] = End
  BY <1>3 DEF Ended
<1> HIDE DEF s
<1>5. DOMAIN part = 1 .. k /\ \A i \in 1 .. k : part[i] = s[i] /\ i \in DOMAIN s
  <2>1. k \in 1 .. Len(s)
    BY DEF s
  <2>2. DOMAIN part = 1 .. k /\ \A i \in 1 .. k : part[i] = s[i]
    BY <1>2, <2>1, StartOfPart
  <2>3. \A i \in 1 .. k : i \in DOMAIN s
    BY <1>2, <2>1
  <2> QED BY <2>2, <2>3
<1> HIDE DEF part
<1>6. EndedIn(part)
  BY <1>4, <1>5 DEF EndedIn
<1> QED
  BY <1>6 DEF part, s

\* A directory is read to its end.
LEMMA DirectoryReads ==
  ASSUME NEW x, NEW m \in Sound(x), Now(m), NEW walk, NEW d \in Dirs(sect, m.ch), d # x
  PROVE  ReadsAll(walk, m.ch[d]) /\ EndedIn(m.ch[d])
<1>1. Owned(fat[1], sect, hdl, m.ch, x)
  BY NowIs
<1>2. d \in Owners /\ m.ch[d] # <<>> /\ m.ch[d] \in Seq(Clusters)
  BY <1>1, DirIs
<1>2a. Walkable(x, m, d)
  BY <1>2 DEF Walkable
<1>3. ReadsAll(walk, m.ch[d])
  BY <1>2a, WalkIs
<1>4. Len(m.ch[d]) \in 1 .. Len(m.ch[d])
  BY <1>2
<1>5. SubSeq(m.ch[d], 1, Len(m.ch[d])) = m.ch[d]
  BY <1>2, <1>4, StartOfPart
<1>6. EndedIn(SubSeq(m.ch[d], 1, Len(m.ch[d])))
  BY <1>4, DirectoryEnds
<1> QED
  BY <1>3, <1>5, <1>6

\* The only entry with a name is the first, in front of the end marker.
LEMMA NameIsFound ==
  ASSUME NEW x, NEW m \in Sound(x), Now(m), NEW d \in Dirs(sect, m.ch), d # x, NEW name \in Names
  PROVE  LET p == DirFind(m.ch[d][1], name, NoFault)
         IN  /\ \/ p = <<>> /\ \A q \in Position : In(m.ch, d, q) => EntryAt(sect, q).name # name
                \/ p \in Position /\ In(m.ch, d, p) /\ EntryAt(sect, p).name = name
             /\ DirLocate(m.ch[d][1], name, NoFault) = p
             /\ CreateLocate(m.ch[d][1], name, NoFault) = p
<1> DEFINE s == m.ch[d]
           p == DirFind(s[1], name, NoFault)
           scan == PositionsIn[s]
           shown == UpToEnd[scan]
           W == {q \in Position : At(q).name = name}
           V == {q \in Position : At(q).name = name /\ \A t \in 0 .. q[2] : At(<<q[1], t>>) # End}
<1>1. Owned(fat[1], sect, hdl, m.ch, x) /\ \A q : At(q) = EntryAt(sect, q)
  BY NowIs
<1>2. d \in Owners /\ s # <<>> /\ s \in Seq(Clusters) /\ s[1] \in Clusters
      /\ Len(s) \in Nat \ {0} /\ DOMAIN s = 1 .. Len(s)
  <2>1. d \in Owners /\ s # <<>> /\ s \in Seq(Clusters) /\ s[1] \in Clusters
    BY <1>1, DirIs
  <2> QED BY <2>1
<1>3. ASSUME NEW walk PROVE Chain(walk, s[1], NoFault) = s /\ EndedIn(s)
  <2>1. ReadsAll(walk, m.ch[d]) /\ EndedIn(m.ch[d])
    BY DirectoryReads
  <2> QED BY <2>1 DEF ReadsAll
<1>3a. ASSUME NEW U
       PROVE  \/ /\ FirstAmong(scan, U) = <<>>
                 /\ \A j \in DOMAIN s, t \in Slot : <<s[j], t>> \notin U
              \/ /\ FirstAmong(scan, U) # <<>> /\ FirstAmong(scan, U) \in U
                 /\ \E j \in DOMAIN s, t \in Slot : FirstAmong(scan, U) = <<s[j], t>>
  <2>1. \/ /\ FirstAmong(scan, U) = <<>>
           /\ \A j \in DOMAIN s, t \in Slot : <<s[j], t>> \notin U
        \/ /\ FirstAmong(scan, U) \in U
           /\ \E j \in DOMAIN s, t \in Slot : FirstAmong(scan, U) = <<s[j], t>>
    <3>1. s \in Seq(Clusters)
      BY <1>2
    <3> HIDE DEF s
    <3> QED BY <3>1, FirstAmongIs
  <2>2. \A j, t : <<s[j], t>> # <<>>
    OBVIOUS
  <2> HIDE DEF scan
  <2> QED BY <2>1, <2>2
<1>4. EndedIn(s)
  BY <1>3
<1>5. /\ Scan("find", s[1], NoFault) = scan /\ Scan("locate", s[1], NoFault) = scan
      /\ Shown("find", s[1], NoFault) = shown
  BY <1>3 DEF Scan, Shown
<1>6. NoFault # <<"scan", s[1]>>
  BY DEF NoFault
<1>7. scan \in Seq(Position) /\ DOMAIN scan = 1 .. Len(scan) /\ \A i \in DOMAIN scan : scan[i] \in Position
  <2>1. scan \in Seq(Position) /\ DOMAIN scan = 1 .. Len(scan)
    BY <1>2, PlacesAre
  <2> HIDE DEF scan
  <2> QED BY <2>1
<1>8. shown \in Seq(Position) /\ \A i \in DOMAIN shown : shown[i] \in Position
  <2>1. shown \in Seq(Position)
    BY <1>7, UpToEndIs
  <2> HIDE DEF shown
  <2> QED BY <2>1
<1>9. p = FirstAmong(shown, W)
  <2>1. p = FirstOf(shown, LAMBDA q : At(q).name = name)
    BY <1>5, <1>6 DEF DirFind
  <2>2. {i \in DOMAIN shown : At(shown[i]).name = name} = {i \in DOMAIN shown : shown[i] \in W}
    BY <1>8
  <2> HIDE DEF shown, W, p
  <2> QED BY <2>1, <2>2 DEF FirstOf, FirstAmong
<1>10. DirLocate(s[1], name, NoFault) = FirstAmong(scan, W)
  <2>1. DirLocate(s[1], name, NoFault) = FirstOf(scan, LAMBDA q : At(q).name = name)
    BY <1>5 DEF DirLocate
  <2>2. {i \in DOMAIN scan : At(scan[i]).name = name} = {i \in DOMAIN scan : scan[i] \in W}
    BY <1>7
  <2> HIDE DEF scan, W
  <2> QED BY <2>1, <2>2 DEF FirstOf, FirstAmong
<1>11. CreateLocate(s[1], name, NoFault) = FirstAmong(scan, V)
  <2>1. CreateLocate(s[1], name, NoFault) =
          FirstOf(scan, LAMBDA q : At(q).name = name /\ \A t \in 0 .. q[2] : At(<<q[1], t>>) # End)
    BY <1>5 DEF CreateLocate
  <2>2. {i \in DOMAIN scan : At(scan[i]).name = name
                             /\ \A t \in 0 .. scan[i][2] : At(<<scan[i][1], t>>) # End}
          = {i \in DOMAIN scan : scan[i] \in V}
    BY <1>7
  <2> HIDE DEF scan, V
  <2> QED BY <2>1, <2>2 DEF FirstOf, FirstAmong
<1>12. FirstAmong(shown, W) = FirstAmong(scan, W)
  <2>1. \A q \in W : At(q) # End
    BY NameFacts, EntryFacts
  <2> HIDE DEF W, shown, scan
  <2> QED BY <1>2, <1>4, <2>1, ShownIs DEF shown, scan
<1> HIDE DEF shown, p
<1>13. \A q \in Position : In(m.ch, d, q) <=> \E k \in DOMAIN s : q[1] = s[k]
  BY DEF In
<1>14. p = <<>> => \A q \in Position : In(m.ch, d, q) => q \notin W
  <2> SUFFICES ASSUME p = <<>>, NEW q \in Position, NEW k \in DOMAIN s, q[1] = s[k], q \in W PROVE FALSE
    BY <1>13
  <2>1. q = <<s[k], q[2]>> /\ q[2] \in Slot
    BY EntryFacts
  <2>2. FirstAmong(scan, W) = <<>>
    BY <1>9, <1>12
  <2> HIDE DEF W, scan
  <2> QED BY <1>3a, <2>1, <2>2
<1>15. p # <<>> => p \in W /\ In(m.ch, d, p)
  <2> HIDE DEF W, scan
  <2> QED BY <1>3a, <1>9, <1>12 DEF In
<1>16. FirstAmong(scan, V) = p
  <2>1. V \subseteq W
    OBVIOUS
  <2>2. CASE p = <<>>
    <3>1. \A j \in DOMAIN s, t \in Slot : <<s[j], t>> \notin W
      <4> HIDE DEF W, scan
      <4> QED BY <1>3a, <1>9, <1>12, <2>2
    <3> HIDE DEF V, W, scan
    <3>2. \A j \in DOMAIN s, t \in Slot : <<s[j], t>> \notin V
      BY <2>1, <3>1
    <3> DEFINE q == FirstAmong(scan, V)
    <3>3. q # <<>> => q \in V /\ \E j \in DOMAIN s, t \in Slot : q = <<s[j], t>>
      BY <1>3a
    <3>4. q = <<>>
      <4> HIDE DEF q
      <4> QED BY <3>2, <3>3
    <3> QED BY <2>2, <3>4
  <2>3. CASE p # <<>>
    <3>1. p \in Position /\ At(p).name = name /\ In(m.ch, d, p)
      BY <1>15, <2>3
    <3>2. PICK k \in DOMAIN s : p[1] = s[k]
      BY <3>1 DEF In
    <3>3. p = <<s[k], p[2]>> /\ p[2] \in Slot /\ p[2] \in Nat
      BY <3>1, <3>2, EntryFacts, VolumeFacts
    <3>4. At(p) # End
      BY <3>1, NameFacts, EntryFacts
    <3>5. \A t \in 0 .. p[2] : At(<<p[1], t>>) # End
      <4> SUFFICES ASSUME NEW t \in 0 .. p[2], At(<<p[1], t>>) = End PROVE FALSE
        OBVIOUS
      <4>1. t \in Slot
        BY <3>3, VolumeFacts DEF Slot
      <4>2. t # p[2]
        BY <3>3, <3>2, <3>4
      <4>3. Before(k, t, k, p[2])
        BY <3>3, <4>2 DEF Before
      <4>4. sect[s[k]][t] = End
        BY <3>2 DEF At
      <4>5. sect[s[k]][p[2]] = End
        BY <1>4, <3>3, <4>1, <4>3, <4>4 DEF EndedIn
      <4> QED BY <3>2, <3>4, <4>5 DEF At
    <3>6. p \in V
      BY <3>1, <3>5
    <3>7. FirstAmong(scan, V) # <<>>
      <4>1. <<s[k], p[2]>> \in V
        BY <3>3, <3>6
      <4> HIDE DEF V, scan
      <4> QED BY <1>3a, <3>3, <4>1
    <3> DEFINE q == FirstAmong(scan, V)
    <3>8. q \in V /\ In(m.ch, d, q)
      <4> HIDE DEF V, scan
      <4> QED BY <1>3a, <3>7 DEF In
    <3> HIDE DEF q
    <3>9. q \in Position /\ At(q).name = name
      BY <3>8
    <3>10. Distinct(sect, m.ch)
      BY <1>1 DEF Owned
    <3>11. Used(sect, p) /\ EntryAt(sect, p).name = EntryAt(sect, q).name
      BY <1>1, <3>1, <3>9 DEF Used
    <3>12. p = q
      BY <3>1, <3>8, <3>9, <3>10, <3>11 DEF Distinct
    <3> QED BY <3>12 DEF q
  <2> QED BY <2>2, <2>3
<1>17. \/ p = <<>> /\ \A q \in Position : In(m.ch, d, q) => EntryAt(sect, q).name # name
       \/ p \in Position /\ In(m.ch, d, p) /\ EntryAt(sect, p).name = name
  BY <1>1, <1>14, <1>15
<1> QED
  BY <1>9, <1>10, <1>11, <1>12, <1>16, <1>17 DEF p, s

\* A subdirectory's entry leads to its first cluster.
LEMMA DirStart ==
  ASSUME NEW f, NEW s, NEW h, NEW ch, NEW x, Owned(f, s, h, ch, x), NEW d \in Dirs(s, ch), d # Top
  PROVE  /\ d \in Position /\ In(ch, Top, d) /\ Used(s, d) /\ EntryAt(s, d).isdir
         /\ EntryAt(s, d).clus = ch[d][1]
<1>1. d \in Position /\ In(ch, Top, d) /\ Used(s, d) /\ EntryAt(s, d).isdir
  BY DEF Dirs
<1>2. Leading(s, h, ch) /\ Writing(s, h, ch)
  BY OwnedIs
<1>3. Top \in Dirs(s, ch)
  BY DirsAreOwners
<1>4. EntryAt(s, d).clus = FirstIn(ch[d]) \/ (h.open /\ d = h.at)
  BY <1>1, <1>2, <1>3 DEF Leading
<1>5. ch[d] # <<>>
  BY DirIs
<1>6. ~ (h.open /\ d = h.at)
  BY <1>1, <1>2 DEF Writing
<1> QED
  BY <1>1, <1>4, <1>5, <1>6 DEF FirstIn

\* split_parent() finds the directory it is asked for, and no other.
LEMMA ParentIs ==
  ASSUME NEW x, NEW m \in Sound(x), Now(m), x # Top, NEW dir \in Names \cup {"root"}
  PROVE  LET p == Parent(dir, NoFault)
         IN  /\ p = 0 \/ \E d \in Dirs(sect, m.ch) : p = m.ch[d][1] /\ Called(m, d, dir)
             /\ \A d \in Dirs(sect, m.ch) : Called(m, d, dir) => p = m.ch[d][1]
<1> DEFINE D == Dirs(sect, m.ch)
           P == Parent(dir, NoFault)
<1>1. /\ Owned(fat[1], sect, hdl, m.ch, x) /\ Top \in D /\ m.ch[Top][1] = RootClus
      /\ \A q : At(q) = EntryAt(sect, q)
  <2>1. Owned(fat[1], sect, hdl, m.ch, x) /\ \A q : At(q) = EntryAt(sect, q)
    BY NowIs
  <2> QED BY <2>1, OwnedIs, DirsAreOwners
<1>1a. m.sect = sect
  BY DEF Now
<1>2. CASE dir = "root"
  <2>1. P = RootClus /\ \A d \in D : Called(m, d, dir) <=> d = Top
    BY <1>2 DEF Parent, Called
  <2> HIDE DEF D, P
  <2>2. P = m.ch[Top][1] /\ Called(m, Top, dir)
    BY <1>1, <2>1
  <2>3. \A d \in D : Called(m, d, dir) => P = m.ch[d][1]
    BY <2>1, <2>2
  <2>4. \E d \in D : P = m.ch[d][1] /\ Called(m, d, dir)
    BY <1>1, <2>2
  <2> QED BY <2>3, <2>4 DEF D, P
<1>3. CASE dir # "root"
  <2> DEFINE p == DirFind(m.ch[Top][1], dir, NoFault)
  <2>0. dir \in Names
    BY <1>3
  <2>1. \/ p = <<>> /\ \A q \in Position : In(m.ch, Top, q) => EntryAt(sect, q).name # dir
        \/ p \in Position /\ In(m.ch, Top, p) /\ EntryAt(sect, p).name = dir
    BY <1>1, <2>0, NameIsFound
  <2>2. P = IF p # <<>> /\ At(p).isdir THEN At(p).clus ELSE 0
    BY <1>1, <1>3 DEF Parent
  <2>3. \A d \in D : Called(m, d, dir) <=> d # Top /\ EntryAt(sect, d).name = dir
    BY <1>1a, <1>3 DEF Called
  <2> HIDE DEF p, P
  <2>4. ASSUME NEW d \in D, Called(m, d, dir) PROVE P = m.ch[d][1] /\ p = d
    <3>1. d # Top /\ EntryAt(sect, d).name = dir
      BY <2>3, <2>4
    <3>2. /\ d \in Position /\ In(m.ch, Top, d) /\ Used(sect, d) /\ EntryAt(sect, d).isdir
          /\ EntryAt(sect, d).clus = m.ch[d][1]
      BY <1>1, <2>4, <3>1, DirStart
    <3>3. p \in Position /\ In(m.ch, Top, p) /\ EntryAt(sect, p).name = dir
      BY <2>1, <3>1, <3>2
    <3>4. Distinct(sect, m.ch)
      BY <1>1, OwnedIs
    <3>5. d = p
      <4> HIDE DEF D
      <4> QED BY <1>1, <3>1, <3>2, <3>3, <3>4 DEF Distinct, D
    <3>6. p # <<>>
      BY <3>3, EntryFacts
    <3> QED BY <1>1, <2>2, <3>2, <3>5, <3>6
  <2>5. ASSUME P # 0 PROVE \E d \in D : P = m.ch[d][1] /\ Called(m, d, dir)
    <3>1. p # <<>> /\ At(p).isdir /\ P = At(p).clus
      BY <2>2, <2>5
    <3>2. p \in Position /\ In(m.ch, Top, p) /\ EntryAt(sect, p).name = dir
      BY <2>1, <3>1
    <3>3. p # Top
      BY <3>2, EntryFacts
    <3>4. p \in D
      BY <1>1, <2>0, <3>1, <3>2 DEF Dirs, Used
    <3>5. Called(m, p, dir)
      BY <2>3, <3>2, <3>3, <3>4
    <3> HIDE DEF D
    <3> QED BY <2>4, <3>4, <3>5
  <2> HIDE DEF D
  <2> QED BY <2>4, <2>5 DEF D, P
<1> QED
  BY <1>2, <1>3

\* An empty directory has nobody's name in it.
LEMMA DirIsEmptyIs ==
  ASSUME NEW x, NEW m \in Sound(x), Now(m), NEW d \in Dirs(sect, m.ch), d # x,
         DirIsEmpty(m.ch[d][1], NoFault), NEW q \in Position, In(m.ch, d, q)
  PROVE  ~ Used(sect, q)
<1> DEFINE s == m.ch[d]
           shown == UpToEnd[PositionsIn[s]]
           hits == {i \in DOMAIN shown : At(shown[i]).name \notin {"del", ".", ".."}}
<1>1. Owned(fat[1], sect, hdl, m.ch, x) /\ \A p : At(p) = EntryAt(sect, p)
  BY NowIs
<1>2. d \in Owners /\ s # <<>> /\ s \in Seq(Clusters) /\ Len(s) \in Nat \ {0} /\ DOMAIN s = 1 .. Len(s)
  <2>1. d \in Owners /\ s # <<>> /\ s \in Seq(Clusters)
    BY <1>1, DirIs
  <2> QED BY <2>1
<1>3. Chain("empty", s[1], NoFault) = s /\ EndedIn(s)
  <2>1. ReadsAll("empty", m.ch[d]) /\ EndedIn(m.ch[d])
    BY DirectoryReads
  <2> QED BY <2>1 DEF ReadsAll
<1>5. Shown("empty", s[1], NoFault) = shown
  BY <1>3 DEF Scan, Shown
<1>6. FirstOf(shown, LAMBDA p : At(p).name \notin {"del", ".", ".."}) = <<>>
  BY <1>5 DEF DirIsEmpty
<1>7. ToSet(shown) = {p \in Position : (\E k \in DOMAIN s : p[1] = s[k]) /\ At(p) # End}
  <2> HIDE DEF s
  <2> QED BY <1>2, <1>3, ShownIs
<1>8. shown \in Seq(Position)
  <2>1. PositionsIn[s] \in Seq(Position)
    <3> HIDE DEF s
    <3> QED BY <1>2, PlacesAre
  <2> QED BY <2>1, UpToEndIs
<1> HIDE DEF shown
<1>9. hits = {}
  <2> SUFFICES ASSUME hits # {} PROVE FALSE
    OBVIOUS
  <2>1. hits \in SUBSET Nat
    BY <1>8
  <2>2. Min(hits) \in DOMAIN shown
    <3>1. Min(hits) \in hits
      <4> HIDE DEF hits
      <4> QED BY <2>1, MinIs
    <3> QED BY <3>1
  <2>3. shown[Min(hits)] = <<>>
    BY <1>6 DEF FirstOf
  <2>4. shown[Min(hits)] \in Position
    <3> HIDE DEF hits
    <3> QED BY <1>8, <2>2
  <2>5. <<>> \notin Position
    BY EntryFacts
  <2> QED BY <2>3, <2>4, <2>5
<1>10. SUFFICES ASSUME Used(sect, q) PROVE FALSE
  OBVIOUS
<1>11. At(q).name \in Names
  BY <1>1, <1>10 DEF Used
<1>12. q \in ToSet(shown)
  <2>1. At(q) # End
    BY <1>11, NameFacts, EntryFacts
  <2> QED BY <1>7, <2>1 DEF In
<1>13. PICK i \in DOMAIN shown : shown[i] = q
  BY <1>12 DEF ToSet
<1>14. i \in hits
  BY <1>11, <1>13, NameFacts
<1> QED
  BY <1>9, <1>14

\* fat_alloc() takes a cluster of nobody's.
LEMMA RoomIs ==
  ASSUME NEW m \in Sound(Nobody), Now(m), NEW taken
  PROVE  LET room == FreeClusters(taken, NoFault)
         IN  /\ \A c \in room : c \in Clusters /\ c \notin taken /\ Unowned(m.ch, c)
             /\ room # {} => Lowest[room] \in room
<1> DEFINE room == FreeClusters(taken, NoFault)
<1>1. Owned(fat[1], sect, hdl, m.ch, Nobody)
  BY NowIs
<1>2. \A c \in room : c \in Clusters /\ c \notin taken /\ fat[1][c] = Free
  <2>1. \A c : <<"alloc", c>> # NoFault
    BY DEF NoFault
  <2> QED BY <2>1 DEF FreeClusters, FatNext
<1>3. \A c \in room : Unowned(m.ch, c)
  <2> HIDE DEF room
  <2> QED BY <1>1, <1>2, FreeIsUnowned
<1>4. room \in SUBSET Clusters
  BY <1>2
<1> HIDE DEF room
<1>5. ASSUME room # {} PROVE Lowest[room] \in room
  <2>1. room \in SUBSET Nat
    BY <1>4, VolumeFacts
  <2>2. \E c \in room : \A d \in room : c <= d
    BY <1>5, <2>1, LeastElement
  <2>3. Lowest[room] = CHOOSE c \in room : \A d \in room : c <= d
    BY <1>4 DEF Lowest
  <2> QED BY <2>2, <2>3
<1> QED
  BY <1>2, <1>3, <1>5 DEF room

-----------------------------------------------------------------------------
(* What dir_alloc_slot() and fat_alloc() do for a call. *)

\* No end marker of directory d is in front of the one at p.
FirstSlot(m, d, p) ==
  \A q \in Position : In(m.ch, d, q) /\ EntryAt(m.sect, q) = End /\ EntryAt(m.sect, p) = End =>
    \E k, l \in DOMAIN m.ch[d] :
       p[1] = m.ch[d][k] /\ q[1] = m.ch[d][l] /\ ~ Before(l, q[2], k, p[2])

\* s is a slot in directory d, or one in a cluster that is hung off its end.
SlotHere(m, d, s) ==
  \E p \in Position :
    /\ In(m.ch, d, p) /\ EntryAt(m.sect, p) \in {End, Del} /\ FirstSlot(m, d, p)
    /\ s.at = p /\ s.steps = KeepMarker(p, EntryAt(m.sect, p) = End)
SlotBeyond(m, d, s, taken) ==
  \E new \in Clusters \ taken :
    /\ Unowned(m.ch, new) /\ \A k \in DOMAIN m.ch[d], u \in Slot : m.sect[m.ch[d][k]][u] # End
    /\ s.at = <<new, 0>> /\ s.steps = Grow(Last(m.ch[d]), new) \o KeepMarker(<<new, 0>>, TRUE)
SlotOffer(m, d, s, taken) == SlotHere(m, d, s) \/ SlotBeyond(m, d, s, taken)

LEMMA SlotForOffers ==
  ASSUME NEW m \in Sound(Nobody), Now(m), NEW d \in Dirs(sect, m.ch), NEW taken,
         SlotFor(m.ch[d][1], taken, NoFault).ok
  PROVE  SlotOffer(m, d, SlotFor(m.ch[d][1], taken, NoFault), taken)
<1> DEFINE s == m.ch[d]
           slot == SlotFor(s[1], taken, NoFault)
           scan == PositionsIn[s]
           W == {q \in Position : At(q) \in {End, Del}}
           p == FirstAmong(scan, W)
           room == FreeClusters(taken, NoFault)
           new == Lowest[room]
<1>1. Owned(fat[1], sect, hdl, m.ch, Nobody) /\ \A q : At(q) = EntryAt(sect, q)
  BY NowIs
<1>2. d \in Owners /\ s # <<>> /\ s \in Seq(Clusters)
  BY <1>1, DirIs
<1>3. d # Nobody
  BY <1>2, EntryFacts
<1>4. Chain("slot", s[1], NoFault) = s
  <2>1. ReadsAll("slot", m.ch[d])
    BY <1>3, DirectoryReads
  <2> QED BY <2>1 DEF ReadsAll
<1>5. scan \in Seq(Position) /\ \A i \in DOMAIN scan : scan[i] \in Position
  <2>1. scan \in Seq(Position)
    <3> HIDE DEF s
    <3> QED BY <1>2, PlacesAre
  <2> HIDE DEF scan
  <2> QED BY <2>1
<1>6. p = FirstOf(scan, LAMBDA q : At(q) \in {End, Del})
  <2>1. {i \in DOMAIN scan : At(scan[i]) \in {End, Del}} = {i \in DOMAIN scan : scan[i] \in W}
    BY <1>5
  <2> HIDE DEF scan, W
  <2> QED BY <2>1 DEF FirstOf, FirstAmong
<1>7. slot = IF p # <<>>
             THEN [ok |-> TRUE, at |-> p, steps |-> KeepMarker(p, At(p) = End)]
             ELSE IF room = {} THEN [ok |-> FALSE, at |-> <<>>, steps |-> <<>>]
             ELSE [ok |-> TRUE, at |-> <<new, 0>>,
                   steps |-> Grow(Last(s), new) \o KeepMarker(<<new, 0>>, TRUE)]
  BY <1>4, <1>6 DEF SlotFor, SlotIn, Scan
<1>8. \/ p = <<>> /\ \A k \in DOMAIN s, t \in Slot : <<s[k], t>> \notin W
      \/ \E k \in DOMAIN s, t \in Slot :
                  /\ p = <<s[k], t>> /\ p \in W
                  /\ \A l \in DOMAIN s, u \in Slot : Before(l, u, k, t) => <<s[l], u>> \notin W
  <2> HIDE DEF s, W
  <2> QED BY <1>2, FirstAmongIs
<1>9. m.sect = sect /\ slot.ok
  BY DEF Now
<1>10. \A k \in DOMAIN s : s[k] \in Clusters
  BY <1>2
<1> HIDE DEF p, room, slot, scan
<1>11. CASE p # <<>>
  <2>1. PICK k \in DOMAIN s, t \in Slot :
                  /\ p = <<s[k], t>> /\ p \in W
                  /\ \A l \in DOMAIN s, u \in Slot : Before(l, u, k, t) => <<s[l], u>> \notin W
    <3> HIDE DEF s, W
    <3> QED BY <1>8, <1>11
  <2>2. p \in Position /\ At(p) \in {End, Del} /\ p[1] = s[k] /\ p[2] = t
    BY <2>1
  <2>3. In(m.ch, d, p) /\ EntryAt(m.sect, p) \in {End, Del}
    BY <1>1, <1>9, <2>2 DEF In
  <2>4. FirstSlot(m, d, p)
    <3> SUFFICES ASSUME NEW q \in Position, NEW l \in DOMAIN s, q[1] = s[l], EntryAt(m.sect, q) = End
                 PROVE  ~ Before(l, q[2], k, p[2])
      BY <2>2 DEF FirstSlot, In
    <3>1. q \in W /\ q = <<s[l], q[2]>> /\ q[2] \in Slot
      BY <1>1, <1>9, EntryFacts
    <3> HIDE DEF W
    <3> QED BY <2>1, <2>2, <3>1
  <2>5. slot.at = p /\ slot.steps = KeepMarker(p, EntryAt(m.sect, p) = End)
    BY <1>1, <1>7, <1>9, <1>11
  <2>6. SlotHere(m, d, slot)
    BY <2>2, <2>3, <2>4, <2>5 DEF SlotHere
  <2> QED BY <2>6 DEF SlotOffer, slot
<1>12. CASE p = <<>>
  <2>1. room # {}
    BY <1>7, <1>9, <1>12
  <2>2. slot.at = <<new, 0>> /\ slot.steps = Grow(Last(s), new) \o KeepMarker(<<new, 0>>, TRUE)
    BY <1>7, <1>12, <2>1
  <2>3. new \in Clusters \ taken /\ Unowned(m.ch, new)
    BY <2>1, RoomIs DEF room
  <2>4. ASSUME NEW k \in DOMAIN s, NEW u \in Slot PROVE m.sect[s[k]][u] # End
    <3>1. p # <<s[k], u>>
      BY <1>12
    <3>2. \A kk \in DOMAIN s, t \in Slot : <<s[kk], t>> \notin W
      <4>1. \A kk \in DOMAIN s, t \in Slot : <<s[kk], t>> # <<>>
        OBVIOUS
      <4> HIDE DEF s, W
      <4> QED BY <1>8, <1>12, <4>1
    <3>3. <<s[k], u>> \in Position /\ <<s[k], u>> \notin W
      BY <1>10, <3>2, EntryFacts
    <3>4. At(<<s[k], u>>) # End
      BY <3>3
    <3> QED BY <1>9, <3>4 DEF At
  <2> HIDE DEF new
  <2>5. SlotBeyond(m, d, slot, taken)
    BY <2>2, <2>3, <2>4 DEF SlotBeyond
  <2> QED BY <2>5 DEF SlotOffer, slot
<1> QED
  BY <1>11, <1>12

\* The marker behind a slot that was one is written over another.
LEMMA MarkerRuns ==
  ASSUME NEW cl, NEW m \in Sound(Nobody), NEW d \in Dirs(m.sect, m.ch), NEW p \in Position,
         In(m.ch, d, p), NEW last, last => EntryAt(m.sect, p) = End
  PROVE  Runs(KeepMarker(p, last), m, m, Nobody, cl)
<1>1. /\ m \in Machines /\ Owned(m.fat[1], m.sect, m.hdl, m.ch, Nobody)
      /\ m.sect \in [Clusters -> [Slot -> Entries]] /\ m = Machine(m.fat, m.sect, m.hdl, m.ch)
  BY SoundIs, MachineIs
<1>2. CASE ~ (last /\ p[2] + 1 < DirSlots)
  <2>1. KeepMarker(p, last) = <<>>
    BY <1>2 DEF KeepMarker
  <2> QED BY <2>1, NothingRuns
<1>3. CASE last /\ p[2] + 1 < DirSlots
  <2> DEFINE t == p[2] + 1
             q == <<p[1], t>>
             s2 == Put(m.sect, q, End)
  <2>1. KeepMarker(p, last) = PutSlot(q, End)
    BY <1>3 DEF KeepMarker
  <2>2. p[1] \in Clusters /\ p[2] \in Slot
    BY EntryFacts
  <2>3. t \in Slot /\ p[2] < t
    BY <1>3, <2>2, VolumeFacts DEF Slot
  <2>4. q \in Position /\ q[1] = p[1] /\ q[2] = t
    BY <2>2, <2>3, EntryFacts
  <2>5. m.sect[p[1]][t] = End
    <3>1. PICK k \in DOMAIN m.ch[d] : p[1] = m.ch[d][k]
      BY DEF In
    <3>2. Ended(m.sect, m.ch)
      BY <1>1, OwnedIs
    <3>3. Before(k, p[2], k, t)
      BY <2>3 DEF Before
    <3>4. m.sect[m.ch[d][k]][p[2]] = End
      BY <1>3, <3>1 DEF EntryAt
    <3> QED BY <2>2, <2>3, <3>1, <3>2, <3>3, <3>4 DEF Ended
  <2>6. s2 = m.sect
    <3>1. m.sect[p[1]] \in [Slot -> Entries]
      BY <1>1, <2>2
    <3>2. [m.sect[p[1]] EXCEPT ![t] = End] = m.sect[p[1]]
      BY <2>3, <2>5, <3>1
    <3>3. s2 = [m.sect EXCEPT ![p[1]] = [m.sect[p[1]] EXCEPT ![t] = End]]
      BY <2>4 DEF Put
    <3> QED BY <1>1, <3>2, <3>3
  <2> HIDE DEF q, t
  <2>7. m = Machine(m.fat, Put(m.sect, q, End), m.hdl, m.ch)
    BY <1>1, <2>6
  <2>8. Spares(m, m, Nobody, cl)
    BY SparesItself, EntryFacts
  <2>9. End \in Entries
    BY EntryFacts
  <2>10. Runs(PutSlot(q, End), m, m, Nobody, cl)
    BY <2>4, <2>7, <2>8, <2>9, SlotRuns
  <2> QED BY <2>1, <2>10
<1> QED
  BY <1>2, <1>3

\* The machine n has a slot at p for directory d of m; nothing else has changed for the
\* directories, nor for the clusters that were taken.
SlotReady(m, n, d, p, taken) ==
  /\ n \in Sound(Nobody) /\ n.hdl = m.hdl /\ Dirs(n.sect, n.ch) = Dirs(m.sect, m.ch)
  /\ p \in Position /\ In(n.ch, d, p) /\ EntryAt(n.sect, p) \in {End, Del} /\ FirstSlot(n, d, p)
  /\ \A q \in Position : In(n.ch, d, q) =>
       EntryAt(n.sect, q) = End \/ (In(m.ch, d, q) /\ EntryAt(n.sect, q) = EntryAt(m.sect, q))
  /\ \A c \in taken : Unowned(m.ch, c) =>
       Unowned(n.ch, c) /\ n.sect[c] = m.sect[c] /\ n.fat[1][c] = m.fat[1][c]
  /\ \A e \in Owners : e # d => n.ch[e] = m.ch[e]
  /\ m.ch[d] # <<>> => n.ch[d] # <<>> /\ n.ch[d][1] = m.ch[d][1]
  /\ \A e \in Dirs(m.sect, m.ch), q \in Position : In(m.ch, e, q) => EntryAt(n.sect, q) = EntryAt(m.sect, q)
  /\ \A lost : Tidy(m, lost) => Tidy(n, lost)

LEMMA SlotHereRuns ==
  ASSUME NEW cl, NEW m \in Sound(Nobody), NEW d \in Dirs(m.sect, m.ch), NEW taken \in SUBSET Clusters,
         NEW s, SlotHere(m, d, s)
  PROVE  SlotReady(m, m, d, s.at, taken) /\ Runs(s.steps, m, m, Nobody, cl)
<1>1. PICK p \in Position :
        /\ In(m.ch, d, p) /\ EntryAt(m.sect, p) \in {End, Del} /\ FirstSlot(m, d, p)
        /\ s.at = p /\ s.steps = KeepMarker(p, EntryAt(m.sect, p) = End)
  BY DEF SlotHere
<1>2. SlotReady(m, m, d, p, taken)
  BY <1>1 DEF SlotReady
<1> DEFINE last == EntryAt(m.sect, p) = End
<1>3. last => EntryAt(m.sect, p) = End
  OBVIOUS
<1> HIDE DEF last
<1>4. Runs(KeepMarker(p, last), m, m, Nobody, cl)
  BY <1>1, <1>3, MarkerRuns
<1> QED
  BY <1>1, <1>2, <1>4 DEF last

LEMMA SlotBeyondRuns ==
  ASSUME NEW cl, NEW m \in Sound(Nobody), NEW d \in Dirs(m.sect, m.ch), NEW taken \in SUBSET Clusters,
         NEW s, SlotBeyond(m, d, s, taken)
  PROVE  \E n : SlotReady(m, n, d, s.at, taken) /\ Runs(s.steps, m, n, Nobody, cl)
<1>1. PICK new \in Clusters \ taken :
        /\ Unowned(m.ch, new) /\ \A k \in DOMAIN m.ch[d], u \in Slot : m.sect[m.ch[d][k]][u] # End
        /\ s.at = <<new, 0>> /\ s.steps = Grow(Last(m.ch[d]), new) \o KeepMarker(<<new, 0>>, TRUE)
  BY DEF SlotBeyond
<1> DEFINE n == Grown(m, d, new)
           p == <<new, 0>>
<1>2. m \in Machines /\ Owned(m.fat[1], m.sect, m.hdl, m.ch, Nobody) /\ m.ch \in [Owners -> Seq(Clusters)]
  BY SoundIs, MachineIs
<1>3. d \in Owners /\ m.ch[d] # <<>> /\ m.ch[d] \in Seq(Clusters)
  BY <1>2, DirIs
<1>4. p \in Position /\ p[1] = new /\ p[2] = 0 /\ 0 \in Slot
  BY EntryFacts, VolumeFacts
<1>5. /\ n \in Sound(Nobody) /\ Dirs(n.sect, n.ch) = Dirs(m.sect, m.ch)
      /\ Runs(Grow(Last(m.ch[d]), new), m, n, Nobody, cl)
  BY <1>1, <1>3, GrowRuns
<1>6. /\ n.hdl = m.hdl
      /\ \A c \in Clusters : c # new /\ Unowned(m.ch, c) => n.fat[1][c] = m.fat[1][c]
      /\ \A c \in Clusters : c # new => n.sect[c] = m.sect[c]
      /\ \A t \in Slot : n.sect[new][t] = End
      /\ n.ch[d] = Append(m.ch[d], new) /\ \A q \in Owners : q # d => n.ch[q] = m.ch[q]
      /\ \A e \in Owners, q \in Position : In(n.ch, e, q) <=> In(m.ch, e, q) \/ (e = d /\ q[1] = new)
      /\ \A c \in Clusters : Unowned(n.ch, c) <=> Unowned(m.ch, c) /\ c # new
      /\ \A q \in Position : q[1] # new => EntryAt(n.sect, q) = EntryAt(m.sect, q)
  BY <1>1, <1>3, GrownIs
<1> HIDE DEF n, p
<1>7. In(n.ch, d, p) /\ EntryAt(n.sect, p) = End
  BY <1>3, <1>4, <1>6 DEF EntryAt
<1>8. ASSUME NEW q \in Position, In(n.ch, d, q)
      PROVE  EntryAt(n.sect, q) = End \/ (In(m.ch, d, q) /\ EntryAt(n.sect, q) = EntryAt(m.sect, q))
  <2>1. q[1] \in Clusters /\ q[2] \in Slot
    BY EntryFacts
  <2>2. CASE q[1] = new
    BY <1>6, <2>1, <2>2 DEF EntryAt
  <2>3. CASE q[1] # new
    BY <1>3, <1>6, <1>8, <2>3
  <2> QED BY <2>2, <2>3
<1>9. FirstSlot(n, d, p)
  <2> SUFFICES ASSUME NEW q \in Position, In(n.ch, d, q), EntryAt(n.sect, q) = End
               PROVE  \E k, l \in DOMAIN n.ch[d] :
                        p[1] = n.ch[d][k] /\ q[1] = n.ch[d][l] /\ ~ Before(l, q[2], k, p[2])
    BY DEF FirstSlot
  <2> DEFINE k == Len(n.ch[d])
  <2>1. k \in DOMAIN n.ch[d] /\ n.ch[d][k] = new
    BY <1>3, <1>6
  <2>2. q[1] = new
    <3> SUFFICES ASSUME q[1] # new PROVE FALSE
      OBVIOUS
    <3>1. In(m.ch, d, q) /\ EntryAt(m.sect, q) = End
      BY <1>3, <1>6
    <3>2. PICK l \in DOMAIN m.ch[d] : q[1] = m.ch[d][l]
      BY <3>1 DEF In
    <3>3. q[2] \in Slot
      BY EntryFacts
    <3> QED BY <1>1, <3>1, <3>2, <3>3 DEF EntryAt
  <2>3. k \in Nat /\ q[2] \in Nat
    <3>1. n.ch[d] \in Seq(Clusters)
      BY <1>3, <1>6
    <3>2. q[2] \in Nat
      BY EntryFacts, VolumeFacts
    <3> QED BY <3>1, <3>2
  <2> HIDE DEF k
  <2>4. ~ Before(k, q[2], k, p[2])
    BY <1>4, <2>3 DEF Before
  <2> QED BY <1>4, <2>1, <2>2, <2>4
<1>10. \A c \in taken : Unowned(m.ch, c) =>
         Unowned(n.ch, c) /\ n.sect[c] = m.sect[c] /\ n.fat[1][c] = m.fat[1][c]
  BY <1>6
<1>11. n.ch[d] # <<>> /\ n.ch[d][1] = m.ch[d][1]
  BY <1>3, <1>6
<1>12. SlotReady(m, n, d, p, taken)
  <2>1. \A e \in Owners : e # d => n.ch[e] = m.ch[e]
    BY <1>6
  <2>2. ASSUME NEW e \in Dirs(m.sect, m.ch), NEW q \in Position, In(m.ch, e, q)
        PROVE  EntryAt(n.sect, q) = EntryAt(m.sect, q)
    <3>1. q[1] # new
      BY <1>1, <2>2, DirsAreOwners DEF In, Unowned
    <3> QED BY <1>6, <3>1
  <2>3. \A lost : Tidy(m, lost) => Tidy(n, lost)
    BY <1>1, <1>3, TidyGrown DEF n
  <2> QED BY <1>4, <1>5, <1>6, <1>7, <1>8, <1>9, <1>10, <1>11, <2>1, <2>2, <2>3 DEF SlotReady
<1>13. Runs(KeepMarker(p, TRUE), n, n, Nobody, cl)
  <2>1. d \in Dirs(n.sect, n.ch)
    BY <1>5
  <2> QED BY <1>4, <1>5, <1>7, <2>1, MarkerRuns
<1>14. Runs(s.steps, m, n, Nobody, cl)
  <2>1. s.steps = Grow(Last(m.ch[d]), new) \o KeepMarker(p, TRUE)
    BY <1>1 DEF p
  <2> QED BY <1>5, <1>13, <2>1, RunsCompose
<1> QED
  BY <1>1, <1>12, <1>14 DEF p

LEMMA SlotRunsTo ==
  ASSUME NEW cl, NEW m \in Sound(Nobody), NEW d \in Dirs(m.sect, m.ch), NEW taken \in SUBSET Clusters,
         NEW s, SlotOffer(m, d, s, taken)
  PROVE  \E n : SlotReady(m, n, d, s.at, taken) /\ Runs(s.steps, m, n, Nobody, cl)
BY SlotHereRuns, SlotBeyondRuns DEF SlotOffer

-----------------------------------------------------------------------------
(* Entries. *)

\* The machine m with entry e at p, and chain c for it
Entered(m, p, e, c) == Machine(m.fat, Put(m.sect, p, e), m.hdl, With(m.ch, p, c))

LEMMA EnteredIs ==
  ASSUME NEW m \in Machines, NEW p \in Position, NEW e \in Entries, NEW c \in Seq(Clusters)
  PROVE  LET n == Entered(m, p, e, c)
         IN  /\ n \in Machines /\ n.fat = m.fat /\ n.sect = Put(m.sect, p, e) /\ n.hdl = m.hdl
             /\ n.ch = With(m.ch, p, c)
             /\ n.ch[p] = c /\ \A q \in Owners : q # p => n.ch[q] = m.ch[q]
             /\ EntryAt(n.sect, p) = e
             /\ \A q \in Position : q # p => EntryAt(n.sect, q) = EntryAt(m.sect, q)
             /\ \A q : \A d \in Owners : d # p => (In(n.ch, d, q) <=> In(m.ch, d, q))
<1> DEFINE n == Entered(m, p, e, c)
           f == m.fat
           s == m.sect
           h == m.hdl
           ch == m.ch
           s2 == Put(s, p, e)
           ch2 == With(ch, p, c)
<1>1. f \in [Copies -> [Clusters -> Marks]] /\ s \in [Clusters -> [Slot -> Entries]]
      /\ h \in Handles /\ ch \in [Owners -> Seq(Clusters)]
  BY MachineIs
<1>5. n = Machine(f, s2, h, ch2)
  BY DEF Entered
<1> HIDE DEF n, f, s, h, ch
<1>2. /\ s2 \in [Clusters -> [Slot -> Entries]]
      /\ EntryAt(s2, p) = e
      /\ \A q \in Position : q # p => EntryAt(s2, q) = EntryAt(s, q)
  BY SMTT(30), <1>1, PutIs
<1>3. p \in Owners
  BY EntryFacts
<1>4. ch2 \in [Owners -> Seq(Clusters)] /\ ch2[p] = c /\ \A q \in Owners : q # p => ch2[q] = ch[q]
  BY <1>1, <1>3 DEF With
<1> HIDE DEF s2, ch2
<1>6. n \in Machines /\ n.fat = f /\ n.sect = s2 /\ n.hdl = h /\ n.ch = ch2
  BY <1>1, <1>2, <1>4, <1>5 DEF Machine, Machines
<1>7. \A q : \A d \in Owners : d # p => (In(n.ch, d, q) <=> In(ch, d, q))
  BY <1>4, <1>6 DEF In
<1> QED
  BY <1>2, <1>4, <1>6, <1>7 DEF n, f, s, h, ch, s2, ch2

\* What the entry written is not about is spared.
LEMMA EnteredSpares ==
  ASSUME NEW cl, NEW m \in Machines, NEW p \in Position, NEW e \in Entries, NEW c \in Seq(Clusters),
         NEW x \in {Nobody, p}, Used(m.sect, p) => Aimed(m, m, cl, p),
         p \in Dirs(m.sect, m.ch) =>
           \/ c = m.ch[p] /\ e.isdir /\ e.name \in Names /\ x = Nobody
           \/ Hollow(m, p)
  PROVE  Spares(m, Entered(m, p, e, c), x, cl)
<1> DEFINE n == Entered(m, p, e, c)
<1>1. /\ n.hdl = m.hdl
      /\ n.ch[p] = c /\ \A q \in Owners : q # p => n.ch[q] = m.ch[q]
      /\ EntryAt(n.sect, p) = e
      /\ \A q \in Position : q # p => EntryAt(n.sect, q) = EntryAt(m.sect, q)
      /\ \A q : \A d \in Owners : d # p => (In(n.ch, d, q) <=> In(m.ch, d, q))
  BY EnteredIs
<1> HIDE DEF n
<1> SUFFICES ASSUME NEW d \in Dirs(m.sect, m.ch), NEW q \in Position, In(m.ch, d, q), Used(m.sect, q)
             PROVE  Aimed(m, n, cl, q) \/ Keeps(m, n, x, d, q)
  BY DEF Spares, n
<1>2. CASE q = p
  BY <1>1, <1>2 DEF Aimed
<1>3. CASE q # p
  <2>1. d \in Owners /\ Top \in Dirs(n.sect, n.ch) /\ Top # p /\ Top \in Owners
    BY DirsAreOwners, EntryFacts
  <2>2. d = p => c = m.ch[p] /\ e.isdir /\ e.name \in Names /\ x = Nobody
    BY DEF Hollow
  <2>3. d # x
    BY <2>1, <2>2, EntryFacts
  <2>4. In(n.ch, d, q)
    <3>1. CASE d = p
      BY <1>1, <2>2, <3>1 DEF In
    <3>2. CASE d # p
      BY <1>1, <2>1, <3>2
    <3> QED BY <3>1, <3>2
  <2>5. d \in Dirs(n.sect, n.ch)
    <3>1. CASE d = Top
      BY <2>1, <3>1
    <3>2. CASE d # Top
      <4>1. d \in Position /\ In(m.ch, Top, d) /\ Used(m.sect, d) /\ EntryAt(m.sect, d).isdir
        BY <3>2 DEF Dirs
      <4>2. In(n.ch, Top, d)
        BY <1>1, <2>1, <4>1
      <4>3. Used(n.sect, d) /\ EntryAt(n.sect, d).isdir
        <5>1. CASE d = p
          BY <1>1, <2>2, <5>1 DEF Used
        <5>2. CASE d # p
          BY <1>1, <4>1, <5>2 DEF Used
        <5> QED BY <5>1, <5>2
      <4> QED BY <4>1, <4>2, <4>3 DEF Dirs
    <3> QED BY <3>1, <3>2
  <2>6. q # x /\ q \in Owners
    BY <1>3, EntryFacts
  <2>7. EntryAt(n.sect, q) = EntryAt(m.sect, q) /\ n.ch[q] = m.ch[q]
    BY <1>1, <1>3, <2>6
  <2> QED BY <2>3, <2>4, <2>5, <2>6, <2>7 DEF Keeps
<1> QED
  BY <1>2, <1>3

LEMMA EntryRuns ==
  ASSUME NEW cl, NEW x, NEW m \in Sound(x), NEW p \in Position, NEW e \in Entries, NEW c \in Seq(Clusters),
         Owned(m.fat[1], Put(m.sect, p, e), m.hdl, With(m.ch, p, c), Nobody),
         Spares(m, Entered(m, p, e, c), x, cl)
  PROVE  LET n == Entered(m, p, e, c)
         IN  n \in Sound(Nobody) /\ Runs(PutSlot(p, e), m, n, x, cl)
<1> DEFINE n == Entered(m, p, e, c)
<1>1. m \in Machines
  BY SoundIs
<1>2. /\ n \in Machines /\ n.fat = m.fat /\ n.sect = Put(m.sect, p, e) /\ n.hdl = m.hdl
      /\ n.ch = With(m.ch, p, c)
  BY <1>1, EnteredIs
<1>3. n = Machine(m.fat, Put(m.sect, p, e), m.hdl, n.ch) /\ Spares(m, n, x, cl)
  BY <1>2 DEF Entered
<1> HIDE DEF n
<1>4. Owned(n.fat[1], n.sect, n.hdl, n.ch, Nobody)
  BY <1>2
<1>5. n \in Sound(Nobody)
  BY <1>2, <1>4, SoundIs
<1>6. n \in Sound(x)
  BY <1>2, <1>4, HoleOpens, SoundIs
<1>7. Runs(PutSlot(p, e), m, n, x, cl)
  BY <1>3, <1>6, SlotRuns
<1> QED
  BY <1>5, <1>7 DEF n

\* A place with no name has no chain.
LEMMA NamelessIs ==
  ASSUME NEW f, NEW s, NEW h, NEW ch, NEW x, Owned(f, s, h, ch, x), NEW p \in Position, ~ Used(s, p)
  PROVE  ch[p] = <<>> /\ p \notin Dirs(s, ch) /\ ~ (h.open /\ h.at = p)
<1>1. Listing(s, ch) /\ Writing(s, h, ch)
  BY OwnedIs
<1>2. p \notin Dirs(s, ch)
  BY EntryFacts DEF Dirs
<1> QED
  BY <1>1, <1>2 DEF Listing, Writing

\* A new entry, for a file that has no cluster or for a directory that has one
NewChain(m, d, e, c) ==
  \/ c = <<>> /\ ~ e.isdir /\ e.clus = 0
  \/ \E new \in Clusters :
       /\ c = <<new>> /\ e.isdir /\ d = Top /\ e.clus = new
       /\ Unowned(m.ch, new) /\ m.fat[1][new] = Eoc
       /\ \A u \in Slot : m.sect[new][u].name # "data" /\ m.sect[new][u].name \notin Names
       /\ \A t, u \in Slot : t < u /\ m.sect[new][t] = End => m.sect[new][u] = End

LEMMA NewEntryRuns ==
  ASSUME NEW cl, NEW m \in Sound(Nobody), NEW d \in Dirs(m.sect, m.ch), NEW p \in Position,
         In(m.ch, d, p), EntryAt(m.sect, p) \in {End, Del}, FirstSlot(m, d, p),
         NEW e \in Entries, e.name \in Names,
         \A q \in Position : In(m.ch, d, q) => EntryAt(m.sect, q).name # e.name,
         NEW c \in Seq(Clusters), NewChain(m, d, e, c)
  PROVE  LET n == Entered(m, p, e, c)
         IN  n \in Sound(Nobody) /\ Runs(PutSlot(p, e), m, n, Nobody, cl)
<1> DEFINE f == m.fat[1]
           s == m.sect
           h == m.hdl
           ch == m.ch
           ch2 == With(ch, p, c)
<1>1. m \in Machines /\ Owned(f, s, h, ch, Nobody)
  BY SoundIs
<1>2. s \in [Clusters -> [Slot -> Entries]] /\ h \in Handles /\ ch \in [Owners -> Seq(Clusters)]
  BY <1>1, MachineIs
<1>3. Apart(ch) /\ Spelt(f, ch, Nobody)
  BY <1>1, OwnedIs
<1>4. ~ Used(s, p)
  BY EntryFacts, NameFacts DEF Used
<1>5. ch[p] = <<>> /\ p \notin Dirs(s, ch) /\ ~ (h.open /\ h.at = p)
  BY <1>1, <1>4, NamelessIs
<1>6. p \in Owners /\ p # Nobody /\ Top # p
  BY EntryFacts
<1>7. d \in Dirs(s, ch) /\ In(ch, d, p)
  OBVIOUS
<1>8. ch2 \in [Owners -> Seq(Clusters)] /\ ch2[p] = c /\ \A q \in Owners : q # p => ch2[q] = ch[q]
  BY <1>2, <1>6 DEF With
<1>9. \A q \in Position : In(ch, d, q) /\ EntryAt(s, q) = End /\ EntryAt(s, p) = End =>
        \E k, l \in DOMAIN ch[d] :
           p[1] = ch[d][k] /\ q[1] = ch[d][l] /\ ~ Before(l, q[2], k, p[2])
  BY DEF FirstSlot
<1>10. \A q \in Position : In(ch, d, q) /\ q # p => EntryAt(s, q).name # e.name
  OBVIOUS
<1>11. e # End /\ e.name # "data" /\ (e.isdir => d = Top /\ c # <<>>) /\ e.clus = FirstIn(c)
  <2>1. e # End /\ e.name # "data"
    BY NameFacts, EntryFacts
  <2>2. (e.isdir => d = Top /\ c # <<>>) /\ e.clus = FirstIn(c)
    <3>1. CASE c = <<>> /\ ~ e.isdir /\ e.clus = 0
      BY <3>1 DEF FirstIn
    <3>2. CASE \E new \in Clusters : c = <<new>> /\ e.isdir /\ d = Top /\ e.clus = new
      <4>1. PICK new \in Clusters : c = <<new>> /\ e.isdir /\ d = Top /\ e.clus = new
        BY <3>2
      <4>2. c # <<>> /\ c[1] = new
        BY <4>1
      <4> QED BY <4>1, <4>2 DEF FirstIn
    <3>3. \/ c = <<>> /\ ~ e.isdir /\ e.clus = 0
          \/ \E new \in Clusters : c = <<new>> /\ e.isdir /\ d = Top /\ e.clus = new
      BY DEF NewChain
    <3> QED BY <3>1, <3>2, <3>3
  <2> QED BY <2>1, <2>2
<1>12. \A i \in DOMAIN c : /\ i = 1 /\ Len(c) = 1 /\ Unowned(ch, c[i]) /\ f[c[i]] = Eoc
                           /\ \A u \in Slot : s[c[i]][u].name # "data" /\ s[c[i]][u].name \notin Names
                           /\ \A t, u \in Slot : t < u /\ s[c[i]][t] = End => s[c[i]][u] = End
  BY DEF NewChain
<1> HIDE DEF f, s, h, ch
<1>13. Apart(ch2)
  <2> SUFFICES ASSUME NEW a \in Owners, NEW b \in Owners, NEW i \in DOMAIN ch2[a], NEW j \in DOMAIN ch2[b],
                      ch2[a][i] = ch2[b][j]
               PROVE  a = b /\ i = j
    BY DEF Apart
  <2> HIDE DEF ch2
  <2>1. CASE a = p /\ b = p
    BY <1>8, <1>12, <2>1
  <2>2. CASE a = p /\ b # p
    BY <1>8, <1>12, <2>2 DEF Unowned
  <2>3. CASE a # p /\ b = p
    BY <1>8, <1>12, <2>3 DEF Unowned
  <2>4. CASE a # p /\ b # p
    BY SMTT(30), <1>3, <1>8, <2>4 DEF Apart
  <2> QED BY <2>1, <2>2, <2>3, <2>4
<1>14. Spelt(f, ch2, Nobody)
  <2> SUFFICES ASSUME NEW a \in Owners, NEW i \in DOMAIN ch2[a] PROVE f[ch2[a][i]] = LinkAfter(ch2[a], i)
    BY DEF Spelt
  <2> HIDE DEF ch2
  <2>1. CASE a = p
    BY <1>8, <1>12, <2>1 DEF LinkAfter
  <2>2. CASE a # p
    BY <1>3, <1>8, <2>2, EntryFacts DEF Spelt
  <2> QED BY <2>1, <2>2
<1> HIDE DEF ch2
<1>15. e.name \in Names =>
           /\ e.clus = FirstIn(c) \/ (h.open /\ p = h.at /\ e.clus = 0)
           /\ e.isdir => d = Top /\ c # <<>>
           /\ \A q \in Position : In(ch, d, q) /\ q # p => EntryAt(s, q).name # e.name
  BY <1>10, <1>11
<1>16. p \in Dirs(s, ch) =>
           \/ c = ch[p] /\ e.name \in Names /\ e.isdir
           \/ \A q \in Position : In(ch, p, q) => ~ Used(s, q)
  BY <1>5
<1>17. e.name \in Names /\ e.isdir =>
           \/ c = ch[p] /\ p \in Dirs(s, ch)
           \/ /\ \A i \in DOMAIN c, u \in Slot :
                    s[c[i]][u].name # "data" /\ s[c[i]][u].name \notin Names
              /\ \A k, l \in DOMAIN c, t, u \in Slot :
                    Before(k, t, l, u) /\ s[c[k]][t] = End => s[c[l]][u] = End
  <2>1. \A i \in DOMAIN c, u \in Slot : s[c[i]][u].name # "data" /\ s[c[i]][u].name \notin Names
    BY <1>12
  <2>2. \A k, l \in DOMAIN c, t, u \in Slot :
                    Before(k, t, l, u) /\ s[c[k]][t] = End => s[c[l]][u] = End
    BY <1>12 DEF Before
  <2> QED BY <2>1, <2>2
<1>18. h.open /\ h.at = p => e.name \in Names /\ ~ e.isdir /\ c = ch[p]
  BY <1>5
<1>18a. Exact /\ c # <<>> /\ ~ e.isdir /\ e.clus # 0 => e.size = Len(c)
  BY DEF NewChain
<1>19. Owned(f, Put(s, p, e), h, ch2, Nobody)
  BY <1>1, <1>2, <1>7, <1>9, <1>11, <1>13, <1>14, <1>15, <1>16, <1>17, <1>18, <1>18a, EntryPut DEF ch2
<1>20. Owned(m.fat[1], Put(m.sect, p, e), m.hdl, With(m.ch, p, c), Nobody)
  BY <1>19 DEF f, s, h, ch, ch2
<1>21. Spares(m, Entered(m, p, e, c), Nobody, cl)
  <2>1. ~ Used(m.sect, p) /\ p \notin Dirs(m.sect, m.ch)
    BY <1>4, <1>5 DEF s, ch
  <2> QED BY <1>1, <2>1, EnteredSpares
<1> QED
  BY <1>20, <1>21, EntryRuns

\* An entry is written over with one that leads to the same chain.
LEMMA RewriteRuns ==
  ASSUME NEW cl, NEW m \in Sound(Nobody), NEW d \in Dirs(m.sect, m.ch), NEW p \in Position,
         In(m.ch, d, p), Used(m.sect, p), Aimed(m, m, cl, p),
         NEW e \in Entries, e.name \in Names, e.isdir = EntryAt(m.sect, p).isdir,
         e.clus = FirstIn(m.ch[p]) \/ (m.hdl.open /\ p = m.hdl.at /\ e.clus = 0),
         e.name = EntryAt(m.sect, p).name
           \/ \A q \in Position : In(m.ch, d, q) => EntryAt(m.sect, q).name # e.name,
         Exact /\ m.ch[p] # <<>> /\ ~ e.isdir /\ e.clus # 0 => e.size = Len(m.ch[p])
  PROVE  LET n == Entered(m, p, e, m.ch[p])
         IN  n \in Sound(Nobody) /\ Runs(PutSlot(p, e), m, n, Nobody, cl)
<1> DEFINE f == m.fat[1]
           s == m.sect
           h == m.hdl
           ch == m.ch
           c == ch[p]
           ch2 == With(ch, p, c)
<1>1. m \in Machines /\ Owned(f, s, h, ch, Nobody)
  BY SoundIs
<1>2. s \in [Clusters -> [Slot -> Entries]] /\ h \in Handles /\ ch \in [Owners -> Seq(Clusters)]
  BY <1>1, MachineIs
<1>3. Apart(ch) /\ Spelt(f, ch, Nobody) /\ Leading(s, h, ch) /\ Distinct(s, ch) /\ Writing(s, h, ch)
  BY <1>1, OwnedIs
<1>4. p \in Owners /\ p # Nobody /\ Top # p
  BY EntryFacts
<1>5. c \in Seq(Clusters) /\ ch2 = ch
  BY <1>2, <1>4 DEF With
<1>6. d \in Dirs(s, ch) /\ In(ch, d, p) /\ Used(s, p) /\ e.isdir = EntryAt(s, p).isdir
  OBVIOUS
<1>7. EntryAt(s, p) # End
  BY <1>6, NameFacts, EntryFacts DEF Used
<1>8. e.isdir => d = Top /\ c # <<>>
  BY <1>3, <1>6 DEF Leading
<1>9. \A q \in Position : In(ch, d, q) /\ q # p => EntryAt(s, q).name # e.name
  <2> SUFFICES ASSUME NEW q \in Position, In(ch, d, q), q # p, EntryAt(s, q).name = e.name PROVE FALSE
    OBVIOUS
  <2>1. EntryAt(s, q).name = EntryAt(s, p).name
    OBVIOUS
  <2> HIDE DEF s, ch
  <2> QED BY <1>3, <1>6, <2>1 DEF Distinct
<1>10. e # End /\ e.name # "data"
  BY NameFacts, EntryFacts
<1>11. p \in Dirs(s, ch) => e.isdir
  BY <1>4, <1>6 DEF Dirs
<1>12. e.isdir => p \in Dirs(s, ch)
  BY <1>6, <1>8 DEF Dirs
<1>13. h.open /\ h.at = p => ~ e.isdir
  BY <1>3, <1>6 DEF Writing
<1>14. e.clus = FirstIn(c) \/ (h.open /\ p = h.at /\ e.clus = 0)
  OBVIOUS
<1>15. c # <<>> => e.name \in Names
  OBVIOUS
<1>16. e.name \in Names =>
           /\ e.clus = FirstIn(c) \/ (h.open /\ p = h.at /\ e.clus = 0)
           /\ e.isdir => d = Top /\ c # <<>>
           /\ \A q \in Position : In(ch, d, q) /\ q # p => EntryAt(s, q).name # e.name
  BY <1>8, <1>9, <1>14
<1>17. Apart(ch2) /\ Spelt(f, ch2, Nobody)
  BY <1>3, <1>5
<1> DEFINE c1 == c
<1>18. c1 = ch[p]
  OBVIOUS
<1> HIDE DEF f, s, h, ch, c, ch2
<1>19. \A q \in Position : In(ch, d, q) /\ EntryAt(s, q) = End /\ EntryAt(s, p) = End =>
        \E k, l \in DOMAIN ch[d] :
           p[1] = ch[d][k] /\ q[1] = ch[d][l] /\ ~ Before(l, q[2], k, p[2])
  BY <1>7
<1>20. p \in Dirs(s, ch) =>
           \/ c = ch[p] /\ e.name \in Names /\ e.isdir
           \/ \A q \in Position : In(ch, p, q) => ~ Used(s, q)
  BY <1>11 DEF c
<1>21. e.name \in Names /\ e.isdir =>
           \/ c = ch[p] /\ p \in Dirs(s, ch)
           \/ /\ \A i \in DOMAIN c, u \in Slot :
                    s[c[i]][u].name # "data" /\ s[c[i]][u].name \notin Names
              /\ \A k, l \in DOMAIN c, t, u \in Slot :
                    Before(k, t, l, u) /\ s[c[k]][t] = End => s[c[l]][u] = End
  BY <1>12 DEF c
<1>22. h.open /\ h.at = p => e.name \in Names /\ ~ e.isdir /\ c = ch[p]
  BY <1>13 DEF c
<1>23. Owned(f, Put(s, p, e), h, ch2, Nobody)
  <2>1. Exact /\ c # <<>> /\ ~ e.isdir /\ e.clus # 0 => e.size = Len(c)
    BY DEF c, ch
  <2> QED BY <1>1, <1>2, <1>5, <1>6, <1>10, <1>15, <1>16, <1>17, <1>19, <1>20, <1>21, <1>22, <2>1,
             EntryPut DEF ch2
<1>24. c \in Seq(Clusters) /\ Owned(m.fat[1], Put(m.sect, p, e), m.hdl, With(m.ch, p, c), Nobody)
  BY <1>5, <1>23 DEF f, s, h, ch, ch2
<1>25. Spares(m, Entered(m, p, e, c), Nobody, cl)
  <2>1. p \in Dirs(m.sect, m.ch) => c = m.ch[p] /\ e.isdir /\ e.name \in Names
    BY <1>11 DEF s, ch, c
  <2> QED BY <1>1, <1>24, <2>1, EnteredSpares
<1>26. LET n == Entered(m, p, e, c)
       IN  n \in Sound(Nobody) /\ Runs(PutSlot(p, e), m, n, Nobody, cl)
  BY <1>24, <1>25, EntryRuns
<1> QED
  BY <1>26 DEF c, ch

\* An entry is written over with one that leads nowhere; its chain may have been freed.
LEMMA ClearRuns ==
  ASSUME NEW cl, NEW x \in Position, NEW m \in Sound(x), NEW d \in Dirs(m.sect, m.ch),
         In(m.ch, d, x), Used(m.sect, x), Aimed(m, m, cl, x), Hollow(m, x),
         ~ (m.hdl.open /\ m.hdl.at = x),
         NEW e \in {Del, Entry(EntryAt(m.sect, x).name, FALSE, 0, 0)}
  PROVE  LET n == Entered(m, x, e, <<>>)
         IN  n \in Sound(Nobody) /\ Runs(PutSlot(x, e), m, n, x, cl)
<1> DEFINE f == m.fat[1]
           s == m.sect
           h == m.hdl
           ch == m.ch
           c == <<>>
           ch2 == With(ch, x, c)
<1>1. m \in Machines /\ Owned(f, s, h, ch, x)
  BY SoundIs
<1>2. s \in [Clusters -> [Slot -> Entries]] /\ h \in Handles /\ ch \in [Owners -> Seq(Clusters)]
  BY <1>1, MachineIs
<1>3. Apart(ch) /\ Spelt(f, ch, x) /\ Distinct(s, ch)
  BY <1>1, OwnedIs
<1>4. x \in Owners /\ x # Nobody /\ Top # x
  BY EntryFacts
<1>5. c \in Seq(Clusters) /\ DOMAIN c = {} /\ c = <<>>
  OBVIOUS
<1>6. d \in Dirs(s, ch) /\ In(ch, d, x) /\ Used(s, x) /\ ~ (h.open /\ h.at = x)
  OBVIOUS
<1>7. ch2 \in [Owners -> Seq(Clusters)] /\ ch2[x] = c /\ \A q \in Owners : q # x => ch2[q] = ch[q]
  BY <1>2, <1>4, <1>5 DEF With
<1>8. EntryAt(s, x) # End
  BY <1>6, NameFacts, EntryFacts DEF Used
<1>9. e \in Entries /\ e # End /\ e.name # "data" /\ ~ e.isdir
      /\ (e.name \in Names => e.name = EntryAt(s, x).name /\ e.clus = 0)
  <2>1. CASE e = Del
    BY <2>1, EntryFacts, NameFacts DEF Del, Entry
  <2>2. CASE e = Entry(EntryAt(s, x).name, FALSE, 0, 0)
    <3>1. e = [name |-> EntryAt(s, x).name, isdir |-> FALSE, clus |-> 0, size |-> 0]
      BY <2>2 DEF Entry
    <3>2. e.name = EntryAt(s, x).name /\ e.isdir = FALSE /\ e.clus = 0
      BY <3>1
    <3>3. e.name \in Names
      BY <1>6, <3>2 DEF Used
    <3>4. e \in Entries
      BY <3>1, <3>2, <3>3, VolumeFacts DEF Entries, AnEntry, EntryNames
    <3> QED BY <3>2, <3>3, <3>4, NameFacts, EntryFacts
  <2> QED BY <2>1, <2>2
<1>10. x \in Dirs(s, ch) => \A q \in Position : In(ch, x, q) => ~ Used(s, q)
  BY DEF Hollow
<1>11. ASSUME e.name \in Names
       PROVE  \A q \in Position : In(ch, d, q) /\ q # x => EntryAt(s, q).name # e.name
  <2> SUFFICES ASSUME NEW q \in Position, In(ch, d, q), q # x, EntryAt(s, q).name = e.name PROVE FALSE
    OBVIOUS
  <2>1. EntryAt(s, q).name = EntryAt(s, x).name
    BY <1>9, <1>11
  <2> HIDE DEF s, ch
  <2> QED BY <1>3, <1>6, <2>1 DEF Distinct
<1> HIDE DEF f, s, h, ch, c
<1>12. Apart(ch2)
  <2> HIDE DEF ch2
  <2>1. \A q \in Owners : DOMAIN ch2[q] \subseteq DOMAIN ch[q] /\ \A i \in DOMAIN ch2[q] : ch2[q][i] = ch[q][i]
    BY <1>5, <1>7
  <2> SUFFICES ASSUME NEW a \in Owners, NEW b \in Owners, NEW i \in DOMAIN ch2[a], NEW j \in DOMAIN ch2[b],
                      ch2[a][i] = ch2[b][j]
               PROVE  a = b /\ i = j
    BY DEF Apart
  <2>2. i \in DOMAIN ch[a] /\ j \in DOMAIN ch[b] /\ ch[a][i] = ch[b][j]
    BY <2>1
  <2> QED BY <1>3, <2>2 DEF Apart
<1>13. Spelt(f, ch2, Nobody)
  <2> SUFFICES ASSUME NEW a \in Owners, NEW i \in DOMAIN ch2[a] PROVE f[ch2[a][i]] = LinkAfter(ch2[a], i)
    BY DEF Spelt
  <2> HIDE DEF ch2
  <2>1. a # x
    BY <1>5, <1>7
  <2> QED BY <1>3, <1>7, <2>1 DEF Spelt
<1> HIDE DEF ch2
<1>14. c # <<>> => e.name \in Names
  BY DEF c
<1>15. FirstIn(c) = 0
  BY DEF FirstIn, c
<1>16. e.name \in Names =>
           /\ e.clus = FirstIn(c) \/ (h.open /\ x = h.at /\ e.clus = 0)
           /\ e.isdir => d = Top /\ c # <<>>
           /\ \A q \in Position : In(ch, d, q) /\ q # x => EntryAt(s, q).name # e.name
  BY <1>9, <1>11, <1>15
<1>17. \A q \in Position : In(ch, d, q) /\ EntryAt(s, q) = End /\ EntryAt(s, x) = End =>
        \E k, l \in DOMAIN ch[d] :
           x[1] = ch[d][k] /\ q[1] = ch[d][l] /\ ~ Before(l, q[2], k, x[2])
  BY <1>8
<1>18. x \in Dirs(s, ch) =>
           \/ c = ch[x] /\ e.name \in Names /\ e.isdir
           \/ \A q \in Position : In(ch, x, q) => ~ Used(s, q)
  BY <1>10
<1>19. e.name \in Names /\ e.isdir =>
           \/ c = ch[x] /\ x \in Dirs(s, ch)
           \/ /\ \A i \in DOMAIN c, u \in Slot :
                    s[c[i]][u].name # "data" /\ s[c[i]][u].name \notin Names
              /\ \A k, l \in DOMAIN c, t, u \in Slot :
                    Before(k, t, l, u) /\ s[c[k]][t] = End => s[c[l]][u] = End
  BY <1>9
<1>20. h.open /\ h.at = x => e.name \in Names /\ ~ e.isdir /\ c = ch[x]
  BY <1>6
<1>21. e \in Entries /\ e # End /\ e.name # "data"
  BY <1>9
<1>22. Owned(f, Put(s, x, e), h, ch2, Nobody)
  <2>1. Exact /\ c # <<>> /\ ~ e.isdir /\ e.clus # 0 => e.size = Len(c)
    BY <1>5
  <2> QED BY <1>1, <1>2, <1>5, <1>6, <1>12, <1>13, <1>14, <1>16, <1>17, <1>18, <1>19, <1>20, <1>21, <2>1,
             EntryPut DEF ch2
<1>23. c \in Seq(Clusters) /\ Owned(m.fat[1], Put(m.sect, x, e), m.hdl, With(m.ch, x, c), Nobody)
  BY <1>5, <1>22 DEF f, s, h, ch, ch2
<1>24. Spares(m, Entered(m, x, e, c), x, cl)
  BY <1>1, <1>21, <1>23, EnteredSpares
<1>25. LET n == Entered(m, x, e, c)
       IN  n \in Sound(Nobody) /\ Runs(PutSlot(x, e), m, n, x, cl)
  BY <1>21, <1>23, <1>24, EntryRuns
<1> QED
  BY <1>25 DEF c

-----------------------------------------------------------------------------
(* The handle. *)

OpenedAt(p) == [NoHandle EXCEPT !.open = TRUE, !.at = p]
Filling(h) == [h EXCEPT !.full = TRUE, !.size = @ + 1]

LEMMA OpenedAtIs ==
  /\ NoHandle \in Handles /\ ~ NoHandle.open /\ NoHandle.first = 0 /\ NoHandle.cur = 0
  /\ \A p \in Position :
       LET k == OpenedAt(p)
       IN  k \in Handles /\ k.open /\ k.at = p /\ k.first = 0 /\ k.cur = 0 /\ ~ k.full /\ k.size = 0
<1>1. <<RootClus, 0>> \in Position /\ 0 \in 0 .. MaxCluster
  BY EntryFacts, VolumeFacts
<1>2. NoHandle \in Handles /\ ~ NoHandle.open /\ NoHandle.first = 0 /\ NoHandle.cur = 0
  BY <1>1 DEF NoHandle, Handles
<1>3. ASSUME NEW p \in Position
      PROVE  LET k == OpenedAt(p)
             IN  k \in Handles /\ k.open /\ k.at = p /\ k.first = 0 /\ k.cur = 0 /\ ~ k.full /\ k.size = 0
  <2> DEFINE k == OpenedAt(p)
  <2>1. k \in Handles
    BY <1>2 DEF Handles, OpenedAt
  <2>2. k.open /\ k.at = p /\ k.first = 0 /\ k.cur = 0 /\ ~ k.full /\ k.size = 0
    BY DEF NoHandle, OpenedAt
  <2> QED BY <2>1, <2>2
<1> QED
  BY <1>2, <1>3

LEMMA MovedToIs ==
  ASSUME NEW h \in Handles, NEW c \in Clusters
  PROVE  LET k == MovedTo(h, c)
         IN  /\ k \in Handles /\ k.open = h.open /\ k.at = h.at /\ k.cur = c /\ ~ k.full /\ k.size = h.size
             /\ k.first = IF h.cur < 2 THEN c ELSE h.first
<1> DEFINE k == MovedTo(h, c)
<1>1. k.cur = c /\ k.size = h.size /\ k.at = h.at /\ k.first = (IF h.cur < 2 THEN c ELSE h.first)
  BY DEF MovedTo, Handles
<1>2. k.open = h.open
  BY DEF MovedTo, Handles
<1>3. ~ k.full
  BY DEF MovedTo, Handles
<1>4. k \in Handles
  BY DEF MovedTo, Handles
<1> QED
  BY <1>1, <1>2, <1>3, <1>4

LEMMA FillingIs ==
  ASSUME NEW h \in Handles, h.size < MaxCluster
  PROVE  LET k == Filling(h)
         IN  /\ k \in Handles /\ k.open = h.open /\ k.at = h.at /\ k.cur = h.cur /\ k.full
             /\ k.size = h.size + 1 /\ k.first = h.first
<1> DEFINE k == Filling(h)
<1>1. k.cur = h.cur /\ k.size = h.size + 1 /\ k.at = h.at /\ k.first = h.first
  BY DEF Filling, Handles
<1>2. k.open = h.open
  BY DEF Filling, Handles
<1>3. k.full
  BY DEF Filling, Handles
<1>4. k \in Handles
  <2>1. h.size + 1 \in 0 .. MaxCluster
    BY VolumeFacts DEF Handles
  <2> QED BY <2>1 DEF Filling, Handles
<1> QED
  BY <1>1, <1>2, <1>3, <1>4

\* Where the handle is in its file
LEMMA HandleIs ==
  ASSUME NEW f, NEW s, NEW h \in Handles, NEW ch, NEW x, Owned(f, s, h, ch, x), h.open
  PROVE  /\ h.at \in Position /\ h.at \in Owners /\ ch[h.at] \in Seq(Clusters)
         /\ \E d \in Dirs(s, ch) : In(ch, d, h.at)
         /\ Used(s, h.at) /\ ~ EntryAt(s, h.at).isdir /\ h.at \notin Dirs(s, ch)
         /\ h.first = FirstIn(ch[h.at]) /\ InPlace(h, ch[h.at])
         /\ h.cur < 2 <=> ch[h.at] = <<>>
<1>1. Writing(s, h, ch) /\ ch \in [Owners -> Seq(Clusters)]
  BY OwnedIs
<1>2. h.at \in Position /\ h.at \in Owners /\ h.at # Top
  BY EntryFacts DEF Handles
<1>3. ~ EntryAt(s, h.at).isdir /\ h.at \notin Dirs(s, ch)
  BY <1>1, <1>2 DEF Writing, Dirs
<1>4. InPlace(h, ch[h.at])
  BY <1>1 DEF Writing
<1>5. h.cur < 2 <=> ch[h.at] = <<>>
  <2> DEFINE c == ch[h.at]
  <2>1. c \in Seq(Clusters)
    BY <1>1, <1>2
  <2>2. \A k \in DOMAIN c : c[k] \in Clusters /\ c # <<>>
    BY <2>1
  <2> HIDE DEF c
  <2>3. CASE c = <<>>
    <3>1. h.cur = 0
      BY <1>4, <2>3 DEF InPlace, c
    <3> QED BY <2>3, <3>1 DEF c
  <2>4. CASE c # <<>>
    <3>1. \E k \in DOMAIN c : h.cur = c[k]
      BY <1>4, <2>4 DEF InPlace, c
    <3>2. h.cur \in Clusters
      BY <2>2, <3>1
    <3>3. h.cur \in Nat /\ h.cur >= 2
      BY <3>2 DEF Clusters
    <3>4. ~ (h.cur < 2)
      BY <3>3
    <3> QED BY <2>4, <3>4 DEF c
  <2> QED BY <2>3, <2>4
<1> QED
  BY <1>1, <1>2, <1>3, <1>4, <1>5 DEF Writing

\* The machine m with handle h, and the chains ch
Handled(m, h, ch) == Machine(m.fat, m.sect, h, ch)

HandsOver(m, n, h, ch, x, cl) ==
  /\ n \in Sound(Nobody) /\ n.fat = m.fat /\ n.sect = m.sect /\ n.hdl = h /\ n.ch = ch
  /\ Runs(SetHandle(h), m, n, x, cl)

LEMMA HandledRuns ==
  ASSUME NEW cl, NEW x, NEW m \in Sound(x), NEW h \in Handles, NEW ch \in [Owners -> Seq(Clusters)],
         Owned(m.fat[1], m.sect, h, ch, Nobody)
  PROVE  HandsOver(m, Handled(m, h, ch), h, ch, x, cl)
<1> DEFINE n == Handled(m, h, ch)
<1>1. m \in Machines
  BY SoundIs
<1>2. m.fat \in [Copies -> [Clusters -> Marks]] /\ m.sect \in [Clusters -> [Slot -> Entries]]
  BY <1>1, MachineIs
<1>3. n \in Machines /\ n.fat = m.fat /\ n.sect = m.sect /\ n.hdl = h /\ n.ch = ch
  BY <1>2 DEF Machine, Machines, Handled
<1>4. n = Machine(m.fat, m.sect, h, n.ch)
  BY <1>3 DEF Handled
<1> HIDE DEF n
<1>5. n \in Sound(Nobody)
  BY <1>3, SoundIs
<1>5a. n \in Sound(x)
  BY <1>3, <1>5, HoleOpens, SoundIs
<1>6. Runs(SetHandle(h), m, n, x, cl)
  BY <1>4, <1>5a, HandleRuns
<1> QED
  BY <1>3, <1>5, <1>6 DEF HandsOver, n

\* Another handle on the file that is being written, or the first one
LEMMA HandleChange ==
  ASSUME NEW f, NEW s, NEW h, NEW ch, NEW x, Owned(f, s, h, ch, x), NEW k,
         Writing(s, k, ch), h.open => k.open /\ k.at = h.at
  PROVE  Owned(f, s, k, ch, x)
<1>1. /\ ch \in [Owners -> Seq(Clusters)] /\ Apart(ch)
      /\ ch[Top] # <<>> /\ ch[Top][1] = RootClus
      /\ Spelt(f, ch, x) /\ Listing(s, ch) /\ Leading(s, h, ch) /\ Ended(s, ch)
      /\ Distinct(s, ch) /\ Sized(s, ch)
  BY OwnedIs
<1>2. Leading(s, k, ch)
  BY <1>1 DEF Leading
<1> QED
  BY <1>1, <1>2 DEF Owned

\* A file that has been written is closed.
LEMMA HandleClosed ==
  ASSUME NEW f, NEW s, NEW h, NEW ch, NEW x, Owned(f, s, h, ch, x), h.open,
         EntryAt(s, h.at).clus = FirstIn(ch[h.at])
  PROVE  Owned(f, s, NoHandle, ch, x)
<1>1. /\ ch \in [Owners -> Seq(Clusters)] /\ Apart(ch)
      /\ ch[Top] # <<>> /\ ch[Top][1] = RootClus
      /\ Spelt(f, ch, x) /\ Listing(s, ch) /\ Leading(s, h, ch) /\ Ended(s, ch)
      /\ Distinct(s, ch) /\ Sized(s, ch)
  BY OwnedIs
<1>2. Leading(s, NoHandle, ch)
  BY <1>1 DEF Leading
<1>3. Writing(s, NoHandle, ch)
  BY OpenedAtIs DEF Writing
<1> QED
  BY <1>1, <1>2, <1>3 DEF Owned

\* The file that is being written gets its first cluster.
MayStart(f, s, h, ch, new) ==
  Owned(f, s, h, ch, Nobody) /\ h.open /\ ch[h.at] = <<>> /\ Unowned(ch, new) /\ f[new] = Eoc

Started(f, s, h, ch, new, k, ch2) ==
  /\ k \in Handles /\ k.open /\ k.at = h.at /\ k.cur = new /\ ~ k.full
  /\ ch2 \in [Owners -> Seq(Clusters)] /\ ch2[h.at] = <<new>>
  /\ Owned(f, s, k, ch2, Nobody) /\ Dirs(s, ch2) = Dirs(s, ch)

LEMMA FileStarts ==
  ASSUME NEW f, NEW s, NEW h \in Handles, NEW ch, NEW new \in Clusters, MayStart(f, s, h, ch, new)
  PROVE  Started(f, s, h, ch, new, MovedTo(h, new), With(ch, h.at, <<new>>))
<1> DEFINE k == MovedTo(h, new)
           p == h.at
           c == <<new>>
           ch2 == With(ch, p, c)
<1>0. Owned(f, s, h, ch, Nobody) /\ h.open /\ ch[p] = <<>> /\ Unowned(ch, new) /\ f[new] = Eoc
  BY DEF MayStart
<1> USE <1>0
<1>1. /\ ch \in [Owners -> Seq(Clusters)] /\ Apart(ch)
      /\ ch[Top] # <<>> /\ ch[Top][1] = RootClus
      /\ Spelt(f, ch, Nobody) /\ Listing(s, ch) /\ Leading(s, h, ch) /\ Ended(s, ch)
      /\ Distinct(s, ch) /\ Sized(s, ch) /\ Writing(s, h, ch)
  BY OwnedIs
<1>2. /\ p \in Position /\ p \in Owners
      /\ \E d \in Dirs(s, ch) : In(ch, d, p)
      /\ Used(s, p) /\ ~ EntryAt(s, p).isdir /\ p \notin Dirs(s, ch)
      /\ h.first = FirstIn(ch[p]) /\ InPlace(h, ch[p]) /\ h.cur < 2
  BY HandleIs
<1>3. ch[p] = <<>> /\ h.size = 0
  BY <1>2 DEF InPlace
<1>4. /\ k \in Handles /\ k.open /\ k.at = p /\ k.cur = new /\ ~ k.full /\ k.size = 0
      /\ k.first = new
  BY <1>2, <1>3, MovedToIs
<1>5. c \in Seq(Clusters) /\ c # <<>> /\ Len(c) = 1 /\ DOMAIN c = {1} /\ c[1] = new
  OBVIOUS
<1>6. FirstIn(c) = new
  BY <1>5 DEF FirstIn
<1> HIDE DEF c, p, k
<1>7. ch2 \in [Owners -> Seq(Clusters)] /\ ch2[p] = c /\ \A q \in Owners : q # p => ch2[q] = ch[q]
  BY <1>1, <1>2, <1>5 DEF With
<1> HIDE DEF ch2
<1>8. Top # p /\ Top \in Owners /\ p # Nobody
  BY <1>2, EntryFacts
<1>9. ch2[Top] = ch[Top]
  BY <1>7, <1>8
<1>10. \A q : \A d \in Owners : d # p => (In(ch2, d, q) <=> In(ch, d, q))
  BY <1>7 DEF In
<1>11. Dirs(s, ch2) = Dirs(s, ch)
  BY <1>8, <1>10 DEF Dirs
<1>12. \A q : \A d \in Dirs(s, ch) : d # p /\ d \in Owners /\ ch2[d] = ch[d] /\ (In(ch2, d, q) <=> In(ch, d, q))
  BY <1>2, <1>7, <1>10, DirsAreOwners
<1>13. Apart(ch2)
  <2> SUFFICES ASSUME NEW a \in Owners, NEW b \in Owners, NEW i \in DOMAIN ch2[a], NEW j \in DOMAIN ch2[b],
                      ch2[a][i] = ch2[b][j]
               PROVE  a = b /\ i = j
    BY DEF Apart
  <2>1. CASE a = p /\ b = p
    BY <1>5, <1>7, <2>1
  <2>2. CASE a = p /\ b # p
    BY <1>5, <1>7, <2>2 DEF Unowned
  <2>3. CASE a # p /\ b = p
    BY <1>5, <1>7, <2>3 DEF Unowned
  <2>4. CASE a # p /\ b # p
    BY <1>1, <1>7, <2>4 DEF Apart
  <2> QED BY <2>1, <2>2, <2>3, <2>4
<1>14. Spelt(f, ch2, Nobody)
  <2> SUFFICES ASSUME NEW a \in Owners, NEW i \in DOMAIN ch2[a] PROVE f[ch2[a][i]] = LinkAfter(ch2[a], i)
    BY DEF Spelt
  <2>1. CASE a = p
    BY <1>5, <1>7, <2>1 DEF LinkAfter
  <2>2. CASE a # p
    BY <1>1, <1>7, <2>2, EntryFacts DEF Spelt
  <2> QED BY <2>1, <2>2
<1>15. Listing(s, ch2)
  <2> SUFFICES ASSUME NEW q \in Position, ch2[q] # <<>> PROVE \E d \in Dirs(s, ch2) : In(ch2, d, q) /\ Used(s, q)
    BY DEF Listing
  <2>1. \E d \in Dirs(s, ch) : In(ch, d, q) /\ Used(s, q)
    <3>1. CASE q = p
      BY <1>2, <3>1
    <3>2. CASE q # p
      BY <1>1, <1>7, <3>2, EntryFacts DEF Listing
    <3> QED BY <3>1, <3>2
  <2> QED BY <1>11, <1>12, <2>1
<1>16. Leading(s, k, ch2)
  <2> SUFFICES ASSUME NEW d \in Dirs(s, ch), NEW q \in Position, In(ch, d, q)
               PROVE  /\ EntryAt(s, q).name # "data"
                      /\ Used(s, q) =>
                           /\ EntryAt(s, q).clus = FirstIn(ch2[q])
                              \/ (k.open /\ q = k.at /\ EntryAt(s, q).clus = 0)
                           /\ EntryAt(s, q).isdir => d = Top /\ ch2[q] # <<>>
    BY <1>11, <1>12 DEF Leading
  <2>1. /\ EntryAt(s, q).name # "data"
        /\ Used(s, q) =>
             /\ EntryAt(s, q).clus = FirstIn(ch[q])
                \/ (h.open /\ q = h.at /\ EntryAt(s, q).clus = 0)
             /\ EntryAt(s, q).isdir => d = Top /\ ch[q] # <<>>
    BY <1>1 DEF Leading
  <2>2. CASE q = p
    <3>1. FirstIn(ch[q]) = 0
      BY <1>3, <2>2 DEF FirstIn
    <3> QED BY <1>2, <1>4, <2>1, <2>2, <3>1
  <2>3. CASE q # p
    <3>1. ch2[q] = ch[q]
      BY <1>7, <2>3, EntryFacts
    <3> QED BY <2>1, <2>3, <3>1 DEF p
  <2> QED BY <2>2, <2>3
<1>17. Ended(s, ch2)
  <2> SUFFICES ASSUME NEW d \in Dirs(s, ch), NEW i \in DOMAIN ch2[d], NEW j \in DOMAIN ch2[d],
                      NEW t \in Slot, NEW u \in Slot, Before(i, t, j, u), s[ch2[d][i]][t] = End
               PROVE  s[ch2[d][j]][u] = End
    BY <1>11 DEF Ended
  <2>1. ch2[d] = ch[d]
    BY <1>12
  <2> QED BY <1>1, <2>1 DEF Ended
<1>18. Distinct(s, ch2)
  BY <1>1, <1>11, <1>12 DEF Distinct
<1>19. Writing(s, k, ch2)
  <2>1. InPlace(k, ch2[p])
    BY <1>4, <1>5, <1>7 DEF InPlace
  <2> QED BY <1>2, <1>4, <1>6, <1>7, <1>11, <1>12, <2>1 DEF Writing
<1>20. Sized(s, ch2)
  <2>1. EntryAt(s, p).clus = 0
    <3>1. FirstIn(ch[p]) = 0
      BY <1>3 DEF FirstIn
    <3> QED BY <1>1, <1>2, <3>1 DEF Leading
  <2>2. \A q \in Position : q # p => ch2[q] = ch[q]
    BY <1>7, EntryFacts
  <2> QED BY <1>1, <2>1, <2>2 DEF Sized
<1>21. Owned(f, s, k, ch2, Nobody)
  BY <1>1, <1>7, <1>9, <1>13, <1>14, <1>15, <1>16, <1>17, <1>18, <1>19, <1>20 DEF Owned
<1> QED
  BY <1>4, <1>7, <1>11, <1>21 DEF k, p, c, ch2, Started

\* The cluster the handle is in is filled.
LEMMA FillRuns ==
  ASSUME NEW cl, NEW m \in Sound(Nobody), m.hdl.open, m.ch[m.hdl.at] # <<>>, ~ m.hdl.full
  PROVE  \E r \in Sound(Nobody) :
           /\ Runs(PutData(m.hdl.cur) \o SetHandle(Filling(m.hdl)), m, r, Nobody, cl)
           /\ r.fat = m.fat /\ r.ch = m.ch /\ (Pending(m.sect, m.hdl.at) => Settled(r))
<1> DEFINE h == m.hdl
           c == m.ch[h.at]
           k == Filling(h)
           a == Filled(Data)
           n == Machine(m.fat, [m.sect EXCEPT ![h.cur] = a], m.hdl, m.ch)
<1>1. m \in Machines /\ Owned(m.fat[1], m.sect, h, m.ch, Nobody)
  BY SoundIs
<1>2. /\ m.fat \in [Copies -> [Clusters -> Marks]] /\ m.sect \in [Clusters -> [Slot -> Entries]]
      /\ h \in Handles /\ m.ch \in [Owners -> Seq(Clusters)]
  BY <1>1, MachineIs
<1>3. /\ h.at \in Owners /\ h.at \notin Dirs(m.sect, m.ch) /\ InPlace(h, c)
  BY <1>1, <1>2, HandleIs
<1>4. c \in Seq(Clusters) /\ c # <<>> /\ DOMAIN c = 1 .. Len(c) /\ Len(c) \in Nat
  BY <1>2, <1>3
<1>5. Apart(m.ch)
  BY <1>1, OwnedIs
<1>6. Len(c) <= MaxCluster - 2
  BY <1>2, <1>3, <1>5, ChainFits
<1>7. h.cur = c[Len(c)] /\ h.size = Len(c) - 1 /\ Len(c) \in DOMAIN c
  <2>1. PICK j \in DOMAIN c : h.cur = c[j] /\ h.size = (IF h.full THEN j ELSE j - 1)
                              /\ (j = Len(c) \/ (j = Len(c) - 1 /\ h.full))
    BY <1>3, <1>4 DEF InPlace
  <2>2. j = Len(c)
    BY <2>1
  <2> HIDE DEF c
  <2> QED BY <2>1, <2>2
<1>8. h.cur \in Clusters
  BY <1>4, <1>7
<1>9. h.size < MaxCluster
  BY <1>4, <1>6, <1>7, VolumeFacts
<1>10. /\ k \in Handles /\ k.open = h.open /\ k.at = h.at /\ k.cur = h.cur /\ k.full
       /\ k.size = h.size + 1 /\ k.first = h.first
  BY <1>2, <1>9, FillingIs
<1>11. \A d \in Dirs(m.sect, m.ch) : \A j \in DOMAIN m.ch[d] : m.ch[d][j] # h.cur
  BY <1>3, <1>5, <1>7, DirsAreOwners DEF Apart
<1>12. a \in [Slot -> Entries]
  BY EntryFacts, FilledIs
<1>13. /\ n \in Sound(Nobody)
       /\ Runs(<<[do |-> "sect", clus |-> h.cur, as |-> a]>>, m, n, Nobody, cl)
  <2> HIDE DEF a, h
  <2> QED BY <1>8, <1>11, <1>12, SectorRuns
<1>14. n.hdl = h /\ n.ch = m.ch /\ n.fat = m.fat /\ n.sect = [m.sect EXCEPT ![h.cur] = a]
  BY DEF Machine
<1>14a. EntryAt(n.sect, h.at) = EntryAt(m.sect, h.at)
  <2>1. PICK d \in Dirs(m.sect, m.ch) : In(m.ch, d, h.at)
    BY <1>1, <1>2, HandleIs
  <2>2. h.at[1] # h.cur
    BY <1>11, <2>1 DEF In
  <2> HIDE DEF n, a
  <2> QED BY <1>2, <1>14, <2>2 DEF EntryAt
<1>15. PutData(h.cur) = <<[do |-> "sect", clus |-> h.cur, as |-> a]>>
  BY DEF PutData
<1> HIDE DEF n, k, a
<1>16. Owned(n.fat[1], n.sect, h, m.ch, Nobody)
  BY <1>13, <1>14, SoundIs
<1>17. Writing(n.sect, k, m.ch)
  <2>1. Writing(n.sect, h, m.ch)
    BY <1>16, OwnedIs
  <2>2. InPlace(k, c)
    <3>1. k.cur = c[Len(c)] /\ k.size = Len(c)
      BY <1>4, <1>7, <1>10
    <3> HIDE DEF c, h
    <3> QED BY <1>4, <1>7, <1>10, <3>1 DEF InPlace
  <2> QED BY <1>10, <2>1, <2>2 DEF Writing
<1>18. Owned(n.fat[1], n.sect, k, m.ch, Nobody)
  BY <1>10, <1>16, <1>17, HandleChange
<1> DEFINE r == Handled(n, k, m.ch)
<1>19. r \in Sound(Nobody) /\ Runs(SetHandle(k), n, r, Nobody, cl)
       /\ r.fat = n.fat /\ r.sect = n.sect /\ r.hdl = k /\ r.ch = m.ch
  <2>1. HandsOver(n, r, k, m.ch, Nobody, cl)
    BY <1>2, <1>10, <1>13, <1>18, HandledRuns
  <2> HIDE DEF r
  <2> QED BY <2>1 DEF HandsOver
<1> HIDE DEF r
<1>20. Runs(PutData(h.cur) \o SetHandle(k), m, r, Nobody, cl)
  BY <1>13, <1>15, <1>19, RunsCompose
<1>21. Pending(m.sect, h.at) => Settled(r)
  <2>1. k.size = Len(c)
    BY <1>4, <1>7, <1>10
  <2>2. Pending(m.sect, h.at) => Pending(r.sect, k.at)
    BY <1>10, <1>14a, <1>19 DEF Pending
  <2> QED BY <1>10, <1>19, <2>1, <2>2 DEF Settled
<1> QED
  BY <1>14, <1>19, <1>20, <1>21 DEF k, h

-----------------------------------------------------------------------------
(* What the calls plan takes a sound volume to a sound one. *)

LEMMA PlanIs ==
  ASSUME NEW steps, NEW p \in Plan(steps)
  PROVE  p.ok /\ p.steps = steps
BY DEF Plan

\* The handle moves into a cluster, and fills it.
Into(k) == SetHandle(k) \o (PutData(k.cur) \o SetHandle(Filling(k)))

GoesInto(m, r, k, ch, cl) ==
  /\ Runs(Into(k), m, r, Nobody, cl)
  /\ r.fat = m.fat /\ r.ch = ch /\ (Pending(m.sect, k.at) => Settled(r))

LEMMA IntoRuns ==
  ASSUME NEW cl, NEW m \in Sound(Nobody), NEW k \in Handles, NEW ch \in [Owners -> Seq(Clusters)],
         Owned(m.fat[1], m.sect, k, ch, Nobody), k.open, ~ k.full, ch[k.at] # <<>>
  PROVE  \E r \in Sound(Nobody) : GoesInto(m, r, k, ch, cl)
<1> DEFINE n == Handled(m, k, ch)
<1>1. /\ n \in Sound(Nobody) /\ n.fat = m.fat /\ n.sect = m.sect /\ n.hdl = k /\ n.ch = ch
      /\ Runs(SetHandle(k), m, n, Nobody, cl)
  <2>1. HandsOver(m, n, k, ch, Nobody, cl)
    BY HandledRuns
  <2> HIDE DEF n
  <2> QED BY <2>1 DEF HandsOver
<1> HIDE DEF n
<1>2. n.hdl.open /\ n.ch[n.hdl.at] # <<>> /\ ~ n.hdl.full
  BY <1>1
<1>3. PICK r \in Sound(Nobody) :
        /\ Runs(PutData(n.hdl.cur) \o SetHandle(Filling(n.hdl)), n, r, Nobody, cl)
        /\ r.fat = n.fat /\ r.ch = n.ch /\ (Pending(n.sect, n.hdl.at) => Settled(r))
  BY <1>1, <1>2, FillRuns
<1>4. Runs(PutData(k.cur) \o SetHandle(Filling(k)), n, r, Nobody, cl)
  BY <1>1, <1>3
<1>5. r.fat = m.fat /\ r.ch = ch /\ (Pending(m.sect, k.at) => Settled(r))
  BY <1>1, <1>3
<1>6. Runs(SetHandle(k) \o (PutData(k.cur) \o SetHandle(Filling(k))), m, r, Nobody, cl)
  BY <1>1, <1>4, RunsCompose
<1> QED
  BY <1>5, <1>6 DEF GoesInto, Into

\* A call leaves the books in order if it found them so.
Balances(m, r, ok) == Settled(r) /\ (ok /\ Tidy(m, {}) => Tidy(r, {}))

LEMMA WriteRunsOn ==
  ASSUME NEW cl, NEW m \in Sound(Nobody), Now(m), Settled(m), hdl.open, NEW p \in WritePlans(NoFault)
  PROVE  \E r \in Sound(Nobody) : Runs(p.steps, m, r, Nobody, cl) /\ Balances(m, r, p.ok)
<1> DEFINE h == hdl
           c == m.ch[h.at]
           next == FatNext("next", h.cur, NoFault)
           room == FreeClusters({}, NoFault)
           new == Lowest[room]
<1>1. /\ m \in Machines /\ m.hdl = h /\ m.fat = fat /\ m.sect = sect
      /\ Owned(m.fat[1], m.sect, h, m.ch, Nobody)
  BY SoundIs DEF Now
<1>2. /\ m.fat \in [Copies -> [Clusters -> Marks]] /\ m.fat[1] \in [Clusters -> Marks]
      /\ m.sect \in [Clusters -> [Slot -> Entries]] /\ h \in Handles
      /\ m.ch \in [Owners -> Seq(Clusters)]
  BY <1>1, MachineIs
<1>3. /\ h.at \in Position /\ h.at \in Owners /\ c \in Seq(Clusters)
      /\ InPlace(h, c) /\ (h.cur < 2 <=> c = <<>>)
  BY <1>1, <1>2, HandleIs
<1>3a. /\ Pending(m.sect, h.at)
       /\ \A b \in Clusters : Unowned(m.ch, b) => h.at[1] # b
  <2>1. PICK d \in Dirs(m.sect, m.ch) : In(m.ch, d, h.at)
    BY <1>1, <1>2, HandleIs
  <2> QED BY <1>1, <2>1, DirsAreOwners DEF Settled, In, Unowned
<1>4. /\ h.cur < 2 => p.steps = Claim(new) \o Into(MovedTo(h, new)) /\ room # {}
      /\ ~ (h.cur < 2) /\ ~ h.full => p.steps = PutData(h.cur) \o SetHandle(Filling(h))
      /\ ~ (h.cur < 2) /\ h.full /\ next < Eoc => p.steps = Into(MovedTo(h, next))
      /\ ~ (h.cur < 2) /\ h.full /\ ~ (next < Eoc) =>
            p.steps = Grow(h.cur, new) \o Into(MovedTo(h, new)) /\ room # {}
  <2>1. WritePlans(NoFault) =
          IF h.cur < 2 THEN IF room = {} THEN {} ELSE Plan(Claim(new) \o Into(MovedTo(h, new)))
          ELSE IF ~ h.full THEN Plan(PutData(h.cur) \o SetHandle(Filling(h)))
          ELSE IF next < Eoc THEN Plan(Into(MovedTo(h, next)))
          ELSE IF room = {} THEN {} ELSE Plan(Grow(h.cur, new) \o Into(MovedTo(h, new)))
    BY DEF WritePlans, Refused, Filling, Into
  <2> HIDE DEF next, room, new, h
  <2> QED BY <2>1, PlanIs
<1>5. room # {} => new \in Clusters /\ Unowned(m.ch, new)
  BY RoomIs
<1> HIDE DEF next, room, new, c, h
<1>6. CASE h.cur < 2
  <2> DEFINE n == Claimed(m, new)
             k == MovedTo(h, new)
             ch2 == With(m.ch, h.at, <<new>>)
  <2>0. room # {}
    BY <1>4, <1>6
  <2>1. c = <<>> /\ new \in Clusters /\ Unowned(m.ch, new)
    BY <1>3, <1>5, <1>6, <2>0
  <2>2. n \in Sound(Nobody) /\ Runs(Claim(new), m, n, Nobody, cl)
    BY <2>1, ClaimRuns
  <2>3. n.hdl = h /\ n.ch = m.ch /\ n.fat[1][new] = Eoc /\ EntryAt(n.sect, h.at) = EntryAt(m.sect, h.at)
    BY <1>1, <1>3, <1>3a, <2>1, ClaimedIs
  <2>3a. Tidy(m, {}) => Tidy(n, {new})
    <3>1. Tidy(m, {}) => Tidy(n, {} \cup {new})
      BY <1>1, <2>1, TidyClaimed
    <3>2. {} \cup {new} = {new}
      OBVIOUS
    <3> QED BY <3>1, <3>2
  <2> HIDE DEF n
  <2> DEFINE f == n.fat[1]
             s == n.sect
             ch == m.ch
             ch3 == With(ch, h.at, <<new>>)
  <2>4. Owned(f, s, h, ch, Nobody) /\ f[new] = Eoc /\ h.open /\ ch[h.at] = <<>> /\ Unowned(ch, new)
    BY <2>1, <2>2, <2>3, SoundIs DEF c, h
  <2>4a. ch2 = ch3
    OBVIOUS
  <2> HIDE DEF f, s, ch
  <2>5. /\ k \in Handles /\ k.open /\ k.at = h.at /\ k.cur = new /\ ~ k.full
        /\ ch2 \in [Owners -> Seq(Clusters)] /\ ch2[h.at] = <<new>>
        /\ Owned(f, s, k, ch2, Nobody)
    <3>1. MayStart(f, s, h, ch, new)
      BY <2>4 DEF MayStart
    <3>2. Started(f, s, h, ch, new, MovedTo(h, new), With(ch, h.at, <<new>>))
      BY <1>2, <2>1, <3>1, FileStarts
    <3>3. Started(f, s, h, ch, new, k, ch2)
      BY <2>4a, <3>2
    <3> HIDE DEF k, ch2
    <3> QED BY <3>3 DEF Started
  <2> HIDE DEF k, ch2
  <2>6. ch2[k.at] # <<>>
    BY <2>5
  <2>7. PICK r \in Sound(Nobody) : /\ Runs(Into(k), n, r, Nobody, cl)
                                  /\ r.fat = n.fat /\ r.ch = ch2 /\ (Pending(n.sect, k.at) => Settled(r))
    <3>1. Owned(n.fat[1], n.sect, k, ch2, Nobody)
      BY <2>5 DEF f, s
    <3>2. \E r \in Sound(Nobody) : GoesInto(n, r, k, ch2, cl)
      BY <2>2, <2>5, <2>6, <3>1, IntoRuns
    <3> QED BY <3>2 DEF GoesInto
  <2>8. p.steps = Claim(new) \o Into(k)
    BY <1>4, <1>6 DEF k
  <2>9. Settled(r)
    BY <1>3a, <2>3, <2>5, <2>7 DEF Pending
  <2>10. Tidy(m, {}) => Tidy(r, {})
    <3>1. ASSUME NEW q \in Clusters, Unowned(ch2, q)
          PROVE  Unowned(n.ch, q) /\ q # new
      <4>1. ch2[h.at] = <<new>> /\ \A o \in Owners : o # h.at => ch2[o] = n.ch[o]
        BY <1>2, <1>3, <2>3 DEF ch2, ch, With
      <4>2. q # new
        BY <1>3, <3>1, <4>1 DEF Unowned
      <4>3. Unowned(n.ch, q)
        BY <2>1, <2>3, <3>1, <4>1 DEF Unowned, c
      <4> QED BY <4>2, <4>3
    <3> QED BY <2>3a, <2>7, <3>1 DEF Tidy
  <2>11. Runs(p.steps, m, r, Nobody, cl)
    BY <2>2, <2>7, <2>8, RunsCompose
  <2> QED BY <2>9, <2>10, <2>11 DEF Balances
<1>7. CASE ~ (h.cur < 2) /\ ~ h.full
  <2>1. m.hdl.open /\ m.ch[m.hdl.at] # <<>> /\ ~ m.hdl.full
    BY <1>1, <1>3, <1>7 DEF c, h
  <2>2. p.steps = PutData(m.hdl.cur) \o SetHandle(Filling(m.hdl))
    BY <1>1, <1>4, <1>7
  <2>3. PICK r \in Sound(Nobody) :
           /\ Runs(PutData(m.hdl.cur) \o SetHandle(Filling(m.hdl)), m, r, Nobody, cl)
           /\ r.fat = m.fat /\ r.ch = m.ch /\ (Pending(m.sect, m.hdl.at) => Settled(r))
    BY <2>1, FillRuns
  <2>4. Balances(m, r, p.ok)
    BY <1>1, <1>3a, <2>3 DEF Balances, Tidy
  <2> QED BY <2>2, <2>3, <2>4
<1>8. CASE ~ (h.cur < 2) /\ h.full
  <2>1. c # <<>> /\ DOMAIN c = 1 .. Len(c) /\ Len(c) \in Nat
    BY <1>3, <1>8
  <2>2. PICK j \in DOMAIN c : /\ h.cur = c[j] /\ h.size = j
                              /\ j = Len(c) \/ j = Len(c) - 1
    BY <1>3, <1>8, <2>1 DEF InPlace
  <2>3. next = LinkAfter(c, j)
    <3>1. Spelt(m.fat[1], m.ch, Nobody) /\ h.at # Nobody
      BY <1>1, <1>3, OwnedIs, EntryFacts
    <3>2. m.fat[1][c[j]] = LinkAfter(c, j)
      BY <1>3, <3>1 DEF Spelt, c
    <3>3. next = fat[1][h.cur]
      BY DEF next, FatNext, NoFault
    <3> QED BY <1>1, <2>2, <3>2, <3>3
  <2>4. CASE next < Eoc
    <3> DEFINE k == MovedTo(h, next)
    <3>1. j = Len(c) - 1 /\ j + 1 \in DOMAIN c /\ next = c[j + 1] /\ Len(c) # j
      <4>1. j # Len(c)
        <5> SUFFICES ASSUME j = Len(c) PROVE FALSE
          OBVIOUS
        <5>1. next = Eoc
          BY <2>3 DEF LinkAfter
        <5> QED BY <2>4, <5>1, VolumeFacts DEF Eoc
      <4>2. next = c[j + 1]
        BY <2>3, <4>1 DEF LinkAfter
      <4> QED BY <2>1, <2>2, <4>1, <4>2
    <3>2. next \in Clusters
      BY <1>3, <3>1
    <3>3. /\ k \in Handles /\ k.open = h.open /\ k.at = h.at /\ k.cur = next /\ ~ k.full /\ k.size = h.size
          /\ k.first = h.first
      BY <1>2, <1>8, <3>2, MovedToIs
    <3> HIDE DEF k
    <3>4. InPlace(k, c)
      <4>1. (j + 1) - 1 = j /\ j + 1 = Len(c) /\ j \in Nat
        <5> DEFINE l == Len(c)
        <5>1. j \in 1 .. l /\ l \in Nat /\ j = l - 1
          BY <2>1, <2>2, <3>1
        <5> HIDE DEF l
        <5>2. j \in Nat /\ (j + 1) - 1 = j /\ j + 1 = l
          BY <5>1
        <5> QED BY <5>2 DEF l
      <4> QED BY <2>1, <2>2, <3>1, <3>3, <4>1 DEF InPlace
    <3>5. Writing(m.sect, k, m.ch)
      <4>1. Writing(m.sect, h, m.ch) /\ h.open
        BY <1>1, OwnedIs DEF h
      <4> QED BY <3>3, <3>4, <4>1 DEF Writing, c
    <3>6. Owned(m.fat[1], m.sect, k, m.ch, Nobody)
      BY <1>1, <3>3, <3>5, HandleChange
    <3>7. k.open /\ m.ch[k.at] # <<>>
      BY <2>1, <3>3 DEF c, h
    <3>8. p.steps = Into(k)
      BY <1>4, <1>8, <2>4 DEF k
    <3>9. PICK r \in Sound(Nobody) :
             /\ Runs(Into(k), m, r, Nobody, cl)
             /\ r.fat = m.fat /\ r.ch = m.ch /\ (Pending(m.sect, k.at) => Settled(r))
      <4>1. \E r \in Sound(Nobody) : GoesInto(m, r, k, m.ch, cl)
        BY <1>2, <3>3, <3>6, <3>7, IntoRuns
      <4> QED BY <4>1 DEF GoesInto
    <3>10. Balances(m, r, p.ok)
      BY <1>3a, <3>3, <3>9 DEF Balances, Tidy
    <3> QED BY <3>8, <3>9, <3>10
  <2>5. CASE ~ (next < Eoc)
    <3> DEFINE n == Grown(m, h.at, new)
               k == MovedTo(h, new)
    <3>0. room # {}
      BY <1>4, <1>8, <2>5
    <3>1. new \in Clusters /\ Unowned(m.ch, new)
      BY <1>5, <3>0
    <3>2. j = Len(c)
      <4> SUFFICES ASSUME j # Len(c) PROVE FALSE
        OBVIOUS
      <4>1. next = c[j + 1] /\ j + 1 \in DOMAIN c
        BY <2>1, <2>2, <2>3 DEF LinkAfter
      <4>2. next \in Clusters
        BY <1>3, <4>1
      <4>3. next \in Nat /\ next < MaxCluster /\ MaxCluster \in Nat /\ Eoc = MaxCluster + 1
        BY <4>2, VolumeFacts DEF Eoc
      <4> QED BY <2>5, <4>3
    <3>3. h.cur = Last(c) /\ m.ch[h.at] # <<>> /\ Last(m.ch[h.at]) = h.cur
      BY <2>1, <2>2, <3>2 DEF Last, c
    <3>3a. Grow(Last(m.ch[h.at]), new) = Grow(h.cur, new)
      BY <3>3
    <3>4. m.hdl.open /\ h.at = m.hdl.at /\ m.hdl.full /\ m.hdl.cur = Last(m.ch[h.at])
      BY <1>1, <1>8, <3>3 DEF h
    <3>4a. Pending(m.sect, h.at)
      BY <1>3a
    <3>5. n \in Sound(Nobody) /\ Runs(Grow(Last(m.ch[h.at]), new), m, n, Nobody, cl)
      BY <1>3, <3>1, <3>3, <3>4, <3>4a, GrowRuns
    <3>6. n.hdl = h /\ n.ch[h.at] = Append(c, new) /\ EntryAt(n.sect, h.at) = EntryAt(m.sect, h.at)
      BY SMTT(30), <1>1, <1>3, <1>3a, <3>1, <3>3, GrownIs DEF c
    <3>6a. Tidy(m, {}) => Tidy(n, {})
      BY <1>3, <3>1, <3>3, TidyGrown
    <3> HIDE DEF n
    <3>7. /\ n.ch \in [Owners -> Seq(Clusters)] /\ Owned(n.fat[1], n.sect, h, n.ch, Nobody)
      BY <3>5, <3>6, SoundIs, MachineIs
    <3>8. /\ k \in Handles /\ k.open = h.open /\ k.at = h.at /\ k.cur = new /\ ~ k.full /\ k.size = h.size
          /\ k.first = h.first
      BY <1>2, <1>8, <3>1, MovedToIs
    <3> HIDE DEF k
    <3> DEFINE c2 == Append(c, new)
    <3>9. c2 # <<>> /\ j + 1 \in DOMAIN c2 /\ c2[j + 1] = new /\ Len(c2) = j + 1 /\ (j + 1) - 1 = j
      BY <1>3, <2>1, <3>2
    <3> HIDE DEF c2
    <3>10. InPlace(k, c2)
      BY <2>2, <3>8, <3>9 DEF InPlace
    <3>11. FirstIn(c2) = FirstIn(c)
      BY <1>3, <2>1 DEF FirstIn, c2
    <3>12. Writing(n.sect, k, n.ch)
      <4>1. Writing(n.sect, h, n.ch) /\ h.open
        BY <3>7, OwnedIs DEF h
      <4>2. n.ch[h.at] = c2
        BY <3>6 DEF c2
      <4> QED BY <3>8, <3>10, <4>1, <4>2 DEF Writing
    <3>13. Owned(n.fat[1], n.sect, k, n.ch, Nobody)
      BY <3>7, <3>8, <3>12, HandleChange
    <3>14. k.open /\ n.ch[k.at] # <<>>
      BY <3>6, <3>8, <3>9 DEF c2, h
    <3>15. PICK r \in Sound(Nobody) :
             /\ Runs(Into(k), n, r, Nobody, cl)
             /\ r.fat = n.fat /\ r.ch = n.ch /\ (Pending(n.sect, k.at) => Settled(r))
      <4>1. \E r \in Sound(Nobody) : GoesInto(n, r, k, n.ch, cl)
        BY <3>5, <3>7, <3>8, <3>13, <3>14, IntoRuns
      <4> QED BY <4>1 DEF GoesInto
    <3>16. p.steps = Grow(Last(m.ch[h.at]), new) \o Into(k)
      BY <1>4, <1>8, <2>5, <3>3, <3>3a DEF k
    <3>17. Runs(p.steps, m, r, Nobody, cl)
      BY <3>5, <3>15, <3>16, RunsCompose
    <3>18. Balances(m, r, p.ok)
      BY <1>3a, <3>6, <3>6a, <3>8, <3>15 DEF Balances, Pending, Tidy
    <3> QED BY <3>17, <3>18
  <2> QED BY <2>4, <2>5
<1> QED
  BY <1>6, <1>7, <1>8

\* fat32_close() writes the entry, and then lets the file go.
LEMMA CloseRunsOn ==
  ASSUME NEW cl, NEW m \in Sound(Nobody), Now(m), Settled(m), hdl.open, NEW p \in ClosePlans
  PROVE  \E r \in Sound(Nobody) : Runs(p.steps, m, r, Nobody, cl) /\ Balances(m, r, p.ok)
<1> DEFINE h == hdl
           at == h.at
           old == EntryAt(m.sect, at)
           e == Entry(old.name, FALSE, h.first, h.size)
           c == m.ch[at]
           n == Entered(m, at, e, c)
<1>1. /\ m \in Machines /\ m.hdl = h /\ m.sect = sect
      /\ Owned(m.fat[1], m.sect, h, m.ch, Nobody) /\ h.open
  BY SoundIs DEF Now
<1>2. /\ m.sect \in [Clusters -> [Slot -> Entries]] /\ h \in Handles
      /\ m.ch \in [Owners -> Seq(Clusters)]
  BY <1>1, MachineIs
<1>3. /\ at \in Position /\ at \in Owners /\ c \in Seq(Clusters)
      /\ Used(m.sect, at) /\ ~ old.isdir
      /\ h.first = FirstIn(c) /\ InPlace(h, c) /\ (Exact => h.size = Len(c))
      /\ \E d \in Dirs(m.sect, m.ch) : In(m.ch, d, at)
  BY <1>1, <1>2, HandleIs DEF Settled
<1>4. PICK d \in Dirs(m.sect, m.ch) : In(m.ch, d, at)
  BY <1>3
<1>5. p.steps = PutSlot(at, e) \o SetHandle(NoHandle)
  <2>1. ClosePlans = Plan(PutSlot(at, e) \o SetHandle(NoHandle))
    BY <1>1 DEF ClosePlans, At, EntryAt
  <2> QED BY <2>1, PlanIs
<1>6. old \in Entries
  BY <1>2, <1>3, EntryFacts DEF EntryAt
<1> HIDE DEF old, at, c, h
<1>7. /\ e \in Entries /\ e.name = old.name /\ e.isdir = old.isdir /\ e.clus = h.first
      /\ e.size = h.size
  <2>1. e = [name |-> old.name, isdir |-> FALSE, clus |-> h.first, size |-> h.size]
    BY DEF Entry
  <2> HIDE DEF e
  <2>2. e.name = old.name /\ e.isdir = FALSE /\ e.clus = h.first /\ e.size = h.size
    BY <2>1
  <2>3. h.first \in {0} \cup Clusters /\ h.size \in 0 .. MaxCluster
    BY <1>2 DEF Handles
  <2>4. old.isdir = FALSE /\ old.name \in EntryNames
    BY <1>3, <1>6 DEF Entries, AnEntry
  <2>5. h.first = 0 => h.size = 0
    <3>1. c # <<>> => h.first \in Clusters
      BY <1>3 DEF FirstIn
    <3> QED BY <1>3, <3>1, VolumeFacts DEF InPlace, Free
  <2>6. e \in Entries
    BY <2>1, <2>3, <2>4, <2>5 DEF Entries, AnEntry
  <2> QED BY <2>2, <2>4, <2>6
<1>8. Aimed(m, m, cl, at)
  BY <1>1 DEF Aimed, at, h
<1> HIDE DEF e
<1>9. e.name \in Names /\ e.isdir = EntryAt(m.sect, at).isdir /\ e.name = EntryAt(m.sect, at).name
      /\ e.clus = FirstIn(m.ch[at]) /\ (Exact => e.size = Len(m.ch[at]))
  BY <1>3, <1>7 DEF Used, old, c
<1>10. n \in Sound(Nobody) /\ Runs(PutSlot(at, e), m, n, Nobody, cl)
  BY <1>3, <1>4, <1>7, <1>8, <1>9, RewriteRuns DEF c
<1>11. /\ n.fat = m.fat /\ n.hdl = h /\ n.ch[at] = c /\ EntryAt(n.sect, at) = e
       /\ \A q \in Owners : q # at => n.ch[q] = m.ch[q]
  BY <1>1, <1>3, <1>7, EnteredIs
<1> HIDE DEF n
<1>12. n.ch \in [Owners -> Seq(Clusters)] /\ Owned(n.fat[1], n.sect, n.hdl, n.ch, Nobody)
  BY <1>10, SoundIs, MachineIs
<1>13. Owned(n.fat[1], n.sect, NoHandle, n.ch, Nobody)
  <2>1. n.hdl.open /\ EntryAt(n.sect, n.hdl.at).clus = FirstIn(n.ch[n.hdl.at])
    BY <1>1, <1>9, <1>11 DEF at, c
  <2> QED BY <1>12, <2>1, HandleClosed
<1> DEFINE r == Handled(n, NoHandle, n.ch)
<1>14. r \in Sound(Nobody) /\ Runs(SetHandle(NoHandle), n, r, Nobody, cl)
       /\ r.fat = n.fat /\ r.hdl = NoHandle /\ r.ch = n.ch
  <2>1. HandsOver(n, r, NoHandle, n.ch, Nobody, cl)
    BY <1>10, <1>12, <1>13, OpenedAtIs, HandledRuns
  <2> HIDE DEF r
  <2> QED BY <2>1 DEF HandsOver
<1> HIDE DEF r
<1>15. Runs(PutSlot(at, e) \o SetHandle(NoHandle), m, r, Nobody, cl)
  BY <1>10, <1>14, RunsCompose
<1>16. Balances(m, r, p.ok)
  <2>1. \A q \in Owners : r.ch[q] = m.ch[q]
    BY <1>11, <1>14 DEF c
  <2> QED BY <1>11, <1>14, <2>1, OpenedAtIs DEF Balances, Settled, Tidy, Unowned
<1> QED
  BY <1>5, <1>14, <1>15, <1>16

\* The entry a call names, in the directory it names
Found(m, cl, d, p) ==
  /\ d \in Dirs(m.sect, m.ch) /\ d # Nobody /\ Called(m, d, cl.dir)
  /\ p \in Position /\ In(m.ch, d, p) /\ Used(m.sect, p) /\ EntryAt(m.sect, p).name = cl.name
  /\ Aimed(m, m, cl, p)

\* The directory a call names, and whether there is an entry in it
LEMMA LookUp ==
  ASSUME NEW m \in Sound(Nobody), Now(m), NEW cl, cl.dir \in Names \cup {"root"}, Parent(cl.dir, NoFault) # 0
  PROVE  \E d \in Dirs(m.sect, m.ch) :
           /\ Parent(cl.dir, NoFault) = m.ch[d][1] /\ Called(m, d, cl.dir)
           /\ \A name \in Names :
                LET p == DirFind(Parent(cl.dir, NoFault), name, NoFault)
                IN  /\ DirLocate(Parent(cl.dir, NoFault), name, NoFault) = p
                    /\ CreateLocate(Parent(cl.dir, NoFault), name, NoFault) = p
                    /\ p = <<>> => \A q \in Position : In(m.ch, d, q) => EntryAt(m.sect, q).name # name
                    /\ p # <<>> /\ cl.name = name => Found(m, cl, d, p)
<1> DEFINE P == Parent(cl.dir, NoFault)
<1>1. m.sect = sect
  BY DEF Now
<1>2. PICK d \in Dirs(sect, m.ch) : P = m.ch[d][1] /\ Called(m, d, cl.dir)
  BY ParentIs, EntryFacts
<1>3. d # Nobody
  BY EntryFacts, DirsAreOwners
<1> HIDE DEF P
<1>4. ASSUME NEW name \in Names
      PROVE  LET p == DirFind(P, name, NoFault)
             IN  /\ DirLocate(P, name, NoFault) = p
                 /\ CreateLocate(P, name, NoFault) = p
                 /\ p = <<>> => \A q \in Position : In(m.ch, d, q) => EntryAt(m.sect, q).name # name
                 /\ p # <<>> /\ cl.name = name => Found(m, cl, d, p)
  <2> DEFINE p == DirFind(m.ch[d][1], name, NoFault)
  <2>1. /\ \/ p = <<>> /\ \A q \in Position : In(m.ch, d, q) => EntryAt(sect, q).name # name
           \/ p \in Position /\ In(m.ch, d, p) /\ EntryAt(sect, p).name = name
        /\ DirLocate(m.ch[d][1], name, NoFault) = p
        /\ CreateLocate(m.ch[d][1], name, NoFault) = p
    BY <1>3, NameIsFound
  <2> HIDE DEF p
  <2>1a. p = <<>> => p \notin Position
    BY EntryFacts
  <2>2. p # <<>> \/ \A q \in Position : In(m.ch, d, q) => EntryAt(m.sect, q).name # name
    BY <1>1, <2>1, <2>1a
  <2>4. ASSUME p # <<>>, cl.name = name PROVE Found(m, cl, d, p)
    <3>1. p \in Position /\ In(m.ch, d, p) /\ EntryAt(m.sect, p).name = name
      BY <1>1, <2>1, <2>4
    <3>2. d \in Dirs(m.sect, m.ch)
      BY <1>1
    <3> QED BY <1>2, <1>3, <2>4, <3>1, <3>2 DEF Found, Aimed, Used
  <2> QED BY <1>2, <2>1, <2>2, <2>4 DEF p
<1> QED
  BY <1>1, <1>2, <1>4 DEF P

\* An entry that is written, as those who read it later see it
Holding(m, n, p, e, c) ==
  /\ n.fat = m.fat /\ n.hdl = m.hdl /\ n.ch[p] = c /\ EntryAt(n.sect, p) = e
  /\ \A q \in Owners : q # p => n.ch[q] = m.ch[q]
  /\ \A q \in Position : q # p => EntryAt(n.sect, q) = EntryAt(m.sect, q)
  /\ \A q : \A b \in Owners : b # p => (In(n.ch, b, q) <=> In(m.ch, b, q))

LEMMA EnteredHolds ==
  ASSUME NEW m \in Machines, NEW p \in Position, NEW e \in Entries, NEW c \in Seq(Clusters)
  PROVE  Holding(m, Entered(m, p, e, c), p, e, c)
  BY EnteredIs DEF Holding

LEMMA RenameRunsOn ==
  ASSUME NEW m \in Sound(Nobody), Now(m), Settled(m), NEW cl, cl.dir \in Names \cup {"root"},
         cl.name \in Names, NEW new \in Names, NEW p \in RenamePlans(cl.dir, cl.name, new, NoFault)
  PROVE  \E r \in Sound(Nobody) : Runs(p.steps, m, r, Nobody, cl) /\ Balances(m, r, p.ok)
<1> DEFINE P == Parent(cl.dir, NoFault)
           at == DirLocate(P, cl.name, NoFault)
           old == EntryAt(m.sect, at)
           e == [old EXCEPT !.name = new]
           c == m.ch[at]
           n == Entered(m, at, e, c)
<1>1. /\ m \in Machines /\ m.sect = sect /\ Owned(m.fat[1], m.sect, m.hdl, m.ch, Nobody)
  BY SoundIs DEF Now
<1>2. /\ m.sect \in [Clusters -> [Slot -> Entries]] /\ m.hdl \in Handles
      /\ m.ch \in [Owners -> Seq(Clusters)]
  BY <1>1, MachineIs
<1>3. P # 0 /\ DirFind(P, new, NoFault) = <<>> /\ at # <<>> /\ p.steps = PutSlot(at, e)
  <2>1. RenamePlans(cl.dir, cl.name, new, NoFault) =
          IF P = 0 \/ DirFind(P, new, NoFault) # <<>> \/ at = <<>> THEN {} ELSE Plan(PutSlot(at, e))
    BY <1>1 DEF RenamePlans, Refused, At, EntryAt
  <2> HIDE DEF P, at, e
  <2> QED BY <2>1, PlanIs
<1>4. PICK d \in Dirs(m.sect, m.ch) :
           /\ P = m.ch[d][1] /\ Called(m, d, cl.dir)
           /\ \A name \in Names :
                LET q == DirFind(P, name, NoFault)
                IN  /\ DirLocate(P, name, NoFault) = q
                    /\ CreateLocate(P, name, NoFault) = q
                    /\ q = <<>> => \A t \in Position : In(m.ch, d, t) => EntryAt(m.sect, t).name # name
                    /\ q # <<>> /\ cl.name = name => Found(m, cl, d, q)
  BY <1>3, LookUp
<1>5. Found(m, cl, d, at)
  BY <1>3, <1>4
<1>6. \A q \in Position : In(m.ch, d, q) => EntryAt(m.sect, q).name # new
  BY <1>3, <1>4
<1>7. /\ at \in Position /\ at \in Owners /\ In(m.ch, d, at) /\ Used(m.sect, at) /\ Aimed(m, m, cl, at)
  BY <1>5, EntryFacts DEF Found
<1> HIDE DEF at, P
<1>8. c \in Seq(Clusters) /\ old \in Entries
  BY <1>2, <1>7, EntryFacts DEF EntryAt
<1>9. Leading(m.sect, m.hdl, m.ch) /\ Sized(m.sect, m.ch)
  BY <1>1, OwnedIs
<1>10. old.clus = FirstIn(c) \/ (m.hdl.open /\ at = m.hdl.at /\ old.clus = 0)
  BY <1>7, <1>9 DEF Leading
<1>10a. Exact /\ c # <<>> /\ ~ old.isdir /\ old.clus # 0 => old.size = Len(c)
  BY <1>7, <1>9 DEF Sized
<1> HIDE DEF old
<1>11. /\ e \in Entries /\ e.name = new /\ e.isdir = old.isdir /\ e.clus = old.clus
       /\ e.size = old.size
  <2>1. new \in EntryNames
    BY DEF EntryNames
  <2> QED BY <1>8, <2>1 DEF Entries, AnEntry
<1> HIDE DEF e
<1>12. e.name \in Names /\ e.isdir = EntryAt(m.sect, at).isdir
       /\ (e.clus = FirstIn(m.ch[at]) \/ (m.hdl.open /\ at = m.hdl.at /\ e.clus = 0))
       /\ \A q \in Position : In(m.ch, d, q) => EntryAt(m.sect, q).name # e.name
       /\ (Exact /\ m.ch[at] # <<>> /\ ~ e.isdir /\ e.clus # 0 => e.size = Len(m.ch[at]))
  BY <1>6, <1>10, <1>10a, <1>11 DEF old
<1>13. n \in Sound(Nobody) /\ Runs(PutSlot(at, e), m, n, Nobody, cl)
  BY <1>7, <1>11, <1>12, RewriteRuns
<1>14. Holding(m, n, at, e, c)
  BY <1>1, <1>7, <1>8, <1>11, EnteredHolds
<1> HIDE DEF n
<1>15. Balances(m, n, p.ok)
  <2>1. \A q \in Owners : n.ch[q] = m.ch[q]
    BY <1>14 DEF Holding
  <2>2. \A q \in Position : EntryAt(n.sect, q).clus = EntryAt(m.sect, q).clus
    BY <1>11, <1>14 DEF Holding, old
  <2>3. Settled(n)
    <3>1. n.hdl = m.hdl /\ m.hdl.at \in Position
      BY <1>2, <1>14 DEF Holding, Handles
    <3> QED BY <2>1, <2>2, <3>1, EntryFacts DEF Settled, Pending
  <2> QED BY <1>14, <2>1, <2>3 DEF Balances, Holding, Tidy, Unowned
<1> QED
  BY <1>3, <1>13, <1>15

\* fat_free_chain() of an entry's cluster frees its chain.
LEMMA FreeingIs ==
  ASSUME NEW m \in Sound(Nobody), Now(m), NEW d \in Dirs(m.sect, m.ch), NEW x \in Position,
         In(m.ch, d, x), Used(m.sect, x), ~ (m.hdl.open /\ m.hdl.at = x)
  PROVE  FreeChain(At(x).clus, NoFault) = FlattenSeq([k \in DOMAIN m.ch[x] |-> FatSet(m.ch[x][k], Free)])
<1> DEFINE c == m.ch[x]
<1>1. /\ m \in Machines /\ m.sect = sect /\ Owned(m.fat[1], m.sect, m.hdl, m.ch, Nobody)
  BY SoundIs DEF Now
<1>2. Leading(m.sect, m.hdl, m.ch)
  BY <1>1, OwnedIs
<1>3. At(x).clus = FirstIn(c)
  BY <1>1, <1>2 DEF Leading, At, EntryAt
<1>4. Chain("free", FirstIn(c), NoFault) = c
  <2>1. CASE c = <<>>
    <3>1. FirstIn(c) = 0 /\ 0 \notin Clusters
      BY <2>1, VolumeFacts DEF FirstIn, Free
    <3> HIDE DEF c
    <3> QED BY <2>1, <3>1 DEF Chain
  <2>2. CASE c # <<>>
    <3>1. Walkable(Nobody, m, x) /\ x # Nobody
      BY <2>2, EntryFacts DEF Walkable
    <3>2. ReadsAll("free", m.ch[x])
      BY <3>1, WalkIs
    <3>3. FirstIn(c) = m.ch[x][1]
      BY <2>2 DEF FirstIn
    <3> QED BY <3>2, <3>3 DEF ReadsAll
  <2> QED BY <2>1, <2>2
<1> QED
  BY <1>3, <1>4 DEF FreeChain

\* The chain of x is freed, and then its entry is written over.
MayFree(m, cl, d, x) ==
  Now(m) /\ Found(m, cl, d, x) /\ Hollow(m, x) /\ ~ (m.hdl.open /\ m.hdl.at = x)
Emptied(m, x) == {Del, Entry(EntryAt(m.sect, x).name, FALSE, 0, 0)}
Freed(m, n, cl, d, x, e) ==
  /\ Runs(FreeChain(At(x).clus, NoFault) \o PutSlot(x, e), m, n, x, cl)
  /\ n.hdl = m.hdl /\ d \in Dirs(n.sect, n.ch) /\ In(n.ch, d, x)
  /\ n.ch[x] = <<>> /\ EntryAt(n.sect, x) = e
  /\ \A q \in Owners : q # x => n.ch[q] = m.ch[q]
  /\ \A q \in Position : q # x => EntryAt(n.sect, q) = EntryAt(m.sect, q)
  /\ Tidy(m, {}) => Tidy(n, {})

LEMMA FreedRuns ==
  ASSUME NEW m \in Sound(Nobody), NEW cl, NEW d, NEW x, MayFree(m, cl, d, x), NEW e \in Emptied(m, x)
  PROVE  \E n \in Sound(Nobody) : Freed(m, n, cl, d, x, e)
<1>0. /\ Now(m) /\ Found(m, cl, d, x) /\ Hollow(m, x) /\ ~ (m.hdl.open /\ m.hdl.at = x)
      /\ e \in {Del, Entry(EntryAt(m.sect, x).name, FALSE, 0, 0)}
  BY DEF MayFree, Emptied
<1> USE <1>0
<1>1. /\ m \in Machines /\ Owned(m.fat[1], m.sect, m.hdl, m.ch, Nobody)
  BY SoundIs
<1>2. /\ m.sect \in [Clusters -> [Slot -> Entries]] /\ m.hdl \in Handles
      /\ m.ch \in [Owners -> Seq(Clusters)]
  BY <1>1, MachineIs
<1>3. /\ d \in Dirs(m.sect, m.ch) /\ x \in Position /\ In(m.ch, d, x) /\ Used(m.sect, x)
      /\ Aimed(m, m, cl, x) /\ x \in Owners /\ x # Top
  BY EntryFacts DEF Found
<1>4. m \in Sound(x)
  BY <1>1, HoleOpens, SoundIs
<1> DEFINE F == FlattenSeq([k \in DOMAIN m.ch[x] |-> FatSet(m.ch[x][k], Free)])
           n1 == Machine(FreedTo(m.fat, m.ch[x], Len(m.ch[x])), m.sect, m.hdl, m.ch)
<1>5. n1 \in Sound(x) /\ Runs(F, m, n1, x, cl)
  BY <1>3, <1>4, FreeChainRuns
<1>6. n1.sect = m.sect /\ n1.hdl = m.hdl /\ n1.ch = m.ch
      /\ n1.fat = FreedTo(m.fat, m.ch[x], Len(m.ch[x]))
  BY DEF Machine
<1>7. F = FreeChain(At(x).clus, NoFault)
  BY <1>3, FreeingIs
<1> HIDE DEF F, n1
<1>8. /\ d \in Dirs(n1.sect, n1.ch) /\ In(n1.ch, d, x) /\ Used(n1.sect, x)
      /\ Hollow(n1, x) /\ ~ (n1.hdl.open /\ n1.hdl.at = x)
      /\ EntryAt(n1.sect, x) = EntryAt(m.sect, x)
  BY <1>3, <1>6 DEF Hollow
<1>9. Aimed(n1, n1, cl, x)
  BY <1>3, <1>6 DEF Aimed, Called
<1> DEFINE n == Entered(n1, x, e, <<>>)
<1>10. n \in Sound(Nobody) /\ Runs(PutSlot(x, e), n1, n, x, cl)
  BY <1>3, <1>5, <1>8, <1>9, ClearRuns
<1>11. e \in Entries
  <2>1. EntryAt(m.sect, x).name \in EntryNames
    BY <1>3 DEF Used, EntryNames
  <2>2. Entry(EntryAt(m.sect, x).name, FALSE, 0, 0) \in Entries
    BY <2>1, VolumeFacts DEF Entry, Entries, AnEntry
  <2> QED BY <2>2, EntryFacts
<1>12. d # x
  <2>1. d = x => In(m.ch, x, x)
    BY <1>3
  <2>2. d = x => ~ Used(m.sect, x)
    BY <1>3, <2>1 DEF Hollow
  <2> QED BY <1>3, <2>2
<1>13. d \in Owners
  BY <1>3, DirsAreOwners
<1>14. n1 \in Machines /\ <<>> \in Seq(Clusters)
  BY <1>5, SoundIs
<1>15. /\ n.fat = n1.fat /\ n.hdl = n1.hdl /\ n.ch[x] = <<>> /\ \A q \in Owners : q # x => n.ch[q] = n1.ch[q]
       /\ EntryAt(n.sect, x) = e
       /\ \A q \in Position : q # x => EntryAt(n.sect, q) = EntryAt(n1.sect, q)
       /\ \A q : \A b \in Owners : b # x => (In(n.ch, b, q) <=> In(n1.ch, b, q))
  <2>1. Holding(n1, n, x, e, <<>>)
    BY <1>3, <1>11, <1>14, EnteredHolds
  <2> HIDE DEF n
  <2> QED BY <2>1 DEF Holding
<1> HIDE DEF n
<1>16. In(n.ch, d, x)
  BY <1>8, <1>12, <1>13, <1>15
<1>17. d \in Dirs(n.sect, n.ch)
  <2>1. CASE d = Top
    BY <2>1, DirsAreOwners
  <2>2. CASE d # Top
    <3>1. d \in Position /\ In(n1.ch, Top, d) /\ Used(n1.sect, d) /\ EntryAt(n1.sect, d).isdir
      BY <1>8, <2>2 DEF Dirs
    <3>2. In(n.ch, Top, d)
      BY <1>3, <1>15, <3>1, EntryFacts
    <3> QED BY <1>12, <1>15, <3>1, <3>2 DEF Dirs, Used
  <2> QED BY <2>1, <2>2
<1>18. Runs(FreeChain(At(x).clus, NoFault) \o PutSlot(x, e), m, n, x, cl)
  BY <1>5, <1>7, <1>10, RunsCompose
<1>19. Tidy(m, {}) => Tidy(n, {})
  <2>1. /\ n.fat = FreedTo(m.fat, m.ch[x], Len(m.ch[x]))
        /\ \A q \in Owners : q # x => n.ch[q] = m.ch[q]
    BY <1>6, <1>15
  <2> QED BY <1>1, <1>3, <2>1, TidyFreed
<1> QED
  BY <1>6, <1>10, <1>15, <1>16, <1>17, <1>18, <1>19 DEF Freed

\* What is not about the handle's file leaves the handle settled.
LEMMA FreedBalances ==
  ASSUME NEW m \in Sound(Nobody), NEW n, NEW cl, NEW d, NEW x, MayFree(m, cl, d, x), NEW e,
         Freed(m, n, cl, d, x, e), Settled(m), NEW ok
  PROVE  Balances(m, n, ok)
<1>1. m.hdl \in Handles
  BY SoundIs, MachineIs
<1>2. /\ n.hdl = m.hdl /\ ~ (m.hdl.open /\ m.hdl.at = x)
      /\ \A q \in Owners : q # x => n.ch[q] = m.ch[q]
      /\ \A q \in Position : q # x => EntryAt(n.sect, q) = EntryAt(m.sect, q)
      /\ Tidy(m, {}) => Tidy(n, {})
  BY DEF Freed, MayFree
<1>3. m.hdl.open => m.hdl.at \in Position /\ m.hdl.at \in Owners
  BY <1>1, EntryFacts DEF Handles
<1>4. Settled(n)
  BY <1>2, <1>3 DEF Settled, Pending
<1> QED BY <1>2, <1>4 DEF Balances

LEMMA UnlinkRunsOn ==
  ASSUME NEW m \in Sound(Nobody), Now(m), NEW cl, cl.dir \in Names \cup {"root"}, cl.name \in Names,
         Settled(m), NotBeingWritten(cl.dir, cl.name), NEW p \in UnlinkPlans(cl.dir, cl.name, NoFault)
  PROVE  \E x \in Position, r \in Sound(Nobody) : Runs(p.steps, m, r, x, cl) /\ Balances(m, r, p.ok)
<1> DEFINE P == Parent(cl.dir, NoFault)
           x == DirFind(P, cl.name, NoFault)
           at == DirLocate(P, cl.name, NoFault)
<1>1. /\ m \in Machines /\ m.sect = sect /\ m.hdl = hdl
  BY SoundIs DEF Now
<1>2. P # 0 /\ x # <<>> /\ ~ At(x).isdir /\ p.steps = FreeChain(At(x).clus, NoFault) \o PutSlot(at, Del)
  <2>1. UnlinkPlans(cl.dir, cl.name, NoFault) =
          IF P = 0 \/ x = <<>> THEN {} ELSE IF At(x).isdir THEN {}
          ELSE IF at = <<>> THEN {} ELSE Plan(FreeChain(At(x).clus, NoFault) \o PutSlot(at, Del))
    BY DEF UnlinkPlans, Removal, Refused
  <2> HIDE DEF P, at, x
  <2> QED BY <2>1, PlanIs
<1>3. PICK d \in Dirs(m.sect, m.ch) :
           /\ P = m.ch[d][1] /\ Called(m, d, cl.dir)
           /\ \A name \in Names :
                LET q == DirFind(P, name, NoFault)
                IN  /\ DirLocate(P, name, NoFault) = q
                    /\ CreateLocate(P, name, NoFault) = q
                    /\ q = <<>> => \A t \in Position : In(m.ch, d, t) => EntryAt(m.sect, t).name # name
                    /\ q # <<>> /\ cl.name = name => Found(m, cl, d, q)
  BY <1>2, LookUp
<1>4. at = x /\ Found(m, cl, d, x)
  BY <1>2, <1>3
<1>5. hdl.open => x # hdl.at
  BY DEF NotBeingWritten
<1> HIDE DEF P, at, x
<1>6. x \in Position /\ x \notin Dirs(m.sect, m.ch)
  BY <1>1, <1>2, <1>4, EntryFacts DEF Found, Dirs, At, EntryAt
<1>7. Hollow(m, x) /\ ~ (m.hdl.open /\ m.hdl.at = x)
  BY <1>1, <1>5, <1>6 DEF Hollow
<1>8. \E n \in Sound(Nobody) : /\ Runs(FreeChain(At(x).clus, NoFault) \o PutSlot(x, Del), m, n, x, cl)
                                /\ Balances(m, n, p.ok)
  <2> DEFINE e == Del
  <2>1. e \in Emptied(m, x)
    BY DEF Emptied
  <2>3. MayFree(m, cl, d, x)
    BY <1>4, <1>7 DEF MayFree
  <2> HIDE DEF e
  <2>2. \E n \in Sound(Nobody) : /\ Runs(FreeChain(At(x).clus, NoFault) \o PutSlot(x, e), m, n, x, cl)
                                  /\ Balances(m, n, p.ok)
    <3>1. PICK n \in Sound(Nobody) : Freed(m, n, cl, d, x, e)
      BY <2>1, <2>3, FreedRuns
    <3>2. Balances(m, n, p.ok)
      BY <2>3, <3>1, FreedBalances
    <3> QED BY <3>1, <3>2 DEF Freed
  <2> QED BY <2>2 DEF e
<1> QED
  BY <1>2, <1>4, <1>6, <1>8

LEMMA RmdirRunsOn ==
  ASSUME NEW m \in Sound(Nobody), Now(m), NEW cl, cl.dir \in Names \cup {"root"}, cl.name \in Names,
         Settled(m), NEW p \in RmdirPlans(cl.dir, cl.name, NoFault)
  PROVE  \E x \in Position, r \in Sound(Nobody) : Runs(p.steps, m, r, x, cl) /\ Balances(m, r, p.ok)
<1> DEFINE P == Parent(cl.dir, NoFault)
           x == DirFind(P, cl.name, NoFault)
           at == DirLocate(P, cl.name, NoFault)
<1>1. /\ m \in Machines /\ m.sect = sect /\ m.hdl = hdl /\ Owned(m.fat[1], m.sect, m.hdl, m.ch, Nobody)
  BY SoundIs DEF Now
<1>2. P # 0 /\ x # <<>> /\ At(x).isdir /\ DirIsEmpty(At(x).clus, NoFault)
      /\ p.steps = FreeChain(At(x).clus, NoFault) \o PutSlot(at, Del)
  <2>1. RmdirPlans(cl.dir, cl.name, NoFault) =
          IF P = 0 \/ x = <<>> THEN {} ELSE IF ~ At(x).isdir \/ ~ DirIsEmpty(At(x).clus, NoFault) THEN {}
          ELSE IF at = <<>> THEN {} ELSE Plan(FreeChain(At(x).clus, NoFault) \o PutSlot(at, Del))
    BY DEF RmdirPlans, Removal, Refused
  <2> HIDE DEF P, at, x
  <2> QED BY <2>1, PlanIs
<1>3. PICK d \in Dirs(m.sect, m.ch) :
           /\ P = m.ch[d][1] /\ Called(m, d, cl.dir)
           /\ \A name \in Names :
                LET q == DirFind(P, name, NoFault)
                IN  /\ DirLocate(P, name, NoFault) = q
                    /\ CreateLocate(P, name, NoFault) = q
                    /\ q = <<>> => \A t \in Position : In(m.ch, d, t) => EntryAt(m.sect, t).name # name
                    /\ q # <<>> /\ cl.name = name => Found(m, cl, d, q)
  BY <1>2, LookUp
<1>4. at = x /\ Found(m, cl, d, x)
  BY <1>2, <1>3
<1> HIDE DEF P, at, x
<1>5. x \in Position /\ In(m.ch, d, x) /\ Used(m.sect, x) /\ EntryAt(m.sect, x).isdir /\ x # Top /\ x # Nobody
  BY <1>1, <1>2, <1>4, EntryFacts DEF Found, At, EntryAt
<1>6. Leading(m.sect, m.hdl, m.ch) /\ Writing(m.sect, m.hdl, m.ch)
  BY <1>1, OwnedIs
<1>7. d = Top
  BY <1>5, <1>6 DEF Leading
<1>8. x \in Dirs(sect, m.ch)
  BY <1>1, <1>5, <1>7 DEF Dirs
<1>9. At(x).clus = m.ch[x][1]
  BY <1>1, <1>5, <1>8, DirStart DEF At, EntryAt
<1>10. DirIsEmpty(m.ch[x][1], NoFault)
  BY <1>2, <1>9
<1>11. \A q \in Position : In(m.ch, x, q) => ~ Used(sect, q)
  BY <1>5, <1>8, <1>10, DirIsEmptyIs
<1>12. Hollow(m, x)
  BY <1>1, <1>11 DEF Hollow
<1>13. ~ (m.hdl.open /\ m.hdl.at = x)
  BY <1>5, <1>6 DEF Writing
<1>14. \E n \in Sound(Nobody) : /\ Runs(FreeChain(At(x).clus, NoFault) \o PutSlot(x, Del), m, n, x, cl)
                                /\ Balances(m, n, p.ok)
  <2> DEFINE e == Del
  <2>1. e \in Emptied(m, x)
    BY DEF Emptied
  <2>3. MayFree(m, cl, d, x)
    BY <1>4, <1>12, <1>13 DEF MayFree
  <2> HIDE DEF e
  <2>2. \E n \in Sound(Nobody) : /\ Runs(FreeChain(At(x).clus, NoFault) \o PutSlot(x, e), m, n, x, cl)
                                  /\ Balances(m, n, p.ok)
    <3>1. PICK n \in Sound(Nobody) : Freed(m, n, cl, d, x, e)
      BY <2>1, <2>3, FreedRuns
    <3>2. Balances(m, n, p.ok)
      BY <2>3, <3>1, FreedBalances
    <3> QED BY <3>1, <3>2 DEF Freed
  <2> QED BY <2>2 DEF e
<1> QED
  BY <1>2, <1>4, <1>5, <1>14

\* A file that has no cluster is opened.
LEMMA OpenRuns ==
  ASSUME NEW cl, NEW x, NEW m \in Sound(Nobody), m \in Sound(x), ~ m.hdl.open,
         NEW d \in Dirs(m.sect, m.ch), NEW p \in Position,
         In(m.ch, d, p), Used(m.sect, p), ~ EntryAt(m.sect, p).isdir, m.ch[p] = <<>>
  PROVE  \E r \in Sound(Nobody) :
           /\ Runs(SetHandle(OpenedAt(p)), m, r, x, cl)
           /\ r.fat = m.fat /\ r.ch = m.ch /\ Settled(r)
<1> DEFINE k == OpenedAt(p)
           r == Handled(m, k, m.ch)
<1>1. m \in Machines /\ Owned(m.fat[1], m.sect, m.hdl, m.ch, Nobody) /\ m.ch \in [Owners -> Seq(Clusters)]
  BY SoundIs, MachineIs
<1>2. k \in Handles /\ k.open /\ k.at = p /\ k.first = 0 /\ k.cur = 0 /\ ~ k.full /\ k.size = 0
  BY OpenedAtIs
<1> HIDE DEF k
<1>3. Writing(m.sect, k, m.ch)
  BY <1>2 DEF Writing, InPlace, FirstIn
<1>4. Owned(m.fat[1], m.sect, k, m.ch, Nobody)
  BY <1>1, <1>3, HandleChange
<1>5. /\ r \in Sound(Nobody) /\ Runs(SetHandle(k), m, r, x, cl)
      /\ r.fat = m.fat /\ r.sect = m.sect /\ r.hdl = k /\ r.ch = m.ch
  <2>1. HandsOver(m, r, k, m.ch, x, cl)
    BY <1>1, <1>2, <1>4, HandledRuns
  <2> HIDE DEF r
  <2> QED BY <2>1 DEF HandsOver
<1> HIDE DEF r
<1>6. EntryAt(m.sect, p).clus = 0
  <2>1. Leading(m.sect, m.hdl, m.ch) /\ FirstIn(m.ch[p]) = 0
    BY <1>1, OwnedIs DEF FirstIn
  <2> QED BY <2>1 DEF Leading
<1>7. Settled(r)
  BY <1>2, <1>5, <1>6 DEF Settled, Pending
<1> QED
  BY <1>5, <1>7 DEF k

LEMMA TruncateRunsOn ==
  ASSUME NEW m \in Sound(Nobody), Now(m), NEW cl, cl.dir \in Names \cup {"root"}, cl.name \in Names,
         ~ hdl.open, Exists(cl.dir, cl.name), NEW p \in CreatePlans(cl.dir, cl.name, NoFault)
  PROVE  \E x \in Position, r \in Sound(Nobody) : Runs(p.steps, m, r, x, cl) /\ Balances(m, r, p.ok)
<1> DEFINE P == Parent(cl.dir, NoFault)
           x == DirFind(P, cl.name, NoFault)
           at == CreateLocate(P, cl.name, NoFault)
           chain == Chain("free", At(x).clus, NoFault)
           slot == SlotIn(P, FreeClusters({}, NoFault) \cup ToSet(chain), NoFault)
           e == Entry(cl.name, FALSE, 0, 0)
<1>1. /\ m \in Machines /\ m.sect = sect /\ m.hdl = hdl
  BY SoundIs DEF Now
<1>2. x # <<>>
  BY DEF Exists
<1>3. /\ P # 0 /\ ~ At(x).isdir
      /\ at # <<>> => p.steps = (FreeChain(At(x).clus, NoFault) \o PutSlot(at, e)) \o SetHandle(OpenedAt(at))
  <2>1. CreatePlans(cl.dir, cl.name, NoFault) =
          IF P = 0 \/ At(x).isdir THEN {}
          ELSE IF at # <<>>
          THEN Plan((FreeChain(At(x).clus, NoFault) \o PutSlot(at, e)) \o SetHandle(OpenedAt(at)))
          ELSE IF ~ slot.ok THEN Stopped(FreeChain(At(x).clus, NoFault))
          ELSE Plan(((FreeChain(At(x).clus, NoFault) \o slot.steps) \o PutSlot(slot.at, e))
                    \o SetHandle(OpenedAt(slot.at)))
    <3>1. ~ LocateStops(P, cl.name, NoFault)
      BY DEF LocateStops, NoFault
    <3> QED BY <1>2, <3>1 DEF CreatePlans, Refused, OpenedAt
  <2> HIDE DEF P, at, x, e, slot, chain
  <2> QED BY <2>1, PlanIs
<1>4. PICK d \in Dirs(m.sect, m.ch) :
           /\ P = m.ch[d][1] /\ Called(m, d, cl.dir)
           /\ \A name \in Names :
                LET q == DirFind(P, name, NoFault)
                IN  /\ DirLocate(P, name, NoFault) = q
                    /\ CreateLocate(P, name, NoFault) = q
                    /\ q = <<>> => \A t \in Position : In(m.ch, d, t) => EntryAt(m.sect, t).name # name
                    /\ q # <<>> /\ cl.name = name => Found(m, cl, d, q)
  BY <1>3, LookUp
<1>5. at = x /\ Found(m, cl, d, x)
  BY <1>2, <1>4
<1> HIDE DEF P, at, x
<1>6. x \in Position /\ x \notin Dirs(m.sect, m.ch) /\ EntryAt(m.sect, x).name = cl.name
  BY <1>1, <1>3, <1>5, EntryFacts DEF Found, Dirs, At, EntryAt
<1>7. Hollow(m, x) /\ ~ (m.hdl.open /\ m.hdl.at = x)
  BY <1>1, <1>6 DEF Hollow
<1>8. e \in Emptied(m, x) /\ MayFree(m, cl, d, x)
  BY <1>5, <1>6, <1>7 DEF Emptied, MayFree
<1>9. ~ e.isdir /\ e.name \in Names
  BY DEF Entry
<1> HIDE DEF e
<1>10. PICK n \in Sound(Nobody) :
           /\ Runs(FreeChain(At(x).clus, NoFault) \o PutSlot(x, e), m, n, x, cl)
           /\ n.hdl = m.hdl /\ d \in Dirs(n.sect, n.ch) /\ In(n.ch, d, x)
           /\ n.ch[x] = <<>> /\ EntryAt(n.sect, x) = e
           /\ Tidy(m, {}) => Tidy(n, {})
  <2>1. \E n \in Sound(Nobody) : Freed(m, n, cl, d, x, e)
    BY <1>8, FreedRuns
  <2> QED BY <2>1 DEF Freed
<1>11. n \in Sound(x) /\ ~ n.hdl.open /\ Used(n.sect, x) /\ ~ EntryAt(n.sect, x).isdir
  BY <1>1, <1>9, <1>10, RunsEnds DEF Used
<1>12. PICK r \in Sound(Nobody) :
           /\ Runs(SetHandle(OpenedAt(x)), n, r, x, cl)
           /\ r.fat = n.fat /\ r.ch = n.ch /\ Settled(r)
  BY <1>6, <1>10, <1>11, OpenRuns
<1>13. Runs((FreeChain(At(x).clus, NoFault) \o PutSlot(x, e)) \o SetHandle(OpenedAt(x)), m, r, x, cl)
  BY <1>10, <1>12, RunsCompose
<1>14. at # <<>>
  BY <1>5, <1>6, EntryFacts
<1>15. Balances(m, r, p.ok)
  BY <1>10, <1>12 DEF Balances, Tidy
<1> QED
  BY <1>3, <1>5, <1>6, <1>13, <1>14, <1>15

-----------------------------------------------------------------------------
(* Calls that add a name. *)

\* The place written stays in its directory.
LEMMA HoldingKeeps ==
  ASSUME NEW m, NEW n, NEW p \in Position, NEW e, NEW c, Holding(m, n, p, e, c),
         NEW d \in Dirs(m.sect, m.ch), d # p, In(m.ch, d, p)
  PROVE  d \in Dirs(n.sect, n.ch) /\ In(n.ch, d, p)
<1>1. d \in Owners /\ p # Top /\ Top \in Owners
  BY DirsAreOwners, EntryFacts
<1>2. In(n.ch, d, p)
  BY <1>1 DEF Holding
<1>3. CASE d = Top
  BY <1>2, <1>3, DirsAreOwners
<1>4. CASE d # Top
  <2>1. d \in Position /\ In(m.ch, Top, d) /\ Used(m.sect, d) /\ EntryAt(m.sect, d).isdir
    BY <1>4 DEF Dirs
  <2>2. In(n.ch, Top, d) /\ EntryAt(n.sect, d) = EntryAt(m.sect, d)
    BY <1>1, <2>1 DEF Holding
  <2> QED BY <1>2, <2>1, <2>2 DEF Dirs, Used
<1> QED BY <1>3, <1>4

\* The directory d has no entry called name.
Fresh(m, d, name) == \A q \in Position : In(m.ch, d, q) => EntryAt(m.sect, q).name # name

\* A slot has been found, and an entry with a new name is put in it.
NamedAt(m, n, d, p, e, c) ==
  n \in Sound(Nobody) /\ Holding(m, n, p, e, c) /\ p \in Position
  /\ d \in Dirs(n.sect, n.ch) /\ In(n.ch, d, p)

\* The directories' chains may change, and what is in no directory.
LEMMA DirsStaySettled ==
  ASSUME NEW m \in Sound(Nobody), Settled(m), NEW n, n.hdl = m.hdl,
         \A e \in Dirs(m.sect, m.ch), q \in Position : In(m.ch, e, q) => EntryAt(n.sect, q) = EntryAt(m.sect, q),
         \A e \in Owners : e \notin Dirs(m.sect, m.ch) => n.ch[e] = m.ch[e]
  PROVE  Settled(n)
<1> SUFFICES ASSUME n.hdl.open
             PROVE  Pending(n.sect, n.hdl.at) /\ (Exact => n.hdl.size = Len(n.ch[n.hdl.at]))
  BY DEF Settled
<1>1. m.hdl \in Handles /\ m.hdl.open /\ Owned(m.fat[1], m.sect, m.hdl, m.ch, Nobody)
  BY SoundIs, MachineIs
<1> DEFINE at == m.hdl.at
<1>2. at \in Position /\ at \in Owners /\ at \notin Dirs(m.sect, m.ch) /\ \E e \in Dirs(m.sect, m.ch) : In(m.ch, e, at)
  BY <1>1, HandleIs
<1>3. EntryAt(n.sect, at) = EntryAt(m.sect, at) /\ n.ch[at] = m.ch[at]
  BY <1>2
<1> HIDE DEF at
<1> QED BY <1>1, <1>3 DEF Settled, Pending, at

LEMMA SlotSettles ==
  ASSUME NEW m \in Sound(Nobody), Settled(m), NEW d \in Dirs(m.sect, m.ch), NEW n, NEW p, NEW taken,
         SlotReady(m, n, d, p, taken)
  PROVE  Settled(n)
<1>1. /\ n.hdl = m.hdl
      /\ \A e \in Owners : e # d => n.ch[e] = m.ch[e]
      /\ \A e \in Dirs(m.sect, m.ch), q \in Position : In(m.ch, e, q) => EntryAt(n.sect, q) = EntryAt(m.sect, q)
  BY DEF SlotReady
<1> QED BY <1>1, DirsStaySettled

LEMMA NameRuns ==
  ASSUME NEW cl, NEW m \in Sound(Nobody), NEW d \in Dirs(m.sect, m.ch), NEW n, NEW p, NEW taken,
         SlotReady(m, n, d, p, taken),
         NEW e \in Entries, e.name \in Names, Fresh(m, d, e.name), NEW c \in Seq(Clusters), NewChain(n, d, e, c)
  PROVE  \E r : /\ NamedAt(n, r, d, p, e, c) /\ Runs(PutSlot(p, e), n, r, Nobody, cl)
                /\ Settled(n) => Settled(r)
                /\ Tidy(n, ToSet(c)) => Tidy(r, {})
<1> DEFINE r == Entered(n, p, e, c)
<1>1. /\ n \in Sound(Nobody) /\ d \in Dirs(n.sect, n.ch)
      /\ p \in Position /\ In(n.ch, d, p) /\ EntryAt(n.sect, p) \in {End, Del} /\ FirstSlot(n, d, p)
      /\ \A q \in Position : In(n.ch, d, q) =>
           EntryAt(n.sect, q) = End \/ (In(m.ch, d, q) /\ EntryAt(n.sect, q) = EntryAt(m.sect, q))
  BY DEF SlotReady
<1>2. n \in Machines /\ Owned(n.fat[1], n.sect, n.hdl, n.ch, Nobody)
  BY <1>1, SoundIs
<1>3. \A q \in Position : In(n.ch, d, q) => EntryAt(n.sect, q).name # e.name
  BY <1>1, EntryFacts, NameFacts DEF Fresh
<1>4. r \in Sound(Nobody) /\ Runs(PutSlot(p, e), n, r, Nobody, cl)
  BY <1>1, <1>3, NewEntryRuns
<1>5. Holding(n, r, p, e, c)
  BY <1>1, <1>2, EnteredHolds
<1>6. ~ Used(n.sect, p)
  BY <1>1, EntryFacts, NameFacts DEF Used
<1>7. p \notin Dirs(n.sect, n.ch)
  BY <1>1, <1>2, <1>6, NamelessIs
<1> HIDE DEF r
<1>8. d \in Dirs(r.sect, r.ch) /\ In(r.ch, d, p)
  BY <1>1, <1>5, <1>7, HoldingKeeps
<1>9. n.ch[p] = <<>> /\ ~ (n.hdl.open /\ n.hdl.at = p) /\ n.hdl \in Handles
  BY <1>1, <1>2, <1>6, NamelessIs, MachineIs
<1>10. /\ r.fat = n.fat /\ r.hdl = n.hdl /\ r.ch[p] = c
       /\ \A q \in Owners : q # p => r.ch[q] = n.ch[q]
       /\ \A q \in Position : q # p => EntryAt(r.sect, q) = EntryAt(n.sect, q)
       /\ p \in Owners
  BY <1>1, <1>5, EntryFacts DEF Holding
<1>11. Settled(n) => Settled(r)
  <2>1. n.hdl.open => n.hdl.at \in Position /\ n.hdl.at \in Owners
    BY <1>9, EntryFacts DEF Handles
  <2> QED BY <1>9, <1>10, <2>1 DEF Settled, Pending
<1>12. ASSUME Tidy(n, ToSet(c))
       PROVE  Tidy(r, {})
  <2>1. ASSUME NEW b \in Clusters, r.fat[1][b] # Free, Unowned(r.ch, b)
        PROVE  FALSE
    <3>1. Unowned(n.ch, b)
      BY <1>9, <1>10, <2>1 DEF Unowned
    <3>2. b \in ToSet(c)
      BY <1>10, <1>12, <2>1, <3>1 DEF Tidy
    <3> QED BY <1>10, <2>1, <3>2 DEF ToSet, Unowned
  <2> QED BY <1>10, <1>12, <2>1 DEF Tidy
<1> QED
  BY <1>1, <1>4, <1>5, <1>8, <1>11, <1>12 DEF NamedAt

LEMMA CreateRunsOn ==
  ASSUME NEW m \in Sound(Nobody), Now(m), NEW cl, cl.dir \in Names \cup {"root"}, cl.name \in Names,
         Settled(m), ~ hdl.open, ~ Exists(cl.dir, cl.name), NEW p \in CreatePlans(cl.dir, cl.name, NoFault)
  PROVE  \E r \in Sound(Nobody) : Runs(p.steps, m, r, Nobody, cl) /\ Balances(m, r, p.ok)
<1> DEFINE P == Parent(cl.dir, NoFault)
           old == DirFind(P, cl.name, NoFault)
           at == CreateLocate(P, cl.name, NoFault)
           slot == SlotFor(P, {}, NoFault)
           e == Entry(cl.name, FALSE, 0, 0)
<1>1. /\ m \in Machines /\ m.sect = sect /\ m.hdl = hdl
  BY SoundIs DEF Now
<1>2. old = <<>>
  BY DEF Exists
<1>3. /\ P # 0
      /\ at = <<>> => /\ slot.ok
                     /\ p.steps = ((<<>> \o slot.steps) \o PutSlot(slot.at, e)) \o SetHandle(OpenedAt(slot.at))
  <2>1. CreatePlans(cl.dir, cl.name, NoFault) =
          IF P = 0 THEN {}
          ELSE IF at # <<>> THEN Plan((<<>> \o PutSlot(at, e)) \o SetHandle(OpenedAt(at)))
          ELSE IF ~ slot.ok THEN {}
          ELSE Plan(((<<>> \o slot.steps) \o PutSlot(slot.at, e)) \o SetHandle(OpenedAt(slot.at)))
    <3>1. ~ LocateStops(P, cl.name, NoFault) /\ Stopped(<<>>) = {}
      BY DEF LocateStops, NoFault, Stopped, Refused
    <3>2. FreeClusters({}, NoFault) \cup ToSet(<<>>) = FreeClusters({}, NoFault)
      BY DEF ToSet
    <3> QED BY <1>2, <3>1, <3>2 DEF CreatePlans, Refused, OpenedAt, SlotFor
  <2> HIDE DEF P, at, old, e, slot
  <2> QED BY <2>1, PlanIs
<1>4. PICK d \in Dirs(m.sect, m.ch) :
           /\ P = m.ch[d][1] /\ Called(m, d, cl.dir)
           /\ \A name \in Names :
                LET q == DirFind(P, name, NoFault)
                IN  /\ DirLocate(P, name, NoFault) = q
                    /\ CreateLocate(P, name, NoFault) = q
                    /\ q = <<>> => \A t \in Position : In(m.ch, d, t) => EntryAt(m.sect, t).name # name
                    /\ q # <<>> /\ cl.name = name => Found(m, cl, d, q)
  BY <1>3, LookUp
<1>5. at = <<>> /\ Fresh(m, d, cl.name)
  BY <1>2, <1>4 DEF Fresh
<1>6. slot.ok /\ slot = SlotFor(m.ch[d][1], {}, NoFault)
  BY <1>3, <1>4, <1>5
<1>7. SlotOffer(m, d, slot, {})
  BY <1>1, <1>6, SlotForOffers
<1> HIDE DEF P, at, old, slot
<1>8. PICK n : SlotReady(m, n, d, slot.at, {}) /\ Runs(<<>> \o slot.steps, m, n, Nobody, cl)
  <2>1. PICK n : SlotReady(m, n, d, slot.at, {}) /\ Runs(slot.steps, m, n, Nobody, cl)
    BY <1>7, SlotRunsTo
  <2> QED BY <2>1, NothingRuns, RunsCompose
<1>9. e \in Entries /\ e.name = cl.name /\ ~ e.isdir /\ e.clus = 0
  BY VolumeFacts DEF Entry, Entries, AnEntry, EntryNames
<1> DEFINE c == <<>>
<1>10. c \in Seq(Clusters) /\ c = <<>>
  OBVIOUS
<1> HIDE DEF e, c
<1>11. NewChain(n, d, e, c)
  BY <1>9, <1>10 DEF NewChain
<1>12. PICK r : /\ NamedAt(n, r, d, slot.at, e, c) /\ Runs(PutSlot(slot.at, e), n, r, Nobody, cl)
                /\ Tidy(n, ToSet(c)) => Tidy(r, {})
  BY <1>5, <1>8, <1>9, <1>10, <1>11, NameRuns
<1>13. /\ r \in Sound(Nobody) /\ slot.at \in Position /\ d \in Dirs(r.sect, r.ch) /\ In(r.ch, d, slot.at)
       /\ r.hdl = n.hdl /\ r.ch[slot.at] = <<>> /\ EntryAt(r.sect, slot.at) = e
  BY <1>10, <1>12 DEF NamedAt, Holding
<1>14. ~ r.hdl.open /\ Used(r.sect, slot.at) /\ ~ EntryAt(r.sect, slot.at).isdir
  BY <1>1, <1>8, <1>9, <1>13 DEF SlotReady, Used
<1>15. PICK t \in Sound(Nobody) :
          /\ Runs(SetHandle(OpenedAt(slot.at)), r, t, Nobody, cl)
          /\ t.fat = r.fat /\ t.ch = r.ch /\ Settled(t)
  BY <1>13, <1>14, OpenRuns
<1>16. Runs(((<<>> \o slot.steps) \o PutSlot(slot.at, e)) \o SetHandle(OpenedAt(slot.at)), m, t, Nobody, cl)
  <2>1. Runs((<<>> \o slot.steps) \o PutSlot(slot.at, e), m, r, Nobody, cl)
    BY <1>8, <1>12, RunsCompose
  <2> QED BY <1>15, <2>1, RunsCompose
<1>17. Balances(m, t, p.ok)
  <2>1. ToSet(c) = {}
    BY <1>10 DEF ToSet
  <2>2. Tidy(m, {}) => Tidy(n, {})
    BY <1>8 DEF SlotReady
  <2> QED BY <1>12, <1>15, <2>1, <2>2 DEF Balances, Tidy
<1> QED
  BY <1>3, <1>5, <1>15, <1>16, <1>17

\* A slot of a cluster of nobody's is written.
Noted(m, q, e) == Machine(m.fat, Put(m.sect, q, e), m.hdl, m.ch)

LeavesNote(m, n, q, e, cl) ==
  /\ n \in Sound(Nobody) /\ Runs(PutSlot(q, e), m, n, Nobody, cl)
  /\ Dirs(n.sect, n.ch) = Dirs(m.sect, m.ch)
  /\ n.fat = m.fat /\ n.hdl = m.hdl /\ n.ch = m.ch
  /\ n.sect[q[1]][q[2]] = e /\ \A u \in Slot : u # q[2] => n.sect[q[1]][u] = m.sect[q[1]][u]
  /\ \A c \in Clusters : c # q[1] => n.sect[c] = m.sect[c]

LEMMA NotedRuns ==
  ASSUME NEW cl, NEW m \in Sound(Nobody), NEW q \in Position, Unowned(m.ch, q[1]), NEW e \in Entries
  PROVE  LeavesNote(m, Noted(m, q, e), q, e, cl)
<1> DEFINE s == Put(m.sect, q, e)
           n == Noted(m, q, e)
<1>1. m \in Machines /\ Owned(m.fat[1], m.sect, m.hdl, m.ch, Nobody)
  BY SoundIs
<1>2. m.fat \in [Copies -> [Clusters -> Marks]]
      /\ m.sect \in [Clusters -> [Slot -> Entries]] /\ m.hdl \in Handles
      /\ m.ch \in [Owners -> Seq(Clusters)]
  BY <1>1, MachineIs
<1>3. s \in [Clusters -> [Slot -> Entries]]
  BY <1>2, PutIs
<1>4. /\ s[q[1]][q[2]] = e /\ \A u \in Slot : u # q[2] => s[q[1]][u] = m.sect[q[1]][u]
      /\ \A c \in Clusters : c # q[1] => s[c] = m.sect[c]
  BY <1>2, EntryFacts DEF Put
<1> HIDE DEF s
<1>5. ASSUME NEW d \in Dirs(m.sect, m.ch), NEW k \in DOMAIN m.ch[d]
      PROVE  m.ch[d][k] \in Clusters /\ s[m.ch[d][k]] = m.sect[m.ch[d][k]]
  <2>1. d \in Owners /\ m.ch[d] \in Seq(Clusters)
    BY <1>2, DirsAreOwners
  <2>2. m.ch[d][k] \in Clusters /\ m.ch[d][k] # q[1]
    BY <2>1 DEF Unowned
  <2> QED BY <1>4, <2>2
<1>6. n \in Machines /\ n.fat = m.fat /\ n.sect = s /\ n.hdl = m.hdl /\ n.ch = m.ch
  <2>1. n = Machine(m.fat, s, m.hdl, m.ch)
    BY DEF Noted, s
  <2> QED BY <1>2, <1>3, <2>1 DEF Machine, Machines
<1>7. Owned(m.fat[1], s, m.hdl, m.ch, Nobody) /\ Dirs(s, m.ch) = Dirs(m.sect, m.ch)
  BY <1>1, <1>5, SectChange
<1> HIDE DEF n
<1>8. n \in Sound(Nobody) /\ Dirs(n.sect, n.ch) = Dirs(m.sect, m.ch)
  BY <1>6, <1>7, SoundIs
<1>9. \A d \in Dirs(m.sect, m.ch), t \in Position : In(m.ch, d, t) =>
            In(n.ch, d, t) /\ EntryAt(n.sect, t) = EntryAt(m.sect, t)
  BY <1>5, <1>6 DEF In, EntryAt
<1>10. Spares(m, n, Nobody, cl)
  BY <1>6, <1>8, <1>9, SparesBuilding
<1>11. n = Machine(m.fat, Put(m.sect, q, e), m.hdl, n.ch)
  BY <1>6 DEF n, Noted
<1>12. Runs(PutSlot(q, e), m, n, Nobody, cl)
  BY <1>8, <1>10, <1>11, SlotRuns
<1> QED
  BY <1>4, <1>6, <1>8, <1>12 DEF n, LeavesNote

\* mkdir's new cluster, with "." and "..".
Seed(new, up) ==
  (Claim(new) \o PutSlot(<<new, 0>>, Entry(".", TRUE, new, 0))) \o PutSlot(<<new, 1>>, Entry("..", TRUE, up, 0))
Seeded(m, n, new) ==
  /\ n \in Sound(Nobody) /\ n.hdl = m.hdl /\ n.ch = m.ch /\ Dirs(n.sect, n.ch) = Dirs(m.sect, m.ch)
  /\ n.fat[1][new] = Eoc
  /\ \A c \in Clusters : c # new => n.sect[c] = m.sect[c]
  /\ \A u \in Slot : n.sect[new][u].name # "data" /\ n.sect[new][u].name \notin Names
  /\ \A t, u \in Slot : t < u /\ n.sect[new][t] = End => n.sect[new][u] = End
  /\ Tidy(m, {}) => Tidy(n, {new})

LEMMA SeedRuns ==
  ASSUME NEW cl, NEW m \in Sound(Nobody), NEW new \in Clusters, Unowned(m.ch, new), NEW up \in {0} \cup Clusters
  PROVE  \E n : Seeded(m, n, new) /\ Runs(Seed(new, up), m, n, Nobody, cl)
<1> DEFINE q0 == <<new, 0>>
           q1 == <<new, 1>>
           e0 == Entry(".", TRUE, new, 0)
           e1 == Entry("..", TRUE, up, 0)
           m1 == Claimed(m, new)
           m2 == Noted(m1, q0, e0)
           m3 == Noted(m2, q1, e1)
<1>1. q0 \in Position /\ q0[1] = new /\ q0[2] = 0 /\ q1 \in Position /\ q1[1] = new /\ q1[2] = 1
  BY VolumeFacts, EntryFacts
<1>2. e0 \in Entries /\ e0.name = "." /\ e1 \in Entries /\ e1.name = ".."
  BY VolumeFacts DEF Entry, Entries, AnEntry, EntryNames
<1>3. /\ m1 \in Sound(Nobody) /\ Dirs(m1.sect, m1.ch) = Dirs(m.sect, m.ch)
      /\ Runs(Claim(new), m, m1, Nobody, cl)
  BY ClaimRuns
<1>4. /\ m1.hdl = m.hdl /\ m1.ch = m.ch /\ m1.fat[1][new] = Eoc
      /\ \A t \in Slot : m1.sect[new][t] = End
      /\ \A c \in Clusters : c # new => m1.sect[c] = m.sect[c]
  BY ClaimedIs
<1>4a. Tidy(m, {}) => Tidy(m1, {new})
  BY SoundIs, TidyClaimed
<1> HIDE DEF m1, e0, e1, q0, q1
<1>5. /\ m2 \in Sound(Nobody) /\ Runs(PutSlot(q0, e0), m1, m2, Nobody, cl)
      /\ Dirs(m2.sect, m2.ch) = Dirs(m1.sect, m1.ch)
      /\ m2.fat = m1.fat /\ m2.hdl = m1.hdl /\ m2.ch = m1.ch
      /\ m2.sect[q0[1]][q0[2]] = e0 /\ \A u \in Slot : u # q0[2] => m2.sect[q0[1]][u] = m1.sect[q0[1]][u]
      /\ \A c \in Clusters : c # q0[1] => m2.sect[c] = m1.sect[c]
  <2>1. LeavesNote(m1, m2, q0, e0, cl)
    BY <1>1, <1>2, <1>3, <1>4, NotedRuns
  <2> HIDE DEF m2
  <2> QED BY <2>1 DEF LeavesNote
<1> HIDE DEF m2
<1>6. /\ m3 \in Sound(Nobody) /\ Runs(PutSlot(q1, e1), m2, m3, Nobody, cl)
      /\ Dirs(m3.sect, m3.ch) = Dirs(m2.sect, m2.ch)
      /\ m3.fat = m2.fat /\ m3.hdl = m2.hdl /\ m3.ch = m2.ch
      /\ m3.sect[q1[1]][q1[2]] = e1 /\ \A u \in Slot : u # q1[2] => m3.sect[q1[1]][u] = m2.sect[q1[1]][u]
      /\ \A c \in Clusters : c # q1[1] => m3.sect[c] = m2.sect[c]
  <2>1. LeavesNote(m2, m3, q1, e1, cl)
    BY <1>1, <1>2, <1>4, <1>5, NotedRuns
  <2> HIDE DEF m3
  <2> QED BY <2>1 DEF LeavesNote
<1> HIDE DEF m3
<1>7. /\ m3.sect[new][0] = e0 /\ m3.sect[new][1] = e1
      /\ \A u \in Slot : u # 0 /\ u # 1 => m3.sect[new][u] = End
  BY <1>1, <1>4, <1>5, <1>6, VolumeFacts
<1>8. /\ \A u \in Slot : m3.sect[new][u].name # "data" /\ m3.sect[new][u].name \notin Names
      /\ \A u \in Slot : m3.sect[new][u] = End <=> u # 0 /\ u # 1
  BY <1>2, <1>7, EntryFacts, NameFacts
<1>9. \A t, u \in Slot : t < u /\ m3.sect[new][t] = End => m3.sect[new][u] = End
  BY <1>8, VolumeFacts
<1>9a. Tidy(m, {}) => Tidy(m3, {new})
  BY <1>4a, <1>5, <1>6 DEF Tidy
<1>10. Seeded(m, m3, new)
  BY <1>1, <1>3, <1>4, <1>5, <1>6, <1>8, <1>9, <1>9a DEF Seeded
<1>11. Runs((Claim(new) \o PutSlot(q0, e0)) \o PutSlot(q1, e1), m, m3, Nobody, cl)
  <2>1. Runs(Claim(new) \o PutSlot(q0, e0), m, m2, Nobody, cl)
    BY <1>3, <1>5, RunsCompose
  <2> QED BY <1>6, <2>1, RunsCompose
<1> QED
  BY <1>10, <1>11 DEF Seed, q0, q1, e0, e1

\* The slot that is offered for the parent is still there.
LEMMA OfferStays ==
  ASSUME NEW m \in Sound(Nobody), NEW n, NEW new \in Clusters, Unowned(m.ch, new), Seeded(m, n, new),
         NEW d \in Dirs(m.sect, m.ch), NEW s, NEW taken, SlotOffer(m, d, s, taken)
  PROVE  SlotOffer(n, d, s, taken)
<1>1. m \in Machines /\ m.ch \in [Owners -> Seq(Clusters)]
  BY SoundIs, MachineIs
<1>2. n.ch = m.ch /\ \A c \in Clusters : c # new => n.sect[c] = m.sect[c]
  BY DEF Seeded
<1>3. d \in Owners /\ m.ch[d] \in Seq(Clusters)
  BY <1>1, DirsAreOwners
<1>4. ASSUME NEW k \in DOMAIN m.ch[d]
      PROVE  n.sect[m.ch[d][k]] = m.sect[m.ch[d][k]]
  <2>1. m.ch[d][k] \in Clusters /\ m.ch[d][k] # new
    BY <1>3 DEF Unowned
  <2> QED BY <1>2, <2>1
<1>5. \A q \in Position : In(m.ch, d, q) => EntryAt(n.sect, q) = EntryAt(m.sect, q)
  BY <1>4 DEF In, EntryAt
<1>6. CASE SlotHere(m, d, s)
  <2>1. PICK p \in Position :
          /\ In(m.ch, d, p) /\ EntryAt(m.sect, p) \in {End, Del} /\ FirstSlot(m, d, p)
          /\ s.at = p /\ s.steps = KeepMarker(p, EntryAt(m.sect, p) = End)
    BY <1>6 DEF SlotHere
  <2>2. EntryAt(n.sect, p) = EntryAt(m.sect, p)
    BY <1>5, <2>1
  <2>3. FirstSlot(n, d, p)
    BY <1>2, <1>5, <2>1, <2>2 DEF FirstSlot
  <2> QED BY <1>2, <2>1, <2>2, <2>3 DEF SlotHere, SlotOffer
<1>7. CASE SlotBeyond(m, d, s, taken)
  <2>1. PICK c \in Clusters \ taken :
          /\ Unowned(m.ch, c) /\ \A k \in DOMAIN m.ch[d], u \in Slot : m.sect[m.ch[d][k]][u] # End
          /\ s.at = <<c, 0>> /\ s.steps = Grow(Last(m.ch[d]), c) \o KeepMarker(<<c, 0>>, TRUE)
    BY <1>7 DEF SlotBeyond
  <2>2. \A k \in DOMAIN n.ch[d], u \in Slot : n.sect[n.ch[d][k]][u] # End
    BY <1>2, <1>4, <2>1
  <2>3. Unowned(n.ch, c) /\ s.steps = Grow(Last(n.ch[d]), c) \o KeepMarker(<<c, 0>>, TRUE)
    BY <1>2, <2>1
  <2> QED BY <2>1, <2>2, <2>3 DEF SlotBeyond, SlotOffer
<1> QED BY <1>6, <1>7 DEF SlotOffer

LEMMA SeedSettles ==
  ASSUME NEW m \in Sound(Nobody), Settled(m), NEW n, NEW new \in Clusters, Unowned(m.ch, new), Seeded(m, n, new)
  PROVE  Settled(n)
<1>1. n.hdl = m.hdl /\ n.ch = m.ch /\ \A c \in Clusters : c # new => n.sect[c] = m.sect[c]
  BY DEF Seeded
<1>2. ASSUME NEW e \in Dirs(m.sect, m.ch), NEW q \in Position, In(m.ch, e, q)
      PROVE  EntryAt(n.sect, q) = EntryAt(m.sect, q)
  <2>1. q[1] # new
    BY <1>2, DirsAreOwners DEF In, Unowned
  <2>2. q[1] \in Clusters
    BY EntryFacts
  <2> QED BY <1>1, <2>1, <2>2 DEF EntryAt
<1> QED BY <1>1, <1>2, DirsStaySettled

\* fat32_mkdir() seeds a cluster, and then names it.
LEMMA MkdirRunsOn ==
  ASSUME NEW m \in Sound(Nobody), Now(m), NEW cl, cl.dir = "root", cl.name \in Names,
         Settled(m), NEW p \in MkdirPlans("root", cl.name, NoFault)
  PROVE  \E r \in Sound(Nobody) : Runs(p.steps, m, r, Nobody, cl) /\ Balances(m, r, p.ok)
<1> DEFINE P == Parent("root", NoFault)
           room == FreeClusters({}, NoFault)
           new == Lowest[room]
           slot == SlotFor(P, {new}, NoFault)
           e == Entry(cl.name, TRUE, new, 0)
<1>1. /\ m \in Machines /\ m.sect = sect /\ m.hdl = hdl /\ Owned(m.fat[1], m.sect, m.hdl, m.ch, Nobody)
      /\ m.ch \in [Owners -> Seq(Clusters)]
  BY SoundIs, MachineIs DEF Now
<1>2. P = RootClus /\ P # 0
  BY VolumeFacts DEF Parent
<1>3. /\ DirFind(P, cl.name, NoFault) = <<>> /\ room # {}
      /\ p.steps = (IF slot.ok THEN (Seed(new, 0) \o slot.steps) \o PutSlot(slot.at, e) ELSE Seed(new, 0))
      /\ slot.ok \/ ~ p.ok
  <2>1. MkdirPlans("root", cl.name, NoFault) =
          IF P = 0 \/ DirFind(P, cl.name, NoFault) # <<>> \/ room = {} THEN {}
          ELSE IF ~ slot.ok THEN {[ok |-> FALSE, steps |-> Seed(new, IF P = RootClus THEN 0 ELSE P)]}
          ELSE Plan((Seed(new, IF P = RootClus THEN 0 ELSE P) \o slot.steps) \o PutSlot(slot.at, e))
    BY DEF MkdirPlans, Refused, Seed
  <2> HIDE DEF P, room, new, slot, e
  <2>2. DirFind(P, cl.name, NoFault) = <<>> /\ room # {}
    BY <2>1
  <2>3. CASE slot.ok
    <3>1. p \in Plan((Seed(new, 0) \o slot.steps) \o PutSlot(slot.at, e))
      BY <1>2, <2>1, <2>2, <2>3
    <3> QED BY <2>2, <2>3, <3>1, PlanIs
  <2>4. CASE ~ slot.ok
    <3>1. p = [ok |-> FALSE, steps |-> Seed(new, 0)]
      BY <1>2, <2>1, <2>2, <2>4
    <3> QED BY <2>2, <2>4, <3>1
  <2> QED BY <2>3, <2>4
<1>4. PICK d \in Dirs(m.sect, m.ch) :
           /\ P = m.ch[d][1] /\ Called(m, d, cl.dir)
           /\ \A name \in Names :
                LET q == DirFind(P, name, NoFault)
                IN  /\ DirLocate(P, name, NoFault) = q
                    /\ CreateLocate(P, name, NoFault) = q
                    /\ q = <<>> => \A t \in Position : In(m.ch, d, t) => EntryAt(m.sect, t).name # name
                    /\ q # <<>> /\ cl.name = name => Found(m, cl, d, q)
  BY <1>2, LookUp
<1>5. d = Top /\ Fresh(m, d, cl.name)
  BY <1>3, <1>4 DEF Called, Fresh
<1>6. new \in Clusters /\ Unowned(m.ch, new)
  <2> HIDE DEF room
  <2>1. new \in room
    BY <1>3, RoomIs DEF room
  <2> QED BY <2>1, RoomIs DEF room
<1>7. 0 \in {0} \cup Clusters
  OBVIOUS
<1>8. PICK n : Seeded(m, n, new) /\ Runs(Seed(new, 0), m, n, Nobody, cl)
  <2> HIDE DEF new
  <2> QED BY <1>6, <1>7, SeedRuns
<1>9. slot.ok => SlotOffer(m, d, slot, {new})
  <2>1. slot = SlotFor(m.ch[d][1], {new}, NoFault)
    BY <1>4
  <2> HIDE DEF slot, new
  <2> QED BY <1>1, <2>1, SlotForOffers
<1>10. n \in Sound(Nobody) /\ n.hdl = m.hdl /\ n.ch = m.ch /\ Dirs(n.sect, n.ch) = Dirs(m.sect, m.ch)
  BY <1>8 DEF Seeded
<1>11. e \in Entries /\ e.name = cl.name /\ e.isdir /\ e.clus = new
  <2> HIDE DEF new
  <2> QED BY <1>6, VolumeFacts DEF Entry, Entries, AnEntry, EntryNames
<1> HIDE DEF P, room, new, slot, e
<1>11a. Settled(n) /\ (Tidy(m, {}) => Tidy(n, {new}))
  BY <1>6, <1>8, SeedSettles DEF Seeded
<1>12. CASE ~ slot.ok
  <2>1. Balances(m, n, p.ok)
    BY <1>3, <1>11a, <1>12 DEF Balances
  <2> QED BY <1>3, <1>8, <1>10, <1>12, <2>1
<1>13. CASE slot.ok
  <2>1. SlotOffer(n, d, slot, {new})
    BY <1>6, <1>8, <1>9, <1>13, OfferStays
  <2>2. {new} \in SUBSET Clusters /\ d \in Dirs(n.sect, n.ch)
    BY <1>6, <1>10
  <2>3. PICK n2 : SlotReady(n, n2, d, slot.at, {new}) /\ Runs(slot.steps, n, n2, Nobody, cl)
    BY <1>10, <2>1, <2>2, SlotRunsTo
  <2> DEFINE c == <<new>>
  <2>4. c \in Seq(Clusters) /\ c = <<new>>
    BY <1>6
  <2> HIDE DEF c
  <2>5. Unowned(n2.ch, new) /\ n2.sect[new] = n.sect[new] /\ n2.fat[1][new] = n.fat[1][new]
    BY <1>6, <1>10, <2>3 DEF SlotReady
  <2>6. NewChain(n2, d, e, c)
    <3>1. /\ n2.fat[1][new] = Eoc
          /\ \A u \in Slot : n2.sect[new][u].name # "data" /\ n2.sect[new][u].name \notin Names
          /\ \A t, u \in Slot : t < u /\ n2.sect[new][t] = End => n2.sect[new][u] = End
      BY <1>8, <2>5 DEF Seeded
    <3> QED BY <1>5, <1>6, <1>11, <2>4, <2>5, <3>1 DEF NewChain
  <2>7. Fresh(n, d, e.name)
    <3>1. \A q \in Position : In(n.ch, d, q) => EntryAt(n.sect, q) = EntryAt(m.sect, q)
      <4>1. ASSUME NEW q \in Position, In(m.ch, d, q)
            PROVE  EntryAt(n.sect, q) = EntryAt(m.sect, q)
        <5>1. q[1] \in Clusters /\ d \in Owners
          BY EntryFacts, DirsAreOwners
        <5>2. q[1] # new
          BY <1>6, <4>1, <5>1 DEF In, Unowned
        <5> QED BY <1>8, <5>1, <5>2 DEF Seeded, EntryAt
      <4> QED BY <1>10, <4>1
    <3> QED BY <1>5, <1>10, <1>11, <3>1 DEF Fresh
  <2>8. PICK r : /\ NamedAt(n2, r, d, slot.at, e, c) /\ Runs(PutSlot(slot.at, e), n2, r, Nobody, cl)
                 /\ Settled(n2) => Settled(r)
                 /\ Tidy(n2, ToSet(c)) => Tidy(r, {})
    BY <1>10, <1>11, <2>2, <2>3, <2>4, <2>6, <2>7, NameRuns
  <2>9. Runs((Seed(new, 0) \o slot.steps) \o PutSlot(slot.at, e), m, r, Nobody, cl)
    <3>1. Runs(Seed(new, 0) \o slot.steps, m, n2, Nobody, cl)
      BY <1>8, <2>3, RunsCompose
    <3> QED BY <2>8, <3>1, RunsCompose
  <2>10. r \in Sound(Nobody)
    BY <2>8 DEF NamedAt
  <2>11. Balances(m, r, p.ok)
    <3>1. ToSet(c) = {new}
      BY <2>4 DEF ToSet
    <3>2. Tidy(n, {new}) => Tidy(n2, {new})
      BY <2>3 DEF SlotReady
    <3>3. Settled(n2)
      BY <1>10, <1>11a, <2>2, <2>3, SlotSettles
    <3> QED BY <1>11a, <2>8, <3>1, <3>2, <3>3 DEF Balances
  <2> QED BY <1>3, <1>13, <2>9, <2>10, <2>11
<1> QED BY <1>12, <1>13

-----------------------------------------------------------------------------
(* The invariant. *)

\* What may go wrong here: the power goes or a sector is not written, in a call that frees
\* nothing (a delete that is cut short leaves an entry for what it freed: run Fat32Unlink).
Removing == {"truncate", "unlink", "rmdir"}
FaultsSpared == Faults \subseteq {"power", "write"} \X Building

\* The rest of the plan takes the machine there is to one whose chains are all owned, and
\* whose books balance if nothing has failed.
Underway(m, r, x) ==
  /\ Now(m) /\ Runs(plan, m, r, x, call) /\ r \in Sound(Nobody)
  /\ Settled(r) /\ (~ failed /\ (plan = <<>> \/ call.ok) => Tidy(r, {}))
  /\ x = Nobody \/ (x \in Position /\ plan # <<>> /\ call.op \in Removing)
FInv ==
  /\ call.op \in Calls \cup {"none"} /\ call.dir \in Names \cup {"root"} /\ faults \in 0 .. MaxFaults
  /\ \E m, r, x : Underway(m, r, x)

LEMMA UnderwayIs ==
  ASSUME NEW m, NEW r, NEW x, Underway(m, r, x)
  PROVE  /\ Now(m) /\ m \in Sound(x) /\ x \in {Nobody} \cup Position /\ x # Top
         /\ plan = <<>> => x = Nobody
         /\ x # Nobody => call.op \in Removing
         /\ plan = <<>> => Settled(m) /\ (~ failed => Tidy(m, {}))
<1>1. m \in Sound(x)
  BY RunsEnds DEF Underway
<1>2. plan = <<>> => m = r
  BY NothingChanges DEF Underway
<1> QED BY <1>1, <1>2, EntryFacts DEF Underway

\* An empty volume
LEMMA InitOwned ==
  ASSUME Init
  PROVE  \E m \in Sound(Nobody) : Now(m) /\ Settled(m) /\ Tidy(m, {})
<1> DEFINE ch == [o \in Owners |-> IF o = Top THEN <<RootClus>> ELSE <<>>]
           m == Machine(fat, sect, hdl, ch)
<1>1. /\ fat \in [Copies -> [Clusters -> Marks]] /\ fat[1][RootClus] = Eoc
      /\ sect \in [Clusters -> [Slot -> Entries]] /\ \A t \in Slot : sect[RootClus][t] = End
      /\ hdl = NoHandle /\ hdl \in Handles
  <2>1. \A e \in {End, Data} : Filled(e) \in [Slot -> Entries]
    BY FilledIs, EntryFacts
  <2>2. sect \in [Clusters -> [Slot -> Entries]]
    BY <2>1 DEF Init
  <2>3. \A t \in Slot : sect[RootClus][t] = End
    BY VolumeFacts DEF Init, Filled
  <2>4. fat \in [Copies -> [Clusters -> Marks]] /\ fat[1][RootClus] = Eoc
    BY VolumeFacts DEF Init, Marks
  <2> QED BY <2>2, <2>3, <2>4, OpenedAtIs DEF Init
<1>2. <<RootClus>> \in Seq(Clusters) /\ <<>> \in Seq(Clusters)
  BY VolumeFacts
<1>3. ch \in [Owners -> Seq(Clusters)] /\ ch[Top] = <<RootClus>> /\ \A o \in Owners : o # Top => ch[o] = <<>>
  BY <1>2, EntryFacts
<1> HIDE DEF ch
<1>4. /\ DOMAIN ch[Top] = {1} /\ ch[Top][1] = RootClus /\ ch[Top] # <<>> /\ Len(ch[Top]) = 1
      /\ \A o \in Owners : o # Top => DOMAIN ch[o] = {}
  BY <1>3
<1>5. \A p \in Position : In(ch, Top, p) => EntryAt(sect, p) = End
  BY <1>1, <1>4, EntryFacts DEF In, EntryAt
<1>6. Dirs(sect, ch) = {Top}
  BY <1>5, EntryFacts, NameFacts DEF Dirs, Used
<1>7. Apart(ch) /\ Spelt(fat[1], ch, Nobody)
  <2>1. Apart(ch)
    BY <1>4 DEF Apart
  <2>2. Spelt(fat[1], ch, Nobody)
    BY <1>1, <1>4 DEF Spelt, LinkAfter
  <2> QED BY <2>1, <2>2
<1>8. Listing(sect, ch)
  BY <1>3, EntryFacts DEF Listing
<1>9. Leading(sect, hdl, ch)
  BY <1>5, <1>6, EntryFacts, NameFacts DEF Leading, Used
<1>10. Ended(sect, ch)
  BY <1>1, <1>4, <1>6 DEF Ended
<1>11. Distinct(sect, ch)
  BY <1>5, <1>6, EntryFacts, NameFacts DEF Distinct, Used
<1>12. Writing(sect, hdl, ch)
  BY <1>1, OpenedAtIs DEF Writing
<1>12a. Sized(sect, ch)
  BY <1>3, EntryFacts DEF Sized
<1>13. Owned(fat[1], sect, hdl, ch, Nobody)
  BY <1>3, <1>4, <1>7, <1>8, <1>9, <1>10, <1>11, <1>12, <1>12a DEF Owned
<1>14. m \in Machines /\ m.fat = fat /\ m.sect = sect /\ m.hdl = hdl /\ m.ch = ch
  BY <1>1, <1>3 DEF Machine, Machines
<1> HIDE DEF m
<1>15. Settled(m)
  BY <1>1, <1>14, OpenedAtIs DEF Settled
<1>16. Tidy(m, {})
  <2>1. \A i \in Copies : fat[i] = fat[1]
    BY VolumeFacts DEF Init
  <2>2. ASSUME NEW c \in Clusters, fat[1][c] # Free
        PROVE  c = RootClus
    BY <2>2, VolumeFacts DEF Init
  <2>3. ~ Unowned(ch, RootClus)
    BY <1>4, EntryFacts DEF Unowned
  <2> QED BY <1>14, <2>1, <2>2, <2>3 DEF Tidy
<1> QED
  BY <1>13, <1>14, <1>15, <1>16, SoundIs DEF Now

LEMMA FInvInit == Init => FInv
<1> SUFFICES ASSUME Init PROVE FInv
  OBVIOUS
<1>1. PICK m \in Sound(Nobody) : Now(m) /\ Settled(m) /\ Tidy(m, {})
  BY InitOwned
<1>2. Runs(<<>>, m, m, Nobody, call)
  BY <1>1, NothingRuns
<1>3. plan = <<>> /\ call.op = "none" /\ call.dir = "root" /\ faults = 0
  BY DEF Init, NoCall
<1>4. Underway(m, m, Nobody)
  BY <1>1, <1>2, <1>3 DEF Underway
<1> QED
  BY <1>3, <1>4, VolumeAssumption DEF FInv

\* The handle is given up, and the card is as it was.
LEMMA HandleOff ==
  ASSUME NEW m \in Sound(Nobody)
  PROVE  \E n \in Sound(Nobody) : n.fat = m.fat /\ n.sect = m.sect /\ n.hdl = NoHandle
<1>1. m \in Machines /\ Owned(m.fat[1], m.sect, m.hdl, m.ch, Nobody)
  BY SoundIs
<1>2. m.fat \in [Copies -> [Clusters -> Marks]] /\ m.sect \in [Clusters -> [Slot -> Entries]]
      /\ m.hdl \in Handles /\ m.ch \in [Owners -> Seq(Clusters)]
  BY <1>1, MachineIs
<1>3. CASE ~ m.hdl.open
  BY <1>1, <1>3, OwnedIs DEF Writing
<1>4. CASE m.hdl.open
  <2>1. m.hdl.at \in Position /\ m.hdl.at \in Owners
    BY <1>2, EntryFacts DEF Handles
  <2>2. PICK c \in {<<>>, m.ch[m.hdl.at]} : Owned(m.fat[1], m.sect, NoHandle, With(m.ch, m.hdl.at, c), Nobody)
    BY <1>1, <1>4, <2>1, HandleLost
  <2>3. With(m.ch, m.hdl.at, c) \in [Owners -> Seq(Clusters)]
    BY <2>2, OwnedIs
  <2> DEFINE n == Machine(m.fat, m.sect, NoHandle, With(m.ch, m.hdl.at, c))
  <2>4. n \in Machines /\ n.fat = m.fat /\ n.sect = m.sect /\ n.hdl = NoHandle /\ n.ch = With(m.ch, m.hdl.at, c)
    BY <1>2, <2>3, OpenedAtIs DEF Machine, Machines
  <2> HIDE DEF n
  <2> QED BY <2>2, <2>4, SoundIs
<1> QED BY <1>3, <1>4

-----------------------------------------------------------------------------
(* Steps. *)

\* A call starts, with the plan p.
Starts(op, dir, name, p) ==
  /\ op \in Ops /\ plan' = p.steps
  /\ call' = [op |-> op, dir |-> dir, name |-> name, ok |-> p.ok]
  /\ UNCHANGED <<fat, sect, hdl, faults, failed>>

Created(dir, name, p) ==
  /\ Starts("create", dir, name, p) /\ ~ hdl.open /\ ~ Exists(dir, name)
  /\ p \in CreatePlans(dir, name, NoFault)
Truncated(dir, name, p) ==
  /\ Starts("truncate", dir, name, p) /\ ~ hdl.open /\ Exists(dir, name)
  /\ p \in CreatePlans(dir, name, NoFault)
Unlinked(dir, name, p) ==
  /\ Starts("unlink", dir, name, p) /\ NotBeingWritten(dir, name)
  /\ p \in UnlinkPlans(dir, name, NoFault)
Renamed(dir, name, new, p) ==
  Starts("rename", dir, name, p) /\ p \in RenamePlans(dir, name, new, NoFault)
Written(p) == Starts("write", hdl.dir, "handle", p) /\ hdl.open /\ p \in WritePlans(NoFault)
Closed(p) == Starts("close", hdl.dir, "handle", p) /\ hdl.open /\ p \in ClosePlans
Made(name, p) == Starts("mkdir", "root", name, p) /\ p \in MkdirPlans("root", name, NoFault)
Removed(name, p) == Starts("rmdir", "root", name, p) /\ p \in RmdirPlans("root", name, NoFault)

LEMMA NoBadReads ==
  ASSUME FaultsSpared, NEW op
  PROVE  BadReads(op) = {}
BY DEF FaultsSpared, BadReads

LEMMA CallIs ==
  ASSUME FaultsSpared, Call
  PROVE  \/ \E dir \in Names \cup {"root"}, name \in Names : \E p :
              \/ Created(dir, name, p) \/ Truncated(dir, name, p) \/ Unlinked(dir, name, p)
              \/ \E new \in Names : Renamed(dir, name, new, p)
         \/ \E p : Written(p) \/ Closed(p)
         \/ \E name \in Names : \E p : Made(name, p) \/ Removed(name, p)
<1> USE NoBadReads
<1>1. ASSUME NEW dir \in Names \cup {"root"}, NEW name \in Names, Create(dir, name)
      PROVE  \E p : Created(dir, name, p) \/ Truncated(dir, name, p)
  <2>1. CASE Exists(dir, name)
    BY <1>1, <2>1 DEF Create, Begin, Truncated, Starts
  <2>2. CASE ~ Exists(dir, name)
    BY <1>1, <2>2 DEF Create, Begin, Created, Starts
  <2> QED BY <2>1, <2>2
<1>2. ASSUME NEW dir \in Names \cup {"root"}, NEW name \in Names, Unlink(dir, name)
      PROVE  \E p : Unlinked(dir, name, p)
  BY <1>2 DEF Unlink, Begin, Unlinked, Starts
<1>3. ASSUME NEW dir \in Names \cup {"root"}, NEW name \in Names, NEW new \in Names, Rename(dir, name, new)
      PROVE  \E p : Renamed(dir, name, new, p)
  BY <1>3 DEF Rename, Begin, Renamed, Starts
<1>4. ASSUME Write
      PROVE  \E p : Written(p)
  BY <1>4 DEF Write, Begin, Written, Starts
<1>5. ASSUME Close
      PROVE  \E p : Closed(p)
  BY <1>5 DEF Close, Begin, Closed, Starts
<1>6. ASSUME NEW name \in Names, Mkdir(name)
      PROVE  \E p : Made(name, p)
  BY <1>6 DEF Mkdir, Begin, Made, Starts
<1>7. ASSUME NEW name \in Names, Rmdir(name)
      PROVE  \E p : Removed(name, p)
  BY <1>7 DEF Rmdir, Begin, Removed, Starts
<1> QED
  BY <1>1, <1>2, <1>3, <1>4, <1>5, <1>6, <1>7 DEF Call

\* The plan of a call that starts runs on what the card holds.
LEMMA CallRuns ==
  ASSUME FaultsSpared, Call, NEW m \in Sound(Nobody), Now(m), Settled(m)
  PROVE  /\ UNCHANGED <<fat, sect, hdl, faults, failed>> /\ call'.op \in Calls
         /\ call'.dir \in Names \cup {"root"}
         /\ \E r \in Sound(Nobody) : \E x :
              /\ Runs(plan', m, r, x, call') /\ Balances(m, r, call'.ok)
              /\ x = Nobody \/ (x \in Position /\ call'.op \in Removing)
<1> DEFINE cl == call'
           Ran == \E r \in Sound(Nobody) : \E x :
                    /\ Runs(plan', m, r, x, cl) /\ Balances(m, r, cl.ok)
                    /\ x = Nobody \/ (x \in Position /\ cl.op \in Removing)
<1>1. ASSUME NEW op, NEW dir, NEW name, NEW p, Starts(op, dir, name, p)
      PROVE  /\ UNCHANGED <<fat, sect, hdl, faults, failed>> /\ op \in Calls
             /\ plan' = p.steps /\ cl.ok = p.ok /\ cl.op = op /\ cl.dir = dir /\ cl.name = name
  BY <1>1, VolumeAssumption DEF Starts
<1> HIDE DEF cl
<1>2. ASSUME NEW dir \in Names \cup {"root"}, NEW name \in Names, NEW p, Created(dir, name, p)
      PROVE  Ran
  <2>1. Starts("create", dir, name, p) /\ ~ hdl.open /\ ~ Exists(dir, name) /\ p \in CreatePlans(dir, name, NoFault)
    BY <1>2 DEF Created
  <2>2. plan' = p.steps /\ cl.ok = p.ok /\ cl.dir = dir /\ cl.name = name
    BY <1>1, <2>1
  <2>3. \E r \in Sound(Nobody) : Runs(p.steps, m, r, Nobody, cl) /\ Balances(m, r, p.ok)
    BY <2>1, <2>2, CreateRunsOn
  <2> QED BY <2>2, <2>3
<1>3. ASSUME NEW dir \in Names \cup {"root"}, NEW name \in Names, NEW p, Truncated(dir, name, p)
      PROVE  Ran
  <2>1. Starts("truncate", dir, name, p) /\ ~ hdl.open /\ Exists(dir, name) /\ p \in CreatePlans(dir, name, NoFault)
    BY <1>3 DEF Truncated
  <2>2. plan' = p.steps /\ cl.ok = p.ok /\ cl.op \in Removing /\ cl.dir = dir /\ cl.name = name
    BY <1>1, <2>1 DEF Removing
  <2>3. \E x \in Position, r \in Sound(Nobody) : Runs(p.steps, m, r, x, cl) /\ Balances(m, r, p.ok)
    BY <2>1, <2>2, TruncateRunsOn
  <2> QED BY <2>2, <2>3
<1>4. ASSUME NEW dir \in Names \cup {"root"}, NEW name \in Names, NEW p, Unlinked(dir, name, p)
      PROVE  Ran
  <2>1. Starts("unlink", dir, name, p) /\ NotBeingWritten(dir, name) /\ p \in UnlinkPlans(dir, name, NoFault)
    BY <1>4 DEF Unlinked
  <2>2. plan' = p.steps /\ cl.ok = p.ok /\ cl.op \in Removing /\ cl.dir = dir /\ cl.name = name
    BY <1>1, <2>1 DEF Removing
  <2>3. \E x \in Position, r \in Sound(Nobody) : Runs(p.steps, m, r, x, cl) /\ Balances(m, r, p.ok)
    BY <2>1, <2>2, UnlinkRunsOn
  <2> QED BY <2>2, <2>3
<1>5. ASSUME NEW dir \in Names \cup {"root"}, NEW name \in Names, NEW new \in Names, NEW p,
             Renamed(dir, name, new, p)
      PROVE  Ran
  <2>1. Starts("rename", dir, name, p) /\ p \in RenamePlans(dir, name, new, NoFault)
    BY <1>5 DEF Renamed
  <2>2. plan' = p.steps /\ cl.ok = p.ok /\ cl.dir = dir /\ cl.name = name
    BY <1>1, <2>1
  <2>3. \E r \in Sound(Nobody) : Runs(p.steps, m, r, Nobody, cl) /\ Balances(m, r, p.ok)
    BY <2>1, <2>2, RenameRunsOn
  <2> QED BY <2>2, <2>3
<1>6. ASSUME NEW p, Written(p)
      PROVE  Ran
  <2>1. Starts("write", hdl.dir, "handle", p) /\ hdl.open /\ p \in WritePlans(NoFault)
    BY <1>6 DEF Written
  <2>2. plan' = p.steps /\ cl.ok = p.ok
    BY <1>1, <2>1
  <2>3. \E r \in Sound(Nobody) : Runs(p.steps, m, r, Nobody, cl) /\ Balances(m, r, p.ok)
    BY <2>1, WriteRunsOn
  <2> QED BY <2>2, <2>3
<1>7. ASSUME NEW p, Closed(p)
      PROVE  Ran
  <2>1. Starts("close", hdl.dir, "handle", p) /\ hdl.open /\ p \in ClosePlans
    BY <1>7 DEF Closed
  <2>2. plan' = p.steps /\ cl.ok = p.ok
    BY <1>1, <2>1
  <2>3. \E r \in Sound(Nobody) : Runs(p.steps, m, r, Nobody, cl) /\ Balances(m, r, p.ok)
    BY <2>1, CloseRunsOn
  <2> QED BY <2>2, <2>3
<1>8. ASSUME NEW name \in Names, NEW p, Made(name, p)
      PROVE  Ran
  <2>1. Starts("mkdir", "root", name, p) /\ p \in MkdirPlans("root", name, NoFault)
    BY <1>8 DEF Made
  <2>2. plan' = p.steps /\ cl.ok = p.ok /\ cl.dir = "root" /\ cl.name = name
    BY <1>1, <2>1
  <2>3. \E r \in Sound(Nobody) : Runs(p.steps, m, r, Nobody, cl) /\ Balances(m, r, p.ok)
    BY <2>1, <2>2, MkdirRunsOn
  <2> QED BY <2>2, <2>3
<1>9. ASSUME NEW name \in Names, NEW p, Removed(name, p)
      PROVE  Ran
  <2>1. Starts("rmdir", "root", name, p) /\ p \in RmdirPlans("root", name, NoFault)
    BY <1>9 DEF Removed
  <2>2. plan' = p.steps /\ cl.ok = p.ok /\ cl.op \in Removing /\ cl.dir = "root" /\ cl.name = name
    BY <1>1, <2>1 DEF Removing
  <2>3. \E x \in Position, r \in Sound(Nobody) : Runs(p.steps, m, r, x, cl) /\ Balances(m, r, p.ok)
    BY <2>1, <2>2, RmdirRunsOn
  <2> QED BY <2>2, <2>3
<1>10. Ran
  BY <1>2, <1>3, <1>4, <1>5, <1>6, <1>7, <1>8, <1>9, CallIs
<1>11. UNCHANGED <<fat, sect, hdl, faults, failed>> /\ cl.op \in Calls /\ cl.dir \in Names \cup {"root"}
  <2>1. hdl.dir = "root"
    BY SoundIs, MachineIs DEF Now, Handles
  <2> QED BY <1>1, <2>1, CallIs DEF Created, Truncated, Unlinked, Renamed, Written, Closed, Made, Removed
<1> QED
  BY <1>10, <1>11 DEF cl

\* A step of a plan goes to the next machine.
LEMMA StepRuns ==
  ASSUME NEW m, NEW r, NEW x, Underway(m, r, x), Step
  PROVE  \E n : /\ m \in Sound(x) /\ n \in Sound(x) /\ Moves(m, Head(plan), n, x, call)
                /\ n.fat = fat' /\ n.sect = sect' /\ n.hdl = hdl'
                /\ Runs(Tail(plan), n, r, x, call)
<1>1. plan # <<>> /\ Runs(plan, m, r, x, call) /\ Now(m)
  BY DEF Step, Underway
<1>2. PICK n \in Sound(x) : /\ Head(plan) \in Steps /\ m \in Sound(x)
                            /\ Moves(m, Head(plan), n, x, call) /\ Runs(Tail(plan), n, r, x, call)
  BY <1>1, RunsOn
<1>3. n.fat = fat' /\ n.sect = sect' /\ n.hdl = hdl'
  BY <1>1, <1>2 DEF Moves, Goes, Now, Step, Apply
<1> QED
  BY <1>2, <1>3

LEMMA FInvStep ==
  ASSUME FInv, Step
  PROVE  FInv'
<1>1. PICK m, r, x : Underway(m, r, x)
  BY DEF FInv
<1>2. PICK n : /\ n \in Sound(x) /\ n.fat = fat' /\ n.sect = sect' /\ n.hdl = hdl'
               /\ Runs(Tail(plan), n, r, x, call)
  BY <1>1, StepRuns
<1>3. /\ plan' = Tail(plan) /\ call' = (IF Tail(plan) = <<>> THEN NoCall ELSE call) /\ faults' = faults
      /\ r \in Sound(Nobody) /\ (x = Nobody \/ (x \in Position /\ call.op \in Removing))
      /\ Settled(r) /\ (~ failed /\ (plan = <<>> \/ call.ok) => Tidy(r, {}))
  BY <1>1 DEF Step, Underway
<1>3a. ~ failed' => ~ failed /\ (Tail(plan) = <<>> => call.ok)
  BY DEF Step
<1>4. Now(n)'
  BY <1>2 DEF Now
<1>5. \E y, s : Underway(n, s, y)'
  <2>1. CASE Tail(plan) = <<>>
    <3>1. n = r /\ n \in Sound(Nobody)
      <4>1. Runs(<<>>, n, r, x, call)
        BY <1>2, <2>1
      <4> QED BY <1>3, <4>1, NothingChanges
    <3>2. Runs(plan', n, n, Nobody, call')
      BY <1>3, <2>1, <3>1, NothingRuns
    <3>3. Settled(n) /\ (~ failed' => Tidy(n, {}))
      BY <1>3, <1>3a, <2>1, <3>1
    <3>4. Underway(n, n, Nobody)'
      BY <1>3, <1>4, <2>1, <3>1, <3>2, <3>3 DEF Underway
    <3> QED BY <3>4
  <2>2. CASE Tail(plan) # <<>>
    <3>1. Underway(n, r, x)'
      BY <1>2, <1>3, <1>3a, <1>4, <2>2 DEF Underway
    <3> QED BY <3>1
  <2> QED BY <2>1, <2>2
<1>6. call'.op \in Calls \cup {"none"} /\ call'.dir \in Names \cup {"root"} /\ faults' \in 0 .. MaxFaults
  BY <1>3 DEF FInv, NoCall
<1> QED
  BY <1>5, <1>6 DEF FInv

\* A fault leaves a card on which nothing is being freed.
LEMMA FaultIs ==
  ASSUME FaultsSpared, FInv, WriteFails \/ PowerLoss
  PROVE  /\ UNCHANGED <<fat, sect>> /\ plan' = <<>> /\ call' = NoCall
         /\ hdl' \in {hdl, NoHandle} /\ faults < MaxFaults /\ faults' = faults + 1
         /\ plan # <<>> => call.op \in Building
         /\ failed' /\ (Exact => hdl' = NoHandle)
  BY DEF FaultsSpared, Exact, WriteFails, PowerLoss

LEMMA FInvFault ==
  ASSUME FaultsSpared, FInv, WriteFails \/ PowerLoss
  PROVE  FInv'
<1>1. PICK m, r, x : Underway(m, r, x)
  BY DEF FInv
<1>2. /\ UNCHANGED <<fat, sect>> /\ plan' = <<>> /\ call' = NoCall
      /\ hdl' \in {hdl, NoHandle} /\ faults < MaxFaults /\ faults' = faults + 1
      /\ plan # <<>> => call.op \in Building
      /\ failed' /\ (Exact => hdl' = NoHandle)
  BY FaultIs
<1>3. Now(m) /\ m \in Sound(Nobody)
  BY <1>1, <1>2, UnderwayIs DEF Building, Removing
<1>4. PICK n \in Sound(Nobody) : n.fat = m.fat /\ n.sect = m.sect /\ n.hdl = hdl'
  BY <1>2, <1>3, HandleOff DEF Now
<1>5. Now(n)'
  BY <1>2, <1>3, <1>4 DEF Now
<1>6. Runs(plan', n, n, Nobody, call')
  BY <1>2, NothingRuns
<1>6a. Settled(n)
  BY <1>2, <1>4, OpenedAtIs DEF Settled, Pending
<1>7. Underway(n, n, Nobody)'
  BY <1>2, <1>4, <1>5, <1>6, <1>6a DEF Underway
<1>8. call'.op \in Calls \cup {"none"} /\ call'.dir \in Names \cup {"root"} /\ faults' \in 0 .. MaxFaults
  BY <1>2, VolumeAssumption DEF FInv, NoCall
<1> QED
  BY <1>7, <1>8 DEF FInv

LEMMA FInvCall ==
  ASSUME FaultsSpared, FInv, Idle, Call
  PROVE  FInv'
<1>1. PICK m, r, x : Underway(m, r, x)
  BY DEF FInv
<1>2. Now(m) /\ m \in Sound(Nobody) /\ Settled(m) /\ (~ failed => Tidy(m, {}))
  BY <1>1, UnderwayIs DEF Idle
<1>3. PICK s, y : /\ s \in Sound(Nobody) /\ Runs(plan', m, s, y, call') /\ Balances(m, s, call'.ok)
                  /\ (y = Nobody \/ (y \in Position /\ call'.op \in Removing))
  BY <1>2, CallRuns
<1>4. UNCHANGED <<fat, sect, hdl, faults, failed>> /\ call'.op \in Calls /\ call'.dir \in Names \cup {"root"}
  BY <1>2, CallRuns
<1>5. Now(m)'
  BY <1>2, <1>4 DEF Now
<1>6. \E t, z : Underway(m, t, z)'
  <2>1. CASE plan' = <<>>
    <3>1. Runs(plan', m, m, Nobody, call')
      BY <1>2, <2>1, NothingRuns
    <3>2. Underway(m, m, Nobody)'
      BY <1>2, <1>4, <1>5, <3>1 DEF Underway
    <3> QED BY <3>2
  <2>2. CASE plan' # <<>>
    <3>1. Underway(m, s, y)'
      BY <1>2, <1>3, <1>4, <1>5, <2>2 DEF Underway, Balances
    <3> QED BY <3>1
  <2> QED BY <2>1, <2>2
<1> QED
  BY <1>4, <1>6 DEF FInv

LEMMA FInvHolds ==
  ASSUME FaultsSpared
  PROVE  Spec => []FInv
<1>1. Init => FInv
  BY FInvInit
<1>2. FInv /\ [Next]_vars => FInv'
  <2> SUFFICES ASSUME FInv, [Next]_vars PROVE FInv'
    OBVIOUS
  <2>1. CASE Idle /\ Call
    BY <2>1, FInvCall
  <2>2. CASE Step
    BY <2>2, FInvStep
  <2>3. CASE WriteFails \/ PowerLoss
    BY <2>3, FInvFault
  <2>4. CASE UNCHANGED vars
    BY <2>4 DEF vars, FInv, Underway, Now
  <2> QED BY <2>1, <2>2, <2>3, <2>4 DEF Next
<1> QED
  BY <1>1, <1>2, PTL DEF Spec

-----------------------------------------------------------------------------
(* What the invariant says. *)

\* The state is what the C structures, the FAT and the directory entries can hold
\* (fat_set, dir_put_entry and fat32_file).
THEOREM TypesHold ==
  ASSUME FaultsSpared
  PROVE  Spec => []TypeOK
<1>1. FInv => TypeOK
  <2> SUFFICES ASSUME FInv PROVE TypeOK
    OBVIOUS
  <2>1. PICK m, r, x : Underway(m, r, x)
    BY DEF FInv
  <2>2. m \in Sound(x) /\ Now(m)
    BY <2>1, UnderwayIs
  <2>3. /\ fat \in [Copies -> [Clusters -> Marks]] /\ sect \in [Clusters -> [Slot -> Entries]]
        /\ hdl \in Handles /\ m.ch \in [Owners -> Seq(Clusters)] /\ Owned(fat[1], sect, hdl, m.ch, x)
    BY <2>2, NowIs
  <2>4. /\ hdl.at \in Clusters \X Slot /\ hdl.first \in {0} \cup Clusters /\ hdl.cur \in {0} \cup Clusters
        /\ hdl.size \in 0 .. MaxCluster
    BY <2>3 DEF Handles, Position
  <2>5. hdl.first = 0 <=> hdl.cur = 0
    <3>1. CASE hdl.open
      <4>1. hdl.first = FirstIn(m.ch[hdl.at]) /\ InPlace(hdl, m.ch[hdl.at]) /\ m.ch[hdl.at] \in Seq(Clusters)
        BY <2>3, <3>1, HandleIs
      <4> DEFINE c == m.ch[hdl.at]
      <4> HIDE DEF c
      <4>2. CASE c = <<>>
        BY <4>1, <4>2 DEF FirstIn, InPlace, c
      <4>3. CASE c # <<>>
        <5>1. \A k \in DOMAIN c : c[k] \in Clusters /\ c[k] # 0
          BY <4>1, VolumeFacts DEF c, Free
        <5>2. hdl.first = c[1] /\ 1 \in DOMAIN c
          BY <4>1, <4>3 DEF FirstIn, c
        <5>3. \E k \in DOMAIN c : hdl.cur = c[k]
          BY <4>1, <4>3 DEF InPlace, c
        <5> QED BY <5>1, <5>2, <5>3
      <4> QED BY <4>2, <4>3
    <3>2. CASE ~ hdl.open
      <4>1. hdl = NoHandle
        BY <2>3, <3>2, OwnedIs DEF Writing
      <4> QED BY <4>1, OpenedAtIs
    <3> QED BY <3>1, <3>2
  <2>6. \A c \in Clusters, s \in Slot : sect[c][s] \in AnEntry
    BY <2>3 DEF Entries
  <2> QED BY <2>3, <2>4, <2>5, <2>6 DEF TypeOK, FInv, Marks
<1> QED
  BY <1>1, FInvHolds, PTL

\* What a reader gets of the entry at q.
Item(q, dir) == [at |-> q, dir |-> dir, entry |-> At(q), chain |-> ChainOf(At(q).clus)]

LEMMA ItemIs ==
  /\ \A q, dir : LET f == Item(q, dir)
                 IN  f.at = q /\ f.dir = dir /\ f.entry = At(q) /\ f.chain = ChainOf(At(q).clus)
  /\ \A dir : Visible(dir) = {Item(q, dir) : q \in {p \in ToSet(Shown("none", dir, NoFault)) : Real(At(p))}}
BY DEF Item, Visible

\* A chain is walked to its end, or as far as it has not been freed.
LEMMA ChainOfIs ==
  ASSUME NEW x, NEW m \in Sound(x), Now(m), NEW p \in Owners
  PROVE  LET s == ChainOf(FirstIn(m.ch[p]))
         IN  /\ \A c \in ToSet(s) : \E i \in DOMAIN m.ch[p] : m.ch[p][i] = c
             /\ p # x => s = m.ch[p] /\ (m.ch[p] # <<>> => fat[1][Last(m.ch[p])] = Eoc)
<1> DEFINE c == m.ch[p]
           s == ChainOf(FirstIn(c))
<1>1. c \in Seq(Clusters)
  BY NowIs
<1>2. CASE c = <<>>
  <2>1. FirstIn(c) = 0 /\ 0 \notin Clusters
    BY <1>2, VolumeFacts DEF FirstIn, Free
  <2>2. s = <<>>
    BY <2>1 DEF ChainOf, Chain
  <2> HIDE DEF s, c
  <2>3. ToSet(s) = {}
    BY <2>2 DEF ToSet
  <2> QED BY <1>2, <2>2, <2>3 DEF s, c
<1>3. CASE c # <<>>
  <2>1. FirstIn(c) = c[1]
    BY <1>3 DEF FirstIn
  <2>2. Walkable(x, m, p)
    BY <1>3 DEF Walkable
  <2>3. ReadsPart("none", m.ch[p]) /\ (p # x => ReadsAll("none", m.ch[p]))
    BY <2>2, WalkIs
  <2>4. ReadsPart("none", c) /\ (p # x => ReadsAll("none", c))
    BY <2>3
  <2>5. s = Chain("none", c[1], NoFault)
    BY <2>1 DEF ChainOf
  <2> HIDE DEF s, c
  <2>6. PICK k \in 1 .. Len(c) : s = SubSeq(c, 1, k)
    BY <2>4, <2>5 DEF ReadsPart
  <2>7. DOMAIN s = 1 .. k /\ \A i \in 1 .. k : s[i] = c[i]
    BY <1>1, <2>6, StartOfPart
  <2>8. \A e \in ToSet(s) : \E i \in DOMAIN c : c[i] = e
    BY <1>1, <2>7 DEF ToSet
  <2> QED BY <2>4, <2>5, <2>8 DEF ReadsAll, s, c
<1> QED BY <1>2, <1>3

\* What a reader sees in a directory is in it, and has a name.
LEMMA VisibleIs ==
  ASSUME NEW x, NEW m \in Sound(x), Now(m), NEW d \in Dirs(sect, m.ch)
  PROVE  /\ \A f \in Visible(m.ch[d][1]) :
              f = Item(f.at, m.ch[d][1]) /\ f.at \in Position /\ In(m.ch, d, f.at) /\ Used(sect, f.at)
         /\ d # x => \A q \in Position : In(m.ch, d, q) /\ Used(sect, q) =>
              Item(q, m.ch[d][1]) \in Visible(m.ch[d][1])
<1> DEFINE c == m.ch[d]
<1>1. /\ m.ch \in [Owners -> Seq(Clusters)] /\ Owned(fat[1], sect, hdl, m.ch, x) /\ \A q : At(q) = EntryAt(sect, q)
  BY NowIs
<1>2. d \in Owners /\ c # <<>> /\ c \in Seq(Clusters) /\ Leading(sect, hdl, m.ch)
  BY <1>1, DirIs, OwnedIs
<1>3. ReadsPart("none", m.ch[d]) /\ (d # x => ReadsAll("none", m.ch[d]))
  <2>1. Walkable(x, m, d)
    BY <1>2 DEF Walkable
  <2> QED BY <2>1, WalkIs
<1>4. PICK k \in 1 .. Len(c) : Chain("none", c[1], NoFault) = SubSeq(c, 1, k)
  BY <1>3 DEF ReadsPart
<1> DEFINE part == SubSeq(c, 1, k)
<1>5. EndedIn(part)
  BY <1>2, DirectoryEnds
<1>6. part \in Seq(Clusters) /\ DOMAIN part = 1 .. k /\ \A i \in 1 .. k : part[i] = c[i]
  BY <1>2, StartOfPart
<1>7. Shown("none", c[1], NoFault) = UpToEnd[PositionsIn[part]]
  BY <1>4 DEF Shown, Scan
<1>8. d # x => part = c
  BY <1>3, <1>4 DEF ReadsAll
<1> HIDE DEF part
<1>9. ToSet(Shown("none", c[1], NoFault)) = {p \in Position : (\E i \in DOMAIN part : p[1] = part[i]) /\ At(p) # End}
  BY <1>5, <1>6, <1>7, ShownIs
<1>10. ASSUME NEW f \in Visible(m.ch[d][1])
       PROVE  f = Item(f.at, m.ch[d][1]) /\ f.at \in Position /\ In(m.ch, d, f.at) /\ Used(sect, f.at)
  <2>1. PICK q : q \in ToSet(Shown("none", c[1], NoFault)) /\ Real(At(q)) /\ f = Item(q, c[1])
    BY ItemIs
  <2>2. f.at = q
    BY <2>1, ItemIs
  <2>3. q \in Position /\ \E i \in DOMAIN part : q[1] = part[i]
    BY <1>9, <2>1
  <2>4. In(m.ch, d, q)
    BY <1>2, <1>6, <2>3 DEF In
  <2>5. EntryAt(sect, q).name # "data"
    BY <1>2, <2>3, <2>4 DEF Leading
  <2>6. Used(sect, q)
    BY <1>1, <2>1, <2>5 DEF Real, Used
  <2> QED BY <2>1, <2>2, <2>3, <2>4, <2>6
<1>11. ASSUME d # x, NEW q \in Position, In(m.ch, d, q), Used(sect, q)
       PROVE  Item(q, m.ch[d][1]) \in Visible(m.ch[d][1])
  <2>1. \E i \in DOMAIN part : q[1] = part[i]
    BY <1>8, <1>11 DEF In
  <2>2. At(q) # End /\ Real(At(q))
    BY <1>1, <1>11, EntryFacts, NameFacts DEF Used, Real
  <2>3. q \in ToSet(Shown("none", c[1], NoFault))
    BY <1>9, <2>1, <2>2
  <2> QED BY <2>2, <2>3, ItemIs
<1> QED BY <1>10, <1>11

\* What is listed is an entry, in the directory it is said to be in.
IsListed(m, d, f) ==
  /\ d \in Dirs(sect, m.ch) /\ f.at \in Position /\ f = Item(f.at, m.ch[d][1])
  /\ In(m.ch, d, f.at) /\ Used(sect, f.at)

LEMMA ListedIs ==
  ASSUME NEW x, NEW m \in Sound(x), Now(m)
  PROVE  /\ \A f \in InRoot : IsListed(m, Top, f)
         /\ \A f \in SubDirs : f.at \in Dirs(sect, m.ch) /\ f.at # Top /\ f.entry.clus = m.ch[f.at][1]
         /\ \A f \in Listed : \E d : IsListed(m, d, f)
<1>1. Owned(fat[1], sect, hdl, m.ch, x) /\ \A q : At(q) = EntryAt(sect, q)
  BY NowIs
<1>2. Top \in Dirs(sect, m.ch) /\ m.ch[Top][1] = RootClus
  BY <1>1, DirsAreOwners, OwnedIs
<1>3. \A f \in InRoot : IsListed(m, Top, f)
  BY <1>2, VisibleIs DEF InRoot, IsListed
<1>4. ASSUME NEW f \in SubDirs
      PROVE  f.at \in Dirs(sect, m.ch) /\ f.at # Top /\ f.entry.clus = m.ch[f.at][1]
  <2>1. IsListed(m, Top, f) /\ f.entry.isdir
    BY <1>3 DEF SubDirs
  <2>2. f.entry = EntryAt(sect, f.at)
    BY <1>1, <2>1, ItemIs DEF IsListed
  <2>3. f.at \in Dirs(sect, m.ch) /\ f.at # Top
    BY <2>1, <2>2, EntryFacts DEF IsListed, Dirs
  <2> QED BY <1>1, <2>2, <2>3, DirStart
<1>5. ASSUME NEW f \in Listed
      PROVE  \E d : IsListed(m, d, f)
  <2>1. CASE f \in InRoot
    BY <1>3, <2>1
  <2>2. CASE \E d \in SubDirs : f \in Visible(d.entry.clus)
    <3>1. PICK d \in SubDirs : f \in Visible(d.entry.clus)
      BY <2>2
    <3>2. d.at \in Dirs(sect, m.ch) /\ f \in Visible(m.ch[d.at][1])
      BY <1>4, <3>1
    <3>3. IsListed(m, d.at, f)
      BY <3>2, VisibleIs DEF IsListed
    <3> QED BY <3>3
  <2> QED BY <2>1, <2>2 DEF Listed
<1> QED BY <1>3, <1>4, <1>5

\* An entry's cluster is where its chain starts, unless the file is being written.
LEMMA LeadsTo ==
  ASSUME NEW x, NEW m \in Sound(x), Now(m), NEW d, NEW f, IsListed(m, d, f)
  PROVE  /\ f.at \in Owners /\ f.at # Top /\ f.entry.name \in Names
         /\ f.entry = At(f.at) /\ f.dir = m.ch[d][1] /\ f.chain = ChainOf(f.entry.clus)
         /\ \/ f.entry.clus = FirstIn(m.ch[f.at])
            \/ hdl.open /\ f.at = hdl.at /\ f.entry.clus = 0
<1>1. Owned(fat[1], sect, hdl, m.ch, x) /\ \A q : At(q) = EntryAt(sect, q)
  BY NowIs
<1>2. Leading(sect, hdl, m.ch)
  BY <1>1, OwnedIs
<1>3. f = Item(f.at, m.ch[d][1]) /\ f.at \in Position /\ d \in Dirs(sect, m.ch)
      /\ In(m.ch, d, f.at) /\ Used(sect, f.at)
  BY DEF IsListed
<1>4. f.dir = m.ch[d][1] /\ f.entry = At(f.at) /\ f.chain = ChainOf(f.entry.clus)
  BY <1>3, ItemIs
<1>5. f.entry.clus = FirstIn(m.ch[f.at]) \/ (hdl.open /\ f.at = hdl.at /\ f.entry.clus = 0)
  BY <1>1, <1>2, <1>3, <1>4 DEF Leading
<1>6. f.entry.name \in Names /\ f.at \in Owners /\ f.at # Top
  BY <1>1, <1>3, <1>4, EntryFacts DEF Used
<1> QED BY <1>4, <1>5, <1>6

LEMMA NoDanglingHere ==
  ASSUME NEW m \in Sound(Nobody), Now(m)
  PROVE  (\A f \in Listed : EndsProperly(f.entry.clus)) /\ EndsProperly(hdl.first)
<1>1. /\ m.ch \in [Owners -> Seq(Clusters)] /\ Owned(fat[1], sect, hdl, m.ch, Nobody) /\ hdl \in Handles
  BY NowIs
<1>2. EndsProperly(0)
  BY DEF EndsProperly
<1>3. ASSUME NEW p \in Owners
      PROVE  EndsProperly(FirstIn(m.ch[p]))
  <2>1. p # Nobody
    BY EntryFacts
  <2>2. CASE m.ch[p] = <<>>
    BY <1>2, <2>2 DEF FirstIn
  <2>3. CASE m.ch[p] # <<>>
    <3>1. ChainOf(FirstIn(m.ch[p])) = m.ch[p] /\ fat[1][Last(m.ch[p])] = Eoc
      BY <2>1, <2>3, ChainOfIs
    <3>2. Apart(m.ch)
      BY <1>1, OwnedIs
    <3>3. Len(m.ch[p]) \in Nat /\ Len(m.ch[p]) <= MaxCluster - 2
      BY <1>1, <3>2, ChainFits
    <3>4. Len(m.ch[p]) < MaxCluster
      BY <3>3, VolumeFacts
    <3> QED BY <3>1, <3>4 DEF EndsProperly
  <2> QED BY <2>2, <2>3
<1>4. ASSUME NEW f \in Listed
      PROVE  EndsProperly(f.entry.clus)
  <2>1. PICK d : IsListed(m, d, f)
    BY ListedIs
  <2>2. f.at \in Owners /\ (f.entry.clus = FirstIn(m.ch[f.at]) \/ f.entry.clus = 0)
    BY <2>1, LeadsTo
  <2> QED BY <1>2, <1>3, <2>2
<1>5. EndsProperly(hdl.first)
  <2>1. CASE hdl.open
    <3>1. hdl.at \in Owners /\ hdl.first = FirstIn(m.ch[hdl.at])
      BY <1>1, <2>1, HandleIs
    <3> QED BY <1>3, <3>1
  <2>2. CASE ~ hdl.open
    <3>1. hdl.first = 0
      BY <1>1, <2>2, OwnedIs, OpenedAtIs DEF Writing
    <3> QED BY <1>2, <3>1
  <2> QED BY <2>1, <2>2
<1> QED BY <1>4, <1>5

LEMMA NoSharingHere ==
  ASSUME NEW x, NEW m \in Sound(x), Now(m)
  PROVE  NoSharing
<1>1. /\ m.ch \in [Owners -> Seq(Clusters)] /\ Owned(fat[1], sect, hdl, m.ch, x) /\ hdl \in Handles
      /\ Apart(m.ch) /\ m.ch[Top] # <<>> /\ m.ch[Top][1] = RootClus
  BY NowIs, OwnedIs
<1>2. ASSUME NEW f \in Chains
      PROVE  /\ f.at \in Owners
             /\ \A c \in ToSet(f.chain) : \E i \in DOMAIN m.ch[f.at] : m.ch[f.at][i] = c
  <2>1. ASSUME f = [at |-> <<0, 0>>, chain |-> ChainOf(RootClus)]
        PROVE  f.at \in Owners /\ f.chain = ChainOf(FirstIn(m.ch[f.at]))
    <3>1. f.at = Top /\ f.chain = ChainOf(RootClus)
      BY <2>1 DEF Top
    <3> QED BY <1>1, <3>1, EntryFacts DEF FirstIn
  <2>2. ASSUME NEW g \in Listed, ~ hdl.open \/ g.at # hdl.at, f = [at |-> g.at, chain |-> g.chain]
        PROVE  f.at \in Owners /\ f.chain = ChainOf(FirstIn(m.ch[f.at]))
    <3>1. PICK d : IsListed(m, d, g)
      BY ListedIs
    <3>2. g.at \in Owners /\ g.chain = ChainOf(FirstIn(m.ch[g.at]))
      BY <2>2, <3>1, LeadsTo
    <3>3. f.at = g.at /\ f.chain = g.chain
      BY <2>2
    <3> QED BY <3>2, <3>3
  <2>3. ASSUME hdl.open, f = [at |-> hdl.at, chain |-> ChainOf(hdl.first)]
        PROVE  f.at \in Owners /\ f.chain = ChainOf(FirstIn(m.ch[f.at]))
    <3>1. hdl.at \in Owners /\ hdl.first = FirstIn(m.ch[hdl.at])
      BY <1>1, <2>3, HandleIs
    <3>2. f.at = hdl.at /\ f.chain = ChainOf(hdl.first)
      BY <2>3
    <3> QED BY <3>1, <3>2
  <2>4. f.at \in Owners /\ f.chain = ChainOf(FirstIn(m.ch[f.at]))
    BY <2>1, <2>2, <2>3 DEF Chains
  <2>5. \A p \in Owners : \A c \in ToSet(ChainOf(FirstIn(m.ch[p]))) : \E i \in DOMAIN m.ch[p] : m.ch[p][i] = c
    BY ChainOfIs
  <2> QED BY <2>4, <2>5
<1>3. ASSUME NEW f \in Chains, NEW g \in Chains, f.at # g.at, NEW c \in ToSet(f.chain), c \in ToSet(g.chain)
      PROVE  FALSE
  <2>1. PICK i \in DOMAIN m.ch[f.at] : m.ch[f.at][i] = c
    BY <1>2, <1>3
  <2>2. PICK j \in DOMAIN m.ch[g.at] : m.ch[g.at][j] = c
    BY <1>2, <1>3
  <2>3. f.at \in Owners /\ g.at \in Owners
    BY <1>2
  <2> QED BY <1>1, <1>3, <2>1, <2>2, <2>3 DEF Apart
<1> QED BY <1>3 DEF NoSharing

LEMMA CleanHere ==
  ASSUME NEW x, NEW m \in Sound(x), Now(m)
  PROVE  DirectoriesClean
BY ListedIs, LeadsTo, NameFacts DEF DirectoriesClean

\* Whatever call that adds to the volume is cut short by the power or a failed write, every
\* name leads to a chain of its own that ends properly, and no directory shows file data:
\* the order of writes in fat_alloc, cluster_zero, dir_alloc_slot and the calls.
THEOREM StructureHolds ==
  ASSUME FaultsSpared
  PROVE  Spec => []Structure
<1>1. FInv => Structure
  <2> SUFFICES ASSUME FInv PROVE Structure
    OBVIOUS
  <2>1. PICK m, r, x : Underway(m, r, x)
    BY DEF FInv
  <2>2. m \in Sound(x) /\ Now(m) /\ (Idle => x = Nobody)
    BY <2>1, UnderwayIs DEF Idle
  <2> QED BY <2>2, NoDanglingHere, NoSharingHere, CleanHere DEF Structure, NoDangling
<1> QED
  BY <1>1, FInvHolds, PTL

\* A directory lists a name once: create, mkdir and rename look for it first, in the
\* directory as it is then (dir_find, dir_locate).
THEOREM NamesStayUnique ==
  ASSUME FaultsSpared
  PROVE  Spec => []NamesUnique
<1>1. FInv => NamesUnique
  <2> SUFFICES ASSUME FInv, NEW f \in Listed, NEW g \in Listed, f.dir = g.dir, f.entry.name = g.entry.name
               PROVE  f = g
    BY DEF NamesUnique
  <2>1. PICK m, r, x : Underway(m, r, x)
    BY DEF FInv
  <2>2. m \in Sound(x) /\ Now(m)
    BY <2>1, UnderwayIs
  <2>3. /\ Owned(fat[1], sect, hdl, m.ch, x) /\ \A q : At(q) = EntryAt(sect, q)
    BY <2>2, NowIs
  <2>4. Apart(m.ch) /\ Distinct(sect, m.ch)
    BY <2>3, OwnedIs
  <2>5. PICK d : IsListed(m, d, f)
    BY <2>2, ListedIs
  <2>6. PICK e : IsListed(m, e, g)
    BY <2>2, ListedIs
  <2>7. m.ch[d][1] = m.ch[e][1] /\ EntryAt(sect, f.at).name = EntryAt(sect, g.at).name
    BY <2>2, <2>3, <2>5, <2>6, LeadsTo
  <2>8. d = e
    <3>1. /\ d \in Owners /\ m.ch[d] # <<>> /\ m.ch[d] \in Seq(Clusters)
          /\ e \in Owners /\ m.ch[e] # <<>> /\ m.ch[e] \in Seq(Clusters)
      BY <2>3, <2>5, <2>6, DirIs DEF IsListed
    <3>2. 1 \in DOMAIN m.ch[d] /\ 1 \in DOMAIN m.ch[e]
      BY <3>1
    <3> QED BY <2>4, <2>7, <3>1, <3>2 DEF Apart
  <2>9. f.at = g.at
    BY <2>4, <2>5, <2>6, <2>7, <2>8 DEF IsListed, Distinct
  <2> QED BY <2>5, <2>6, <2>8, <2>9 DEF IsListed
<1> QED
  BY <1>1, FInvHolds, PTL

\* An entry that is not being removed is listed, with its chain.
Showable(x, m, d, q) ==
  /\ m \in Sound(x) /\ Now(m) /\ x # Top /\ d \in Dirs(sect, m.ch) /\ d # x
  /\ q \in Position /\ In(m.ch, d, q) /\ Used(sect, q)
ShownAs(x, m, d, q, f) ==
  /\ f \in Listed /\ IsListed(m, d, f) /\ f.at = q
  /\ q # x => f.chain = m.ch[q] \/ (hdl.open /\ q = hdl.at)
Shows == \A x, m, d, q : Showable(x, m, d, q) => \E f : ShownAs(x, m, d, q, f)

LEMMA ShowsHolds == Shows
<1> SUFFICES ASSUME NEW x, NEW m, NEW d, NEW q, Showable(x, m, d, q)
             PROVE  \E f : ShownAs(x, m, d, q, f)
  BY DEF Shows
<1>0. /\ m \in Sound(x) /\ Now(m) /\ x # Top /\ d \in Dirs(sect, m.ch) /\ d # x
      /\ q \in Position /\ In(m.ch, d, q) /\ Used(sect, q)
  BY DEF Showable
<1> USE <1>0
<1> DEFINE f == Item(q, m.ch[d][1])
<1>1. Owned(fat[1], sect, hdl, m.ch, x) /\ \A p : At(p) = EntryAt(sect, p)
  BY NowIs
<1>2. Top \in Dirs(sect, m.ch) /\ m.ch[Top][1] = RootClus
  BY <1>1, DirsAreOwners, OwnedIs
<1>3. f \in Visible(m.ch[d][1]) /\ f.at = q
  BY VisibleIs, ItemIs
<1>4. f \in Listed
  <2>1. CASE d = Top
    BY <1>2, <1>3, <2>1 DEF Listed, InRoot
  <2>2. CASE d # Top
    <3>1. d \in Position /\ In(m.ch, Top, d) /\ Used(sect, d) /\ EntryAt(sect, d).isdir
          /\ EntryAt(sect, d).clus = m.ch[d][1]
      BY <1>1, <2>2, DirStart
    <3>2. Item(d, m.ch[Top][1]) \in Visible(m.ch[Top][1])
      BY <1>2, <3>1, VisibleIs
    <3>3. Item(d, RootClus) \in InRoot
      BY <1>2, <3>2 DEF InRoot
    <3>4. Item(d, RootClus) \in SubDirs /\ Item(d, RootClus).entry.clus = m.ch[d][1]
      BY <1>1, <3>1, <3>3, ItemIs DEF SubDirs
    <3> QED BY <1>3, <3>4 DEF Listed
  <2> QED BY <2>1, <2>2
<1>5. IsListed(m, d, f)
  BY <1>3 DEF IsListed
<1> HIDE DEF f
<1>6. q # x => f.chain = m.ch[q] \/ (hdl.open /\ q = hdl.at)
  <2>1. /\ f.chain = ChainOf(f.entry.clus)
        /\ f.entry.clus = FirstIn(m.ch[q]) \/ (hdl.open /\ q = hdl.at /\ f.entry.clus = 0)
    BY <1>3, <1>5, LeadsTo
  <2>2. q # x => ChainOf(FirstIn(m.ch[q])) = m.ch[q]
    BY ChainOfIs, EntryFacts
  <2> QED BY <2>1, <2>2
<1> QED BY <1>3, <1>4, <1>5, <1>6 DEF ShownAs

LEMMA ShowsStill == Shows'
<1>1. Shows
  BY ShowsHolds
<1> QED BY <1>1, PTL

\* A step of a call leaves the entries that the call is not about.
LEMMA StepSpares ==
  ASSUME FInv, Step, <<fat[1], sect>>' # <<fat[1], sect>>, NEW f \in Listed
  PROVE  \/ Target(f)
         \/ \E g \in Listed' : g.at = f.at /\ g.entry = f.entry /\ (f.entry.isdir \/ g.chain = f.chain)
<1>1. PICK m, r, x : Underway(m, r, x)
  BY DEF FInv
<1>2. Now(m) /\ m \in Sound(x) /\ x # Top
  BY <1>1, UnderwayIs
<1>3. PICK n : /\ n \in Sound(x) /\ Moves(m, Head(plan), n, x, call)
               /\ n.fat = fat' /\ n.sect = sect' /\ n.hdl = hdl'
  BY <1>1, StepRuns
<1>4. Head(plan).do # "handle"
  BY DEF Step, Apply
<1>5. Spares(m, n, x, call)
  BY <1>3, <1>4 DEF Moves
<1>6. PICK d : IsListed(m, d, f)
  BY <1>2, ListedIs
<1>7. m.sect = sect /\ m.hdl = hdl /\ Owned(fat[1], sect, hdl, m.ch, x) /\ \A q : At(q) = EntryAt(sect, q)
  BY <1>2, NowIs DEF Now
<1>8. /\ d \in Dirs(sect, m.ch) /\ f.at \in Position /\ In(m.ch, d, f.at) /\ Used(sect, f.at)
      /\ f.entry = EntryAt(sect, f.at) /\ f.dir = m.ch[d][1]
  BY <1>2, <1>6, <1>7, LeadsTo DEF IsListed
<1>9. Aimed(m, n, call, f.at) \/ Keeps(m, n, x, d, f.at)
  BY <1>5, <1>7, <1>8 DEF Spares
<1>10. ASSUME Aimed(m, n, call, f.at)
       PROVE  Target(f)
  <2>1. ASSUME NEW e \in Dirs(sect, m.ch), In(m.ch, e, f.at), Called(m, e, call.dir),
               EntryAt(sect, f.at).name = call.name
        PROVE  Target(f)
    <3>1. d \in Owners /\ e \in Owners /\ Apart(m.ch)
      BY <1>7, <1>8, DirsAreOwners, OwnedIs
    <3>2. e = d
      BY <1>8, <2>1, <3>1, OneDirectory
    <3>3. call.dir \in Names \cup {"root"}
      BY DEF FInv
    <3>4. Parent(call.dir, NoFault) = m.ch[d][1]
      BY <1>2, <2>1, <3>2, <3>3, ParentIs
    <3> QED BY <1>8, <2>1, <3>4 DEF Target
  <2>2. hdl.open /\ f.at = hdl.at => Target(f)
    BY DEF Target
  <2>3. hdl'.open /\ f.at = hdl'.at => Target(f)
    BY DEF Target
  <2> QED BY <1>3, <1>7, <1>10, <2>1, <2>2, <2>3 DEF Aimed
<1>11. ASSUME Keeps(m, n, x, d, f.at), ~ Target(f)
       PROVE  \E g \in Listed' : g.at = f.at /\ g.entry = f.entry /\ (f.entry.isdir \/ g.chain = f.chain)
  <2>1. /\ f.at # x /\ d # x /\ d \in Dirs(sect', n.ch) /\ In(n.ch, d, f.at)
        /\ EntryAt(sect', f.at) = EntryAt(sect, f.at)
        /\ EntryAt(sect, f.at).isdir \/ n.ch[f.at] = m.ch[f.at]
    BY <1>3, <1>7, <1>11 DEF Keeps
  <2>2. ~ (hdl.open /\ f.at = hdl.at) /\ ~ (hdl'.open /\ f.at = hdl'.at)
    BY <1>11 DEF Target
  <2>3. Now(n)'
    BY <1>3 DEF Now
  <2>4. Used(sect', f.at)
    BY <1>8, <2>1 DEF Used
  <2>5. PICK g : /\ g \in Listed' /\ IsListed(n, d, g)' /\ g.at = f.at
                 /\ f.at # x => g.chain = n.ch[f.at] \/ (hdl'.open /\ f.at = hdl'.at)
    <3>1. Showable(x, n, d, f.at)'
      BY <1>2, <1>3, <1>8, <2>1, <2>3, <2>4 DEF Showable
    <3>2. \E g : ShownAs(x, n, d, f.at, g)'
      BY <3>1, ShowsStill DEF Shows
    <3> QED BY <3>2 DEF ShownAs
  <2>6. g.chain = n.ch[f.at] /\ g.entry = EntryAt(sect', g.at)
    <3>1. g = Item(g.at, n.ch[d][1])'
      BY <2>5 DEF IsListed
    <3>2. g.entry = EntryAt(sect', g.at)
      BY <3>1 DEF Item, At, EntryAt
    <3> QED BY <2>1, <2>2, <2>5, <3>2
  <2>7. f.chain = m.ch[f.at]
    <3>1. f.chain = ChainOf(FirstIn(m.ch[f.at])) /\ f.at \in Owners
      BY <1>2, <1>6, <2>2, LeadsTo
    <3> QED BY <1>2, <2>1, <3>1, ChainOfIs
  <2> QED BY <1>8, <2>1, <2>5, <2>6, <2>7
<1> QED BY <1>9, <1>10, <1>11

\* A step of a call about one name, or of a write, leaves every other name with its entry
\* and its chain (dir_alloc_slot, dir_put_entry and fat_free_chain write nowhere else).
THEOREM BystandersStay ==
  ASSUME FaultsSpared
  PROVE  Spec => BystandersUntouched
<1>1. FInv /\ [Next]_vars =>
        [<<fat[1], sect>>' # <<fat[1], sect>> =>
           \A f \in Listed :
             \/ Target(f)
             \/ \E g \in Listed' :
                  /\ g.at = f.at /\ g.entry = f.entry
                  /\ f.entry.isdir \/ g.chain = f.chain]_vars
  <2> SUFFICES ASSUME FInv, Next, <<fat[1], sect>>' # <<fat[1], sect>>, NEW f \in Listed
               PROVE  \/ Target(f)
                      \/ \E g \in Listed' :
                           /\ g.at = f.at /\ g.entry = f.entry
                           /\ f.entry.isdir \/ g.chain = f.chain
    OBVIOUS
  <2>1. CASE Step
    BY <2>1, StepSpares
  <2>2. CASE Idle /\ Call
    <3>1. PICK m, r, x : Underway(m, r, x)
      BY DEF FInv
    <3>2. Now(m) /\ m \in Sound(Nobody) /\ Settled(m)
      BY <2>2, <3>1, UnderwayIs DEF Idle
    <3>3. UNCHANGED <<fat, sect, hdl, faults, failed>>
      BY <2>2, <3>2, CallRuns
    <3> QED BY <3>3
  <2>3. CASE WriteFails \/ PowerLoss
    BY <2>3, FaultIs
  <2> QED BY <2>1, <2>2, <2>3 DEF Next
<1> QED
  BY <1>1, FInvHolds, PTL DEF Spec, BystandersUntouched

\* The directory that an rmdir is about to remove shows nothing.
LEMMA RemovedIsEmpty ==
  ASSUME NEW m \in Sound(Nobody), Now(m), NEW name \in Names, NEW p, p \in RmdirPlans("root", name, NoFault),
         NEW f \in SubDirs, f.entry.name = name
  PROVE  Visible(f.entry.clus) = {}
<1> DEFINE x == DirFind(RootClus, name, NoFault)
<1>1. /\ m.ch \in [Owners -> Seq(Clusters)] /\ Owned(fat[1], sect, hdl, m.ch, Nobody)
      /\ \A q : At(q) = EntryAt(sect, q)
  BY NowIs
<1>2. Top \in Dirs(sect, m.ch) /\ m.ch[Top][1] = RootClus /\ Top # Nobody /\ Distinct(sect, m.ch)
  BY <1>1, DirsAreOwners, OwnedIs, EntryFacts
<1>3. x # <<>> /\ DirIsEmpty(At(x).clus, NoFault)
  <2>1. Parent("root", NoFault) = RootClus
    BY DEF Parent
  <2>2. RmdirPlans("root", name, NoFault) =
          IF RootClus = 0 \/ x = <<>> THEN {} ELSE IF ~ At(x).isdir \/ ~ DirIsEmpty(At(x).clus, NoFault) THEN {}
          ELSE Removal(RootClus, x, name, NoFault)
    BY <2>1 DEF RmdirPlans, Refused
  <2> HIDE DEF x
  <2> QED BY <2>2
<1>4. x \in Position /\ In(m.ch, Top, x) /\ EntryAt(sect, x).name = name
  <2>1. DirFind(m.ch[Top][1], name, NoFault) = x
    BY <1>2
  <2> HIDE DEF x
  <2> QED BY <1>2, <1>3, <2>1, NameIsFound
<1> HIDE DEF x
<1>5. IsListed(m, Top, f) /\ f.at \in Dirs(sect, m.ch) /\ f.entry.clus = m.ch[f.at][1] /\ f \in InRoot
  BY ListedIs DEF SubDirs
<1>6. f.at \in Position /\ In(m.ch, Top, f.at) /\ Used(sect, f.at) /\ EntryAt(sect, f.at).name = name
  BY <1>1, <1>5, LeadsTo DEF IsListed
<1>7. f.at = x
  BY <1>2, <1>4, <1>6 DEF Distinct
<1>8. At(x).clus = m.ch[x][1] /\ x # Nobody
  BY <1>5, <1>7, LeadsTo, <1>4, EntryFacts
<1>9. DirIsEmpty(m.ch[x][1], NoFault)
  BY <1>3, <1>8
<1>10. x \in Dirs(sect, m.ch)
  BY <1>5, <1>7
<1>11. \A q \in Position : In(m.ch, x, q) => ~ Used(sect, q)
  BY <1>8, <1>9, <1>10, DirIsEmptyIs
<1>12. \A g \in Visible(m.ch[x][1]) : g.at \in Position /\ In(m.ch, x, g.at) /\ Used(sect, g.at)
  BY <1>10, VisibleIs
<1> QED
  BY <1>5, <1>7, <1>11, <1>12

\* fat32_rmdir() starts to remove a directory only when it has nothing in it: what
\* dir_is_empty() looks at is all there is to see.
THEOREM RmdirNeedsEmpty ==
  ASSUME FaultsSpared
  PROVE  Spec => RmdirOnlyEmpty
<1>1. FInv /\ [Next]_vars =>
        [call'.op = "rmdir" /\ call.op # "rmdir" =>
           \A d \in SubDirs : d.entry.name = call'.name => Visible(d.entry.clus) = {}]_vars
  <2> SUFFICES ASSUME FInv, Next, call'.op = "rmdir", call.op # "rmdir",
                      NEW d \in SubDirs, d.entry.name = call'.name
               PROVE  Visible(d.entry.clus) = {}
    OBVIOUS
  <2>1. CASE Step
    BY <2>1 DEF Step, NoCall
  <2>2. CASE Idle /\ Call
    <3>1. PICK m, r, x : Underway(m, r, x)
      BY DEF FInv
    <3>2. Now(m) /\ m \in Sound(Nobody)
      BY <2>2, <3>1, UnderwayIs DEF Idle
    <3>3. PICK name, p : name \in Names /\ Removed(name, p)
      <4>1. \A op, dir, name, p : Starts(op, dir, name, p) => op = "rmdir"
        BY DEF Starts
      <4> QED
        BY <2>2, <4>1, CallIs DEF Created, Truncated, Unlinked, Renamed, Written, Closed, Made
    <3>4. call'.name = name /\ p \in RmdirPlans("root", name, NoFault)
      BY <3>3 DEF Removed, Starts
    <3> QED BY <3>2, <3>3, <3>4, RemovedIsEmpty
  <2>3. CASE WriteFails \/ PowerLoss
    BY <2>3, FaultIs DEF NoCall
  <2> QED BY <2>1, <2>2, <2>3 DEF Next
<1> QED
  BY <1>1, FInvHolds, PTL DEF Spec, RmdirOnlyEmpty

LEMMA SizesHere ==
  ASSUME Exact, NEW m \in Sound(Nobody), Now(m), NEW f \in Listed, ~ f.entry.isdir
  PROVE  f.entry.size = Len(f.chain)
<1>1. /\ sect \in [Clusters -> [Slot -> Entries]] /\ m.ch \in [Owners -> Seq(Clusters)]
      /\ Owned(fat[1], sect, hdl, m.ch, Nobody) /\ \A q : At(q) = EntryAt(sect, q)
  BY NowIs
<1>2. PICK d : IsListed(m, d, f)
  BY ListedIs
<1>3. /\ f.at \in Owners /\ f.entry = EntryAt(sect, f.at) /\ f.chain = ChainOf(f.entry.clus)
      /\ f.entry.clus = FirstIn(m.ch[f.at]) \/ f.entry.clus = 0
  BY <1>1, <1>2, LeadsTo
<1>4. f.at \in Position /\ f.at # Nobody
  BY <1>2, EntryFacts DEF IsListed
<1>5. CASE f.entry.clus = 0
  <2>1. f.entry \in Entries
    BY <1>1, <1>3, <1>4, EntryFacts DEF EntryAt
  <2>2. f.entry.size = 0
    BY <1>5, <2>1 DEF Entries
  <2>3. 0 \notin Clusters
    BY VolumeFacts DEF Free
  <2>4. ChainOf(0) = <<>>
    BY <2>3 DEF ChainOf, Chain
  <2> QED BY <1>3, <1>5, <2>2, <2>4
<1>6. CASE f.entry.clus # 0
  <2>1. f.entry.clus = FirstIn(m.ch[f.at]) /\ m.ch[f.at] # <<>>
    BY <1>3, <1>6 DEF FirstIn
  <2>2. ChainOf(FirstIn(m.ch[f.at])) = m.ch[f.at]
    BY <1>3, <1>4, ChainOfIs
  <2>3. Sized(sect, m.ch)
    BY <1>1, OwnedIs
  <2>4. EntryAt(sect, f.at).size = Len(m.ch[f.at])
    BY <1>3, <1>4, <1>6, <2>1, <2>3 DEF Sized
  <2> QED BY <1>3, <2>1, <2>2, <2>4
<1> QED BY <1>5, <1>6

LEMMA NoLeakHere ==
  ASSUME NEW m \in Sound(Nobody), Now(m), Tidy(m, {}), NEW c \in Clusters, fat[1][c] # Free
  PROVE  \E f \in Chains : c \in ToSet(f.chain)
<1>1. /\ m.ch \in [Owners -> Seq(Clusters)] /\ hdl \in Handles
      /\ Owned(fat[1], sect, hdl, m.ch, Nobody)
  BY NowIs
<1>2. ~ Unowned(m.ch, c)
  BY DEF Tidy, Now
<1>3. PICK q \in Owners : \E i \in DOMAIN m.ch[q] : m.ch[q][i] = c
  BY <1>2 DEF Unowned
<1>4. c \in ToSet(m.ch[q]) /\ m.ch[q] # <<>> /\ q # Nobody
  BY <1>3, EntryFacts DEF ToSet
<1>5. ChainOf(FirstIn(m.ch[q])) = m.ch[q]
  BY <1>4, ChainOfIs
<1>6. CASE q = Top
  <2> DEFINE f == [at |-> <<0, 0>>, chain |-> ChainOf(RootClus)]
  <2>1. FirstIn(m.ch[q]) = RootClus
    BY <1>1, <1>6, OwnedIs DEF FirstIn
  <2>2. f.chain = m.ch[q]
    BY <1>5, <2>1
  <2>3. f \in Chains
    BY DEF Chains
  <2> QED BY <1>4, <2>2, <2>3
<1>7. CASE hdl.open /\ q = hdl.at
  <2> DEFINE f == [at |-> hdl.at, chain |-> ChainOf(hdl.first)]
  <2>1. hdl.first = FirstIn(m.ch[q])
    BY <1>1, <1>7, HandleIs
  <2>2. f.chain = m.ch[q]
    BY <1>5, <2>1
  <2>3. f \in Chains
    BY <1>7 DEF Chains
  <2> QED BY <1>4, <2>2, <2>3
<1>8. CASE q # Top /\ ~ (hdl.open /\ q = hdl.at)
  <2>1. q \in Position
    BY <1>8 DEF Owners
  <2>2. PICK d \in Dirs(sect, m.ch) : In(m.ch, d, q) /\ Used(sect, q)
    BY <1>1, <1>4, <2>1, OwnedIs DEF Listing
  <2>3. Showable(Nobody, m, d, q)
    BY <2>1, <2>2, DirsAreOwners, EntryFacts DEF Showable
  <2>4. PICK g \in Listed : g.at = q /\ g.chain = m.ch[q]
    BY <1>4, <1>8, <2>3, ShowsHolds DEF Shows, ShownAs
  <2> DEFINE f == [at |-> g.at, chain |-> g.chain]
  <2>5. f \in Chains
    BY <1>8, <2>4 DEF Chains
  <2> QED BY <1>4, <2>4, <2>5
<1> QED BY <1>6, <1>7, <1>8

\* While nothing but the power fails, and that in calls that add to the volume, its books
\* balance between calls: fat_set keeps the copies of the FAT in step, close writes the
\* length of the chain, and fat_alloc's clusters are all in a chain that is in use.
THEOREM BooksBalance ==
  ASSUME Faults \subseteq {"power"} \X Building
  PROVE  Spec => []Accounted
<1>1. Exact /\ FaultsSpared
  BY DEF Exact, FaultsSpared
<1>2. FInv => Accounted
  <2> SUFFICES ASSUME FInv, Idle PROVE Accounted
    BY DEF Accounted, Mirrored, SizesMatch, NoLeak
  <2>1. PICK m, r, x : Underway(m, r, x)
    BY DEF FInv
  <2>2. Now(m) /\ m \in Sound(Nobody) /\ (~ failed => Tidy(m, {}))
    BY <2>1, UnderwayIs DEF Idle
  <2>3. Mirrored
    BY <2>2 DEF Mirrored, Now, Tidy
  <2>4. SizesMatch
    BY <1>1, <2>2, SizesHere DEF SizesMatch
  <2>5. NoLeak
    BY <2>2, NoLeakHere DEF NoLeak
  <2> QED BY <2>3, <2>4, <2>5 DEF Accounted
<1> QED
  BY <1>1, <1>2, FInvHolds, PTL
=============================================================================

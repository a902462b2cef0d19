----------------------------- MODULE KMem_proofs -----------------------------
(***************************************************************************)
(* Proofs about the allocator for every arena, every table size and every  *)
(* set of requests.  TypeOK and HeapWellFormed are inductive only together:*)
(* that a computed address fits 16 bits follows from the blocks being in   *)
(* the arena and sorted, and the shifted table is sorted only because no   *)
(* gap computation wrapped.                                                *)
(*                                                                         *)
(* The second half proves that the table implements the set of blocks that *)
(* kmem.h promises (Heap): the table starts as the empty set, and every    *)
(* call is the promised one on the set of its live entries.  Heap knows no *)
(* gaps, so the heart of it is that any run of free pages lies inside one  *)
(* of the gaps the first-fit search looks at (FreeRunIsInAGap): a refusal  *)
(* is then honest, and the first gap that fits is the lowest address.      *)
(***************************************************************************)
EXTENDS KMem, Numbers, FiniteSetTheorems, TLAPS

IInv == TypeOK /\ HeapWellFormed

\* Rounding a request that passed the size test neither wraps nor yields zero.
LEMMA NeedInRange ==
  ASSUME TypeOK, NEW want \in Requests, want > 0, ~ TooBig(want)
  PROVE  NeedOf(want) \in 1 .. (limit - PageFirst)
<1>1. want \in Nat /\ limit \in Nat /\ limit < PageMod
  BY ArenaAssumption, TableAssumption DEF TypeOK
<1>2. want <= 256 * limit - 256 * PageFirst
  BY <1>1, ArenaAssumption DEF TooBig, Grain
<1>3. want + 255 < SizeMod
  BY <1>1, <1>2, ArenaAssumption
<1>4. NeedOf(want) = (want + 255) \div 256
  BY <1>1, <1>3, ArenaAssumption DEF NeedOf, Add32, Grain
<1>5. (want + 255) \div 256 \in 1 .. (limit - PageFirst)
  BY <1>1, <1>2, ArenaAssumption
<1> QED
  BY <1>4, <1>5

\* Every gap starts at or before its end, inside the arena.
LEMMA GapsInOrder ==
  ASSUME IInv, NEW i \in 0 .. live
  PROVE  /\ Cursor(i) \in Nat /\ GapEnd(i) \in Nat
         /\ PageFirst <= Cursor(i)
         /\ Cursor(i) <= GapEnd(i)
         /\ GapEnd(i) <= limit
         /\ \A k \in Live : k < i => tbase[k] + tsize[k] <= Cursor(i)
         /\ \A k \in Live : k >= i => GapEnd(i) <= tbase[k]
<1>1. /\ live \in Nat /\ MaxBlocks \in Nat /\ live <= MaxBlocks
      /\ limit \in Nat /\ PageFirst \in Nat /\ PageFirst < limit
      /\ \A k \in Live : tbase[k] \in Nat /\ tsize[k] \in Nat
  BY ArenaAssumption, TableAssumption DEF IInv, TypeOK, Live, Slots
<1>2. CASE i = 0
  BY <1>1, <1>2 DEF IInv, HeapWellFormed, InArena, SortedDisjoint, Cursor, GapEnd, Live
<1>3. CASE i > 0
  BY <1>1, <1>3 DEF IInv, HeapWellFormed, InArena, SortedDisjoint, Cursor, GapEnd, Live
<1> QED
  BY <1>1, <1>2, <1>3

\* A gap that is found to fit really has room for the pages asked for.
LEMMA FitHasRoom ==
  ASSUME IInv, NEW i \in 0 .. live, NEW need \in Nat, Fits(i, need)
  PROVE  Cursor(i) + need <= GapEnd(i)
BY GapsInOrder DEF Fits, Sub16

LEMMA InitInv == Init => IInv
<1> SUFFICES ASSUME Init PROVE IInv
  OBVIOUS
<1>1. /\ limit = LimitDef /\ live = 0 /\ ret = Done(0) /\ inEditor = FALSE
      /\ MaxBlocks \in Nat
  BY TableAssumption DEF Init
<1>2. PICK n \in 0 .. (PageMod - 1) :
        tbase = [i \in Slots |-> n] /\ tsize = [i \in Slots |-> n]
  BY TableAssumption DEF Init
<1>3. ret \in Result
  BY <1>1, ArenaAssumption DEF Done, Result
<1>b. inEditor \in BOOLEAN
  BY <1>1
<1>t. /\ tbase \in [Slots -> 0 .. (PageMod - 1)]
      /\ tsize \in [Slots -> 0 .. (PageMod - 1)]
  BY <1>2
<1>4. TypeOK
  BY <1>1, <1>3, <1>b, <1>t DEF TypeOK
<1>5. HeapWellFormed
  BY <1>1 DEF HeapWellFormed, InArena, SortedDisjoint, Live
<1> QED
  BY <1>4, <1>5 DEF IInv

LEMMA AllocInv ==
  ASSUME IInv, NEW want \in Requests, Alloc(want)
  PROVE  IInv'
<1> DEFINE need == NeedOf(want)
<1>1. PICK at \in 0 .. live :
        /\ Fits(at, need)
        /\ tbase' = Inserted(tbase, at, Cursor(at))
        /\ tsize' = Inserted(tsize, at, need)
        /\ ret' = Done(Cursor(at))
  BY DEF Alloc, FirstFit
<1>2. /\ live' = live + 1 /\ limit' = limit /\ inEditor' = inEditor
      /\ live \in Nat /\ live < MaxBlocks /\ MaxBlocks \in Nat
      /\ limit \in Nat /\ limit < PageMod /\ PageMod \in Nat
  BY ArenaAssumption, TableAssumption DEF Alloc, TableFull, IInv, TypeOK
<1>3. need \in Nat /\ need >= 1 /\ need < PageMod
  BY NeedInRange, ArenaAssumption, <1>2 DEF Alloc, IInv, TypeOK
<1> HIDE DEF need
<1>4. /\ Cursor(at) \in Nat /\ PageFirst <= Cursor(at)
      /\ Cursor(at) + need <= limit
      /\ \A k \in Live : k < at => tbase[k] + tsize[k] <= Cursor(at)
      /\ \A k \in Live : k >= at => Cursor(at) + need <= tbase[k]
  <2>1. /\ Cursor(at) \in Nat /\ GapEnd(at) \in Nat
        /\ PageFirst <= Cursor(at) /\ GapEnd(at) <= limit
        /\ \A k \in Live : k < at => tbase[k] + tsize[k] <= Cursor(at)
        /\ \A k \in Live : k >= at => GapEnd(at) <= tbase[k]
    BY GapsInOrder
  <2>2. Cursor(at) + need <= GapEnd(at)
    BY <1>1, <1>3, FitHasRoom
  <2>3. \A k \in Live : tbase[k] \in Nat
    BY <1>2 DEF IInv, TypeOK, Live, Slots
  <2> QED
    BY <2>1, <2>2, <2>3, <1>2, <1>3
<1>5. TypeOK'
  <2>1. Cursor(at) \in 0 .. (PageMod - 1) /\ need \in 0 .. (PageMod - 1)
    BY <1>2, <1>3, <1>4
  <2>2. \A i \in Slots : i > at => i - 1 \in Slots
    BY <1>2 DEF Slots
  <2>3. /\ tbase' \in [Slots -> 0 .. (PageMod - 1)]
        /\ tsize' \in [Slots -> 0 .. (PageMod - 1)]
    BY <1>1, <1>2, <2>1, <2>2 DEF IInv, TypeOK, Inserted, Slots
  <2>4. ret' \in Result
    BY <1>1, <2>1 DEF Done, Result
  <2> QED
    BY <1>2, <2>3, <2>4 DEF IInv, TypeOK
<1>6. \A i \in 0 .. live :
        /\ i < at => tbase'[i] = tbase[i] /\ tsize'[i] = tsize[i]
        /\ i = at => tbase'[i] = Cursor(at) /\ tsize'[i] = need
        /\ i > at => tbase'[i] = tbase[i - 1] /\ tsize'[i] = tsize[i - 1]
  BY <1>1, <1>2 DEF Inserted, Slots
<1>7. \A k \in Live : tbase[k] \in Nat /\ tsize[k] \in Nat
  BY <1>2 DEF IInv, TypeOK, Live, Slots
<1>8. InArena'
  BY <1>2, <1>3, <1>4, <1>6, <1>7 DEF IInv, HeapWellFormed, InArena, Live
<1>9. SortedDisjoint'
  <2> SUFFICES ASSUME NEW i \in 0 .. live, NEW j \in 0 .. live, i < j
               PROVE  tbase'[i] + tsize'[i] <= tbase'[j]
    BY <1>2 DEF SortedDisjoint, Live
  <2>1. CASE j < at
    BY <2>1, <1>2, <1>6 DEF IInv, HeapWellFormed, SortedDisjoint, Live
  <2>2. CASE j = at
    BY <2>2, <1>2, <1>4, <1>6 DEF Live
  <2>3. CASE i = at
    BY <2>3, <1>2, <1>3, <1>4, <1>6 DEF Live
  <2>4. CASE i < at /\ j > at
    BY <2>4, <1>2, <1>3, <1>4, <1>6, <1>7 DEF Live
  <2>5. CASE i > at
    BY <2>5, <1>2, <1>6 DEF IInv, HeapWellFormed, SortedDisjoint, Live
  <2> QED
    BY <2>1, <2>2, <2>3, <2>4, <2>5, <1>2
<1> QED
  BY <1>5, <1>8, <1>9 DEF IInv, HeapWellFormed

LEMMA FreeInv ==
  ASSUME IInv, NEW page \in 0 .. (PageMod - 1), NEW aligned \in BOOLEAN,
         Free(page, aligned)
  PROVE  IInv'
<1>1. PICK at \in Live :
        tbase' = ShiftDown(tbase, at) /\ tsize' = ShiftDown(tsize, at)
  BY DEF Free
<1>2. /\ live' = live - 1 /\ limit' = limit /\ inEditor' = inEditor
      /\ ret' = Done(0)
      /\ live \in Nat /\ live <= MaxBlocks /\ live >= 1 /\ MaxBlocks \in Nat
      /\ limit \in Nat /\ PageMod \in Nat /\ PageMod > 0
  BY ArenaAssumption, TableAssumption DEF Free, IInv, TypeOK, Live
<1>3. \A j \in 0 .. (live - 2) :
        /\ j < at => tbase'[j] = tbase[j] /\ tsize'[j] = tsize[j]
        /\ j >= at => tbase'[j] = tbase[j + 1] /\ tsize'[j] = tsize[j + 1]
  BY <1>1, <1>2 DEF ShiftDown, Slots, Live
<1>4. TypeOK'
  <2>1. /\ tbase' \in [Slots -> 0 .. (PageMod - 1)]
        /\ tsize' \in [Slots -> 0 .. (PageMod - 1)]
    BY <1>1, <1>2 DEF ShiftDown, IInv, TypeOK, Slots, Live
  <2>2. ret' \in Result
    BY <1>2 DEF Done, Result
  <2> QED
    BY <1>2, <2>1, <2>2 DEF IInv, TypeOK
<1>5. InArena'
  BY <1>2, <1>3 DEF IInv, HeapWellFormed, InArena, Live
<1>6. SortedDisjoint'
  BY <1>2, <1>3 DEF IInv, HeapWellFormed, SortedDisjoint, Live
<1> QED
  BY <1>4, <1>5, <1>6 DEF IInv, HeapWellFormed

LEMMA ReleaseInv == ASSUME IInv, Release PROVE IInv'
<1>1. /\ live' = live /\ tbase' = tbase /\ tsize' = tsize /\ inEditor' = inEditor
      /\ limit = LimitDef /\ limit' = LimitMax /\ ret' = Done(limit' - 1)
  BY DEF Release, table
<1>2. TypeOK'
  BY <1>1, ArenaAssumption DEF IInv, TypeOK, Result, Done
<1>3. \A i \in Live : tbase[i] \in Nat /\ tsize[i] \in Nat
  BY TableAssumption, ArenaAssumption DEF IInv, TypeOK, Live, Slots
<1>4. HeapWellFormed'
  BY <1>1, <1>3, ArenaAssumption
     DEF IInv, HeapWellFormed, InArena, SortedDisjoint, Live
<1> QED
  BY <1>2, <1>4 DEF IInv

\* The calls that leave the table and the ceiling alone.
LEMMA QuietInv ==
  ASSUME IInv, UNCHANGED <<limit, table>>, ret' \in Result, inEditor' \in BOOLEAN
  PROVE  IInv'
BY DEF IInv, TypeOK, HeapWellFormed, InArena, SortedDisjoint, Live, table

LEMMA NextInv == IInv /\ [Next]_vars => IInv'
<1> SUFFICES ASSUME IInv, [Next]_vars PROVE IInv'
  OBVIOUS
<1>0. ret \in Result /\ inEditor \in BOOLEAN /\ limit \in 1 .. (PageMod - 1)
      /\ PageMod \in Nat /\ PageMod > 0
  BY ArenaAssumption DEF IInv, TypeOK
<1>r. \A err \in {"BADARG", "NOSPACE", "EXISTS"} : Fail(err) \in Result
  BY <1>0 DEF Fail, Result
<1>1. ASSUME NEW want \in Requests, Alloc(want) PROVE IInv'
  BY <1>1, AllocInv
<1>2. ASSUME NEW want \in Requests, AllocRefused(want) PROVE IInv'
  BY <1>2, <1>0, <1>r, QuietInv DEF AllocRefused
<1>3. ASSUME NEW page \in 0 .. (PageMod - 1), NEW aligned \in BOOLEAN,
             Free(page, aligned)
      PROVE  IInv'
  BY <1>3, FreeInv
<1>4. ASSUME NEW page \in 0 .. (PageMod - 1), NEW aligned \in BOOLEAN,
             FreeRefused(page, aligned)
      PROVE  IInv'
  BY <1>4, <1>0, <1>r, QuietInv DEF FreeRefused
<1>5. ASSUME NEW region \in {"EDIT", "OTHER"}, ReleaseRefused(region)
      PROVE  IInv'
  BY <1>5, <1>0, <1>r, QuietInv DEF ReleaseRefused
<1>6. CASE Release
  BY <1>6, ReleaseInv
<1>7. CASE Top
  <2>1. ret' \in Result
    BY <1>7, <1>0 DEF Top, Done, Result
  <2> QED
    BY <1>7, <1>0, <2>1, QuietInv DEF Top
<1>8. CASE Edit
  BY <1>8, <1>0, QuietInv DEF Edit
<1>9. CASE EditReturns
  BY <1>9, <1>0, QuietInv DEF EditReturns
<1>10. CASE Reboot
  <2>1. /\ limit' = LimitDef /\ live' = 0 /\ ret' = Done(0) /\ inEditor' = FALSE
        /\ tbase' = tbase /\ tsize' = tsize /\ MaxBlocks \in Nat
    BY <1>10, TableAssumption DEF Reboot
  <2>2. ret' \in Result
    BY <2>1, <1>0 DEF Done, Result
  <2>b. inEditor' \in BOOLEAN
    BY <2>1
  <2>3. TypeOK'
    BY <2>1, <2>2, <2>b DEF IInv, TypeOK
  <2>4. HeapWellFormed'
    BY <2>1 DEF HeapWellFormed, InArena, SortedDisjoint, Live
  <2> QED
    BY <2>3, <2>4 DEF IInv
<1>11. CASE UNCHANGED vars
  BY <1>11, <1>0, QuietInv DEF vars, table
<1> QED
  BY <1>1, <1>2, <1>3, <1>4, <1>5, <1>6, <1>7, <1>8, <1>9, <1>10, <1>11 DEF Next

\* TypeOK for every arena: page numbers, the count of live blocks and the
\* results of every call keep the widths kmem.c declares for them.
THEOREM TypeCorrect == Spec => []TypeOK
<1>1. IInv => TypeOK
  BY DEF IInv
<1> QED
  BY InitInv, NextInv, <1>1, PTL DEF Spec

\* Live blocks are in the arena, non-empty, sorted and pairwise disjoint in
\* every reachable state of kmem.c, whatever the sizes asked for.
THEOREM HeapSafe == Spec => []HeapWellFormed
<1>1. IInv => HeapWellFormed
  BY DEF IInv
<1> QED
  BY InitInv, NextInv, <1>1, PTL DEF Spec

-----------------------------------------------------------------------------
\* What one step does to the set of live blocks, for BlocksStay.
BlockStays(b) ==
  \/ b \in Blocks'
  \/ IsFreeOf(b) /\ Blocks' = Blocks \ {b}
  \/ Reboot

LEMMA AllocKeepsBlocks ==
  ASSUME IInv, NEW want \in Requests, Alloc(want), NEW b \in Blocks
  PROVE  b \in Blocks'
<1>1. PICK at \in 0 .. live :
        /\ tbase' = Inserted(tbase, at, Cursor(at))
        /\ tsize' = Inserted(tsize, at, NeedOf(want))
  BY DEF Alloc
<1>2. /\ live' = live + 1 /\ live \in Nat /\ live < MaxBlocks
      /\ MaxBlocks \in Nat
  BY TableAssumption DEF Alloc, TableFull, IInv, TypeOK
<1>3. PICK k \in Live : b = Block(k)
  BY DEF Blocks
<1>4. CASE k < at
  <2>1. tbase'[k] = tbase[k] /\ tsize'[k] = tsize[k] /\ k \in Live'
    BY <1>1, <1>2, <1>4 DEF Inserted, Slots, Live
  <2> QED
    BY <2>1, <1>3 DEF Blocks, Block
<1>5. CASE k >= at
  <2>1. tbase'[k + 1] = tbase[k] /\ tsize'[k + 1] = tsize[k] /\ k + 1 \in Live'
    BY <1>1, <1>2, <1>5 DEF Inserted, Slots, Live
  <2> QED
    BY <2>1, <1>3 DEF Blocks, Block
<1> QED
  BY <1>2, <1>4, <1>5 DEF Live

\* kmem_free()'s loop takes the one entry it shifts over out of the table.
LEMMA ShiftDropsOne ==
  ASSUME IInv, NEW at \in Live, live' = live - 1,
         tbase' = ShiftDown(tbase, at), tsize' = ShiftDown(tsize, at)
  PROVE  Blocks' = Blocks \ {Block(at)}
<1>1. live \in Nat /\ live <= MaxBlocks /\ MaxBlocks \in Nat
  BY TableAssumption DEF IInv, TypeOK
<1>2. \A j \in 0 .. (live - 2) :
        Block(j)' = IF j < at THEN Block(j) ELSE Block(j + 1)
  BY <1>1 DEF ShiftDown, Slots, Live, Block
<1>3. \A k \in Live : k < at => Block(k) \in Blocks'
  <2> SUFFICES ASSUME NEW k \in Live, k < at PROVE Block(k) \in Blocks'
    OBVIOUS
  <2>1. k \in 0 .. (live - 2) /\ k \in Live'
    BY <1>1 DEF Live
  <2>2. Block(k)' = Block(k)
    BY <1>2, <2>1
  <2>3. Block(k)' \in Blocks'
    BY <2>1 DEF Blocks, Block
  <2> QED
    BY <2>2, <2>3
<1>4. \A k \in Live : k > at => Block(k) \in Blocks'
  <2> SUFFICES ASSUME NEW k \in Live, k > at PROVE Block(k) \in Blocks'
    OBVIOUS
  <2>1. k - 1 \in 0 .. (live - 2) /\ k - 1 \in Live' /\ (k - 1) + 1 = k
        /\ ~ (k - 1 < at)
    BY <1>1 DEF Live
  <2>2. Block(k - 1)' = Block(k)
    BY <1>2, <2>1
  <2>3. Block(k - 1)' \in Blocks'
    BY <2>1 DEF Blocks, Block
  <2> QED
    BY <2>2, <2>3
<1>5. \A k \in Live : k # at => Block(k) # Block(at)
  BY <1>1 DEF IInv, TypeOK, Slots, HeapWellFormed, InArena, SortedDisjoint, Live, Block
<1>6. Blocks' \subseteq Blocks \ {Block(at)}
  <2> SUFFICES ASSUME NEW c \in Blocks' PROVE c \in Blocks /\ c # Block(at)
    OBVIOUS
  <2>1. PICK j \in 0 .. (live - 2) : c = Block(j)'
    BY <1>1 DEF Blocks, Block, Live
  <2>2. \E k \in Live : k # at /\ c = Block(k)
    BY <2>1, <1>1, <1>2 DEF Live
  <2> QED
    BY <2>2, <1>5 DEF Blocks
<1>7. Blocks \ {Block(at)} \subseteq Blocks'
  BY <1>1, <1>3, <1>4 DEF Blocks, Live
<1> QED
  BY <1>6, <1>7

\* kmem_free() takes the block of the address it was given out of the table.
LEMMA FreeTakesOneBlock ==
  ASSUME IInv, NEW page \in 0 .. (PageMod - 1), NEW aligned \in BOOLEAN,
         Free(page, aligned)
  PROVE  /\ aligned
         /\ \E b \in Blocks : b.base = page /\ Blocks' = Blocks \ {b}
<1>1. PICK at \in Live :
        /\ tbase[at] = page
        /\ tbase' = ShiftDown(tbase, at) /\ tsize' = ShiftDown(tsize, at)
  BY DEF Free
<1>2. aligned /\ Blocks' = Blocks \ {Block(at)}
  BY <1>1, ShiftDropsOne DEF Free
<1>3. Block(at) \in Blocks /\ Block(at).base = page
  BY <1>1 DEF Blocks, Block
<1> QED
  BY <1>2, <1>3

\* A block that a free took out of the table is the one whose base it was given,
\* whichever address may be said to have been given.
LEMMA FreeTakesOwnBlock ==
  ASSUME IInv, NEW page \in 0 .. (PageMod - 1), NEW aligned \in BOOLEAN,
         Free(page, aligned), NEW b \in Blocks
  PROVE  BlockStays(b)
<1> SUFFICES ASSUME b \notin Blocks' PROVE IsFreeOf(b) /\ Blocks' = Blocks \ {b}
  BY DEF BlockStays
<1>1. ASSUME NEW p \in 0 .. (PageMod - 1), NEW al \in BOOLEAN, Free(p, al)
      PROVE  al /\ p = b.base /\ Blocks' = Blocks \ {b}
  <2>1. al /\ \E c \in Blocks : c.base = p /\ Blocks' = Blocks \ {c}
    BY <1>1, FreeTakesOneBlock
  <2>2. PICK c \in Blocks : c.base = p /\ Blocks' = Blocks \ {c}
    BY <2>1
  <2>3. c = b
    BY <2>2
  <2> QED
    BY <2>1, <2>2, <2>3
<1>2. page = b.base /\ Free(b.base, aligned) /\ Blocks' = Blocks \ {b}
  BY <1>1
<1> QED
  BY <1>1, <1>2 DEF IsFreeOf

\* No step of the allocator on behalf of one caller moves, shrinks or drops the
\* block of another: a live block stays until MEM_FREE is given its own base or
\* the machine restarts, whatever the arena and the order of the calls.
THEOREM LiveBlocksStay == Spec => BlocksStay
<1>1. IInv /\ [Next]_vars => [\A b \in Blocks : BlockStays(b)]_vars
  <2> SUFFICES ASSUME IInv, Next, NEW b \in Blocks PROVE BlockStays(b)
    OBVIOUS
  <2>1. ASSUME UNCHANGED table PROVE BlockStays(b)
    BY <2>1 DEF table, Blocks, Block, Live, BlockStays
  <2>2. ASSUME NEW want \in Requests, Alloc(want) PROVE BlockStays(b)
    BY <2>2, AllocKeepsBlocks DEF BlockStays
  <2>3. ASSUME NEW page \in 0 .. (PageMod - 1), NEW aligned \in BOOLEAN,
               Free(page, aligned)
        PROVE  BlockStays(b)
    BY <2>3, FreeTakesOwnBlock
  <2>4. CASE Reboot
    BY <2>4 DEF BlockStays
  <2> QED
    BY <2>1, <2>2, <2>3, <2>4
       DEF Next, AllocRefused, FreeRefused, ReleaseRefused, Release, Top, Edit,
           EditReturns
<1> QED
  BY <1>1, InitInv, NextInv, PTL DEF Spec, BlocksStay, BlockStays

-----------------------------------------------------------------------------
\* The numbers the proofs below compute with.
LEMMA TableNumbers ==
  ASSUME IInv
  PROVE  /\ live \in Nat /\ live <= MaxBlocks /\ MaxBlocks \in Nat
         /\ limit \in Nat /\ PageFirst \in Nat /\ PageFirst < limit
         /\ limit <= LimitMax /\ LimitMax < PageMod /\ PageMod \in Nat
         /\ \A k \in Live : /\ tbase[k] \in Nat /\ tsize[k] \in Nat /\ tsize[k] >= 1
                            /\ PageFirst <= tbase[k] /\ tbase[k] + tsize[k] <= limit
BY ArenaAssumption, TableAssumption
DEF IInv, TypeOK, Live, Slots, HeapWellFormed, InArena

\* The table has as many blocks as entries: no two entries have one base.
LEMMA BlocksAreCounted ==
  ASSUME IInv
  PROVE  IsFiniteSet(Blocks) /\ Cardinality(Blocks) = live
<1>1. live \in Nat
  BY TableNumbers
<1>2. IsFiniteSet(Live) /\ Cardinality(Live) = live
  <2>1. IsFiniteSet(0 .. (live - 1))
        /\ Cardinality(0 .. (live - 1)) = IF 0 > live - 1 THEN 0 ELSE live - 1 - 0 + 1
    BY <1>1, FS_Interval
  <2> QED
    BY <1>1, <2>1 DEF Live
<1>3. \A i, j \in Live : i < j => Block(i) # Block(j)
  BY TableNumbers DEF IInv, HeapWellFormed, SortedDisjoint, Block
<1>4. \A i, j \in Live : Block(i) = Block(j) => i = j
  BY <1>1, <1>3 DEF Live
<1>5. ExistsBijection(Live, Blocks)
  <2> DEFINE f == [i \in Live |-> Block(i)]
  <2>1. f \in Bijection(Live, Blocks)
    BY <1>4 DEF Bijection, Injection, Surjection, IsInjective, Blocks
  <2> QED
    BY <2>1 DEF ExistsBijection
<1> QED
  BY <1>2, <1>5, FS_Bijection

\* Heap counts its blocks as this module does.
LEMMA SameCount == Abstract!Cardinality(Blocks) = Cardinality(Blocks)
BY DEF Abstract!Cardinality, Cardinality

\* A size that passes the test rounds to the promised number of pages.
LEMMA NeedIsPromised ==
  ASSUME IInv, NEW want \in Requests, want > 0, ~ TooBig(want)
  PROVE  NeedOf(want) = Abstract!NeedOf(want) /\ NeedOf(want) \in Nat /\ NeedOf(want) >= 1
<1>1. want \in Nat /\ limit \in Nat /\ limit < PageMod /\ PageFirst \in Nat
  BY ArenaAssumption, TableAssumption DEF IInv, TypeOK
<1>2. want + 255 < SizeMod
  BY <1>1, ArenaAssumption DEF TooBig, Grain
<1>3. NeedOf(want) \in 1 .. (limit - PageFirst)
  BY NeedInRange DEF IInv
<1> QED
  BY <1>1, <1>2, <1>3, ArenaAssumption
  DEF NeedOf, Add32, Grain, Abstract!NeedOf, Abstract!PageSize

\* A size that fails the test needs more pages than there are.
LEMMA TooBigFitsNowhere ==
  ASSUME IInv, NEW want \in Requests, TooBig(want)
  PROVE  ~ Abstract!FitsSomewhere(Abstract!NeedOf(want))
<1>1. want \in Nat /\ want > (limit - PageFirst) * 256
  BY TableAssumption DEF TooBig, Grain
<1>2. Abstract!NeedOf(want) \in Nat /\ Abstract!NeedOf(want) > limit - PageFirst
  BY <1>1, TableNumbers DEF Abstract!NeedOf, Abstract!PageSize
<1>3. ASSUME NEW p \in PageFirst .. limit PROVE p + Abstract!NeedOf(want) > limit
  BY <1>2, TableNumbers
<1> QED
  BY <1>2, <1>3, TableNumbers DEF Abstract!FitsSomewhere, Abstract!FreeAt

\* FreeAt, without the sets of pages.
LEMMA FreeRun ==
  ASSUME IInv, NEW p \in Nat, NEW n \in Nat, n >= 1
  PROVE  Abstract!FreeAt(p, n) <=>
           /\ p >= PageFirst /\ p + n <= limit
           /\ \A k \in Live : tbase[k] + tsize[k] <= p \/ p + n <= tbase[k]
<1>1. ASSUME NEW k \in Live
      PROVE  Abstract!PagesOf(Block(k)) \cap (p .. (p + n - 1)) = {}
               <=> tbase[k] + tsize[k] <= p \/ p + n <= tbase[k]
  <2> DEFINE b == tbase[k]
             s == tsize[k]
  <2>1. b \in Nat /\ s \in Nat /\ s >= 1
    BY TableNumbers
  <2>2. Abstract!PagesOf(Block(k)) = b .. (b + s - 1)
    BY DEF Abstract!PagesOf, Block
  <2> HIDE DEF b, s
  <2>3. ASSUME ~ (b + s <= p \/ p + n <= b)
        PROVE  \E x \in b .. (b + s - 1) : x \in p .. (p + n - 1)
    <3>1. CASE b <= p
      BY <2>1, <2>3, <3>1
    <3>2. CASE p < b
      BY <2>1, <2>3, <3>2
    <3> QED
      BY <2>1, <3>1, <3>2
  <2>4. ASSUME b + s <= p \/ p + n <= b, NEW x \in b .. (b + s - 1)
        PROVE  x \notin p .. (p + n - 1)
    BY <2>1, <2>4
  <2> QED
    BY <2>2, <2>3, <2>4 DEF b, s
<1> QED
  BY <1>1 DEF Abstract!FreeAt, Blocks

\* Every run of free pages lies in one of the gaps: the one before the first entry
\* that begins after it.
LEMMA FreeRunIsInAGap ==
  ASSUME IInv, NEW p \in Nat, NEW n \in Nat, n >= 1, Abstract!FreeAt(p, n)
  PROVE  \E i \in 0 .. live : Cursor(i) <= p /\ p + n <= GapEnd(i)
<1> DEFINE T == {i \in 0 .. live : i = live \/ p + n <= tbase[i]}
<1>1. T \in SUBSET Nat /\ live \in T
  BY TableNumbers
<1>2. PICK i \in T : \A j \in T : i <= j
  BY <1>1, LeastElement
<1>3. p + n <= GapEnd(i)
  BY FreeRun DEF GapEnd
<1>4. Cursor(i) <= p
  <2>1. CASE i = 0
    BY <2>1, FreeRun DEF Cursor
  <2>2. CASE i > 0
    <3>1. i - 1 \in Live /\ i - 1 \notin T
      BY <1>1, <1>2, <2>2, TableNumbers DEF Live
    <3>2. ~ (p + n <= tbase[i - 1])
      BY <3>1, TableNumbers DEF Live
    <3> QED
      BY <2>2, <3>1, <3>2, FreeRun DEF Cursor
  <2> QED
    BY <1>1, <1>2, <2>1, <2>2
<1> QED
  BY <1>2, <1>3, <1>4

\* A gap is found to fit exactly when it has room.
LEMMA FitsIffRoom ==
  ASSUME IInv, NEW i \in 0 .. live, NEW n \in Nat
  PROVE  Fits(i, n) <=> Cursor(i) + n <= GapEnd(i)
BY GapsInOrder DEF Fits, Sub16

\* The first gap that fits begins at the lowest address that fits.
LEMMA FirstFitIsLowest ==
  ASSUME IInv, NEW n \in Nat, n >= 1, NEW at \in 0 .. live, FirstFit(at, n)
  PROVE  /\ Cursor(at) \in PageFirst .. limit /\ Abstract!FreeAt(Cursor(at), n)
         /\ \A q \in PageFirst .. (Cursor(at) - 1) : ~ Abstract!FreeAt(q, n)
<1>1. /\ Cursor(at) \in Nat /\ PageFirst <= Cursor(at) /\ Cursor(at) + n <= GapEnd(at)
      /\ GapEnd(at) \in Nat /\ GapEnd(at) <= limit
      /\ \A k \in Live : k < at => tbase[k] + tsize[k] <= Cursor(at)
      /\ \A k \in Live : k >= at => GapEnd(at) <= tbase[k]
  BY GapsInOrder, FitsIffRoom DEF FirstFit
<1>2. Cursor(at) \in PageFirst .. limit
  BY <1>1, TableNumbers
<1>3. Abstract!FreeAt(Cursor(at), n)
  <2>1. \A k \in Live : tbase[k] + tsize[k] <= Cursor(at) \/ Cursor(at) + n <= tbase[k]
    BY <1>1, TableNumbers DEF Live
  <2> QED
    BY <1>1, <2>1, FreeRun, TableNumbers
<1>4. ASSUME NEW q \in PageFirst .. (Cursor(at) - 1), Abstract!FreeAt(q, n)
      PROVE  FALSE
  <2>1. q \in Nat /\ q < Cursor(at)
    BY <1>1, TableNumbers
  <2>2. PICK i \in 0 .. live : Cursor(i) <= q /\ q + n <= GapEnd(i)
    BY <1>4, <2>1, FreeRunIsInAGap
  <2>3. Fits(i, n)
    BY <2>1, <2>2, FitsIffRoom, GapsInOrder
  <2>4. i >= at
    BY <2>2, <2>3, TableNumbers DEF FirstFit
  <2>5. Cursor(at) <= Cursor(i)
    <3>1. CASE i = at
      BY <1>1, <3>1
    <3>2. CASE at < i /\ at = 0
      BY <3>2, <1>1, GapsInOrder DEF Cursor
    <3>3. CASE at < i /\ at > 0
      <4>1. at - 1 \in Live /\ at - 1 < i
        BY <3>3, TableNumbers DEF Live
      <4>2. tbase[at - 1] + tsize[at - 1] <= Cursor(i)
        BY <4>1, GapsInOrder
      <4> QED
        BY <3>3, <4>2 DEF Cursor
    <3> QED
      BY <2>4, <3>1, <3>2, <3>3, TableNumbers
  <2> QED
    BY <1>1, <2>1, <2>2, <2>5, GapsInOrder
<1> QED
  BY <1>2, <1>3, <1>4

\* insert() adds one block to the set.
LEMMA InsertAddsOne ==
  ASSUME IInv, live < MaxBlocks, NEW at \in 0 .. live, NEW p, NEW n,
         tbase' = Inserted(tbase, at, p), tsize' = Inserted(tsize, at, n),
         live' = live + 1
  PROVE  Blocks' = Blocks \cup {[base |-> p, size |-> n]}
<1>1. \A i \in 0 .. live :
        Block(i)' = IF i < at THEN Block(i)
                    ELSE IF i = at THEN [base |-> p, size |-> n] ELSE Block(i - 1)
  BY TableNumbers DEF Inserted, Slots, Block
<1>2. Live' = 0 .. live /\ Blocks' = {Block(i)' : i \in 0 .. live}
  BY SMTT(30), TableNumbers DEF Live, Blocks, Block
<1>3. ASSUME NEW b \in Blocks' PROVE b \in Blocks \cup {[base |-> p, size |-> n]}
  <2>1. PICK i \in 0 .. live : b = Block(i)'
    BY <1>2
  <2>2. /\ i < at => i \in Live
        /\ i > at => i - 1 \in Live
    BY TableNumbers DEF Live
  <2> QED
    BY <1>1, <2>1, <2>2, TableNumbers DEF Blocks
<1>4. ASSUME NEW b \in Blocks PROVE b \in Blocks'
  <2>1. PICK k \in Live : b = Block(k)
    BY DEF Blocks
  <2>2. CASE k < at
    BY <1>1, <1>2, <2>1, <2>2, TableNumbers DEF Live
  <2>3. CASE k >= at
    <3>1. k + 1 \in 0 .. live /\ k + 1 > at /\ (k + 1) - 1 = k
      BY <2>3, TableNumbers DEF Live
    <3>2. Block(k + 1)' = Block(k)
      BY <1>1, <3>1
    <3> QED
      BY <1>2, <2>1, <3>1, <3>2
  <2> QED
    BY <2>2, <2>3, TableNumbers DEF Live
<1>5. [base |-> p, size |-> n] \in Blocks'
  <2>1. at \in 0 .. live /\ Block(at)' = [base |-> p, size |-> n]
    BY <1>1, TableNumbers
  <2> QED
    BY <1>2, <2>1
<1> QED
  BY <1>3, <1>4, <1>5

-----------------------------------------------------------------------------
\* MEM_ALLOC grants the lowest address that fits ...
LEMMA AllocGrants ==
  ASSUME IInv, NEW want \in Requests, Alloc(want)
  PROVE  Abstract!Grant(want)
<1>1. want > 0 /\ ~ TooBig(want) /\ live < MaxBlocks /\ live' = live + 1 /\ limit' = limit
  BY TableNumbers DEF Alloc, TableFull
<1>2. PICK at \in 0 .. live :
        /\ FirstFit(at, NeedOf(want))
        /\ tbase' = Inserted(tbase, at, Cursor(at))
        /\ tsize' = Inserted(tsize, at, NeedOf(want))
        /\ ret' = Done(Cursor(at))
  BY DEF Alloc
<1>3. NeedOf(want) = Abstract!NeedOf(want) /\ NeedOf(want) \in Nat /\ NeedOf(want) >= 1
  BY <1>1, NeedIsPromised
<1>4. Blocks' = Blocks \cup {[base |-> Cursor(at), size |-> NeedOf(want)]}
  BY <1>1, <1>2, InsertAddsOne
<1>5. /\ Cursor(at) \in PageFirst .. limit
      /\ Abstract!FreeAt(Cursor(at), NeedOf(want))
      /\ \A q \in PageFirst .. (Cursor(at) - 1) : ~ Abstract!FreeAt(q, NeedOf(want))
  BY <1>2, <1>3, FirstFitIsLowest
<1>6. Abstract!Cardinality(Blocks) < MaxBlocks
  BY <1>1, BlocksAreCounted, SameCount
<1> QED
  BY <1>1, <1>2, <1>3, <1>4, <1>5, <1>6 DEF Abstract!Grant, Abstract!Answer, Done

\* ... and refuses only for a reason its caller can see.
LEMMA RefusalIsHonest ==
  ASSUME IInv, NEW want \in Requests, AllocRefused(want)
  PROVE  Abstract!Refuse(want)
<1>1. Blocks' = Blocks /\ limit' = limit
  BY DEF AllocRefused, table, Blocks, Block, Live
<1>2. CASE want = 0 /\ ret' = Fail("BADARG")
  BY <1>1, <1>2 DEF Abstract!Refuse, Abstract!Refusal, Fail
<1>3. CASE want > 0 /\ ret' = Fail("NOSPACE")
  <2>1. CASE TableFull
    <3>1. Abstract!Cardinality(Blocks) = MaxBlocks
      BY <2>1, BlocksAreCounted, SameCount, TableNumbers DEF TableFull
    <3> QED
      BY <1>1, <1>3, <3>1 DEF Abstract!Refuse, Abstract!Refusal, Fail
  <2>2. CASE TooBig(want)
    BY <1>1, <1>3, <2>2, TooBigFitsNowhere DEF Abstract!Refuse, Abstract!Refusal, Fail
  <2>3. CASE ~ TooBig(want) /\ \A i \in 0 .. live : ~ Fits(i, NeedOf(want))
    <3>1. NeedOf(want) = Abstract!NeedOf(want) /\ NeedOf(want) \in Nat /\ NeedOf(want) >= 1
      BY <1>3, <2>3, NeedIsPromised
    <3>2. ASSUME NEW p \in PageFirst .. limit, Abstract!FreeAt(p, NeedOf(want))
          PROVE  FALSE
      <4>1. p \in Nat
        BY TableNumbers
      <4>2. PICK i \in 0 .. live : Cursor(i) <= p /\ p + NeedOf(want) <= GapEnd(i)
        BY <3>1, <3>2, <4>1, FreeRunIsInAGap
      <4>3. Fits(i, NeedOf(want))
        BY <3>1, <4>1, <4>2, FitsIffRoom, GapsInOrder
      <4> QED
        BY <2>3, <4>3
    <3>3. ~ Abstract!FitsSomewhere(Abstract!NeedOf(want))
      BY <3>1, <3>2 DEF Abstract!FitsSomewhere
    <3> QED
      BY <1>1, <1>3, <3>3 DEF Abstract!Refuse, Abstract!Refusal, Fail
  <2> QED
    BY <1>3, <2>1, <2>2, <2>3 DEF AllocRefused, Fail
<1> QED
  BY <1>2, <1>3 DEF AllocRefused

\* MEM_FREE takes the one block whose base it was given.
LEMMA FreeTakesItsBlock ==
  ASSUME IInv, NEW page \in 0 .. (PageMod - 1), NEW aligned \in BOOLEAN,
         Free(page, aligned)
  PROVE  page \in PageFirst .. LimitMax /\ Abstract!Free(page)
<1>1. PICK at \in Live :
        /\ tbase[at] = page
        /\ tbase' = ShiftDown(tbase, at) /\ tsize' = ShiftDown(tsize, at)
  BY DEF Free
<1>2. Block(at) \in Blocks /\ Block(at).base = page
  BY <1>1 DEF Blocks, Block
<1>3. Blocks' = Blocks \ {Block(at)}
  BY <1>1, ShiftDropsOne DEF Free
<1>4. page \in PageFirst .. LimitMax
  BY <1>1, TableNumbers, ArenaAssumption
<1> QED
  BY <1>2, <1>3, <1>4 DEF Free, Abstract!Free, Abstract!Answer, Done

\* The machine boots with the empty set.
LEMMA InitRefines == Init => Abstract!Init
<1> SUFFICES ASSUME Init PROVE Abstract!Init
  OBVIOUS
<1>1. Blocks = {}
  BY DEF Init, Blocks, Live
<1> QED
  BY <1>1 DEF Init, Abstract!Init, Abstract!Answer, Done

\* Every step is one of the promised calls, or changes nothing they speak of.
LEMMA StepRefines == IInv /\ [Next]_vars => [Abstract!Next]_(Abstract!vars)
<1> SUFFICES ASSUME IInv, [Next]_vars PROVE [Abstract!Next]_(Abstract!vars)
  OBVIOUS
<1>1. UNCHANGED table => Blocks' = Blocks
  BY DEF table, Blocks, Block, Live
<1>2. ASSUME NEW want \in Requests, Alloc(want) \/ AllocRefused(want)
      PROVE  Abstract!Next
  BY <1>2, AllocGrants, RefusalIsHonest DEF Abstract!Next
<1>3. ASSUME NEW page \in 0 .. (PageMod - 1), NEW aligned \in BOOLEAN,
             Free(page, aligned) \/ FreeRefused(page, aligned)
      PROVE  Abstract!Next
  <2>1. CASE Free(page, aligned)
    BY <2>1, FreeTakesItsBlock DEF Abstract!Next
  <2>2. CASE FreeRefused(page, aligned)
    BY <1>1, <2>2
    DEF FreeRefused, Fail, Abstract!Next, Abstract!RefuseFree, Abstract!Refusal
  <2> QED
    BY <1>3, <2>1, <2>2
<1>4. ASSUME NEW region \in {"EDIT", "OTHER"}, ReleaseRefused(region)
      PROVE  Abstract!Next
  BY <1>1, <1>4
  DEF ReleaseRefused, Fail, Abstract!Next, Abstract!RefuseRelease, Abstract!Refusal
<1>5. CASE Release
  BY <1>1, <1>5 DEF Release, Done, Abstract!Next, Abstract!Release, Abstract!Answer
<1>6. CASE Top
  BY <1>1, <1>6 DEF Top, Done, Abstract!Next, Abstract!Top, Abstract!Answer
<1>7. CASE Edit \/ EditReturns \/ UNCHANGED vars
  BY <1>1, <1>7 DEF Edit, EditReturns, vars, table, Abstract!vars
<1>8. CASE Reboot
  <2>1. Blocks' = {}
    BY <1>8 DEF Reboot, Blocks, Live
  <2> QED
    BY <1>8, <2>1 DEF Reboot, Done, Abstract!Next, Abstract!Reboot, Abstract!Answer
<1> QED
  BY <1>2, <1>3, <1>4, <1>5, <1>6, <1>7, <1>8 DEF Next

\* Every behaviour of kmem.c is one of the heap its interface promises: the lowest
\* free run is what an allocation gets, a refusal means that no free run is long
\* enough or that the table is full, and nothing else takes or gives back pages.
THEOREM AllocatorIsAHeap == Spec => ImplementsHeap
<1>1. Spec => []IInv
  BY InitInv, NextInv, PTL DEF Spec
<1> QED
  BY <1>1, InitRefines, StepRefines, PTL DEF Spec, ImplementsHeap, Abstract!Spec

=============================================================================

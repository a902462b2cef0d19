-------------------------------- MODULE KMem --------------------------------
(***************************************************************************)
(* The kernel's flat-memory allocator, runtime/kmem.c: MEM_ALLOC, MEM_FREE,*)
(* MEM_TOP and MEM_RELEASE over a fixed table of (base, size) pairs, in    *)
(* pages, of which the first `live` are in use and kept sorted.  Beside it *)
(* the one other owner of the releasable region, the resident editor       *)
(* (runtime/kerntab.s, k_edit), and the restart that ends every program.   *)
(***************************************************************************)
EXTENDS Integers, FiniteSets

CONSTANTS
  PageFirst,   \* PAGE_FIRST: $2001 in the code
  LimitDef,    \* PAGE_LIMIT_DEF: $C000
  LimitMax,    \* PAGE_LIMIT_MAX: $E000
  MaxBlocks,   \* X816_HEAP_BLOCKS: 32
  PageMod,     \* page numbers are uint16_t: 2^16
  SizeMod,     \* sizes are uint32_t: 2^32
  Requests,    \* the sizes callers ask MEM_ALLOC for
  Noise        \* what SDRAM may hold in the table at power-up

ASSUME ArenaAssumption ==
  /\ PageFirst \in Nat /\ LimitDef \in Nat /\ LimitMax \in Nat
  /\ PageMod \in Nat /\ SizeMod \in Nat
  /\ 0 < PageFirst /\ PageFirst < LimitDef /\ LimitDef < LimitMax
  /\ LimitMax < PageMod
  /\ 256 * PageMod <= SizeMod

ASSUME TableAssumption ==
  /\ MaxBlocks \in Nat \ {0}
  /\ Requests \subseteq 0 .. (SizeMod - 1)
  /\ Noise \subseteq 0 .. (PageMod - 1)

VARIABLES
  limit,       \* page_limit
  live,        \* live: entries of the table in use
  tbase,       \* T_BASE(i): base page of entry i
  tsize,       \* T_SIZE(i): size in pages of entry i
  ret,         \* kfs_carry and the C:X result of the last call
  inEditor     \* the resident editor is running on its page pool

vars == <<limit, live, tbase, tsize, ret, inEditor>>
table == <<live, tbase, tsize>>

Slots == 0 .. (MaxBlocks - 1)
Live == 0 .. (live - 1)
Grain == 256

\* uint16_t and uint32_t arithmetic of two values in range
Sub16(a, b) == IF a >= b THEN a - b ELSE (a - b) + PageMod
Add32(a, b) == IF a + b >= SizeMod THEN (a + b) - SizeMod ELSE a + b

Done(page) == [carry |-> FALSE, err |-> "none", page |-> page]
Fail(err) == [carry |-> TRUE, err |-> err, page |-> 0]

(***************************************************************************)
(* The gap before entry i is [Cursor(i), GapEnd(i)); the gap before entry  *)
(* `live` runs to the ceiling.                                             *)
(***************************************************************************)
Cursor(i) == IF i = 0 THEN PageFirst ELSE tbase[i - 1] + tsize[i - 1]
GapEnd(i) == IF i = live THEN limit ELSE tbase[i]
Fits(i, need) == Sub16(GapEnd(i), Cursor(i)) >= need
FirstFitAnywhere(i, need) == Fits(i, need)                               \* mutant
FirstFit(i, need) == Fits(i, need) /\ \A j \in 0 .. (i - 1) : ~ Fits(j, need)

NeedOf(want) == Add32(want, Grain - 1) \div Grain
TooBigAfterRounding(want) == NeedOf(want) > limit - PageFirst   \* mutant
TooBig(want) == want > (limit - PageFirst) * Grain
TableFullTooLate == live > MaxBlocks                            \* mutant
TableFull == live >= MaxBlocks

\* insert(): the tail moves up one entry and `at` takes the value
Inserted(t, at, value) ==
  [i \in Slots |-> IF i < at \/ i > live THEN t[i]
                   ELSE IF i = at THEN value ELSE t[i - 1]]

\* the loop of kmem_free(): the tail moves down over entry i
ShiftDown(t, i) ==
  [j \in Slots |-> IF i <= j /\ j + 1 < live THEN t[j + 1] ELSE t[j]]

Init ==
  /\ limit = LimitDef
  /\ live = 0
  /\ \E n \in Noise : tbase = [i \in Slots |-> n] /\ tsize = [i \in Slots |-> n]
  /\ ret = Done(0)
  /\ inEditor = FALSE

AllocRefused(want) ==
  /\ ~ inEditor
  /\ \/ want = 0 /\ ret' = Fail("BADARG")
     \/ /\ want > 0
        /\ \/ TooBig(want)
           \/ TableFull
           \/ \A i \in 0 .. live : ~ Fits(i, NeedOf(want))
        /\ ret' = Fail("NOSPACE")
  /\ UNCHANGED <<limit, table, inEditor>>

Alloc(want) ==
  /\ ~ inEditor
  /\ want > 0
  /\ ~ TooBig(want)
  /\ ~ TableFull
  /\ \E at \in 0 .. live :
       /\ FirstFit(at, NeedOf(want))
       /\ tbase' = Inserted(tbase, at, Cursor(at))
       /\ tsize' = Inserted(tsize, at, NeedOf(want))
       /\ ret' = Done(Cursor(at))
  /\ live' = live + 1
  /\ UNCHANGED <<limit, inEditor>>

\* mutant: any address inside a block names it
FreeInside(page, aligned) ==
  /\ ~ inEditor
  /\ aligned
  /\ \E i \in Live :
       /\ tbase[i] <= page /\ page < tbase[i] + tsize[i]
       /\ tbase' = ShiftDown(tbase, i)
       /\ tsize' = ShiftDown(tsize, i)
  /\ live' = live - 1
  /\ ret' = Done(0)
  /\ UNCHANGED <<limit, inEditor>>

\* kmem_free(): `page` is the page the address names (the bank's high byte is
\* masked away), `aligned` whether the low byte of the address is zero.
Free(page, aligned) ==
  /\ ~ inEditor
  /\ aligned
  /\ \E i \in Live :
       /\ tbase[i] = page
       /\ tbase' = ShiftDown(tbase, i)
       /\ tsize' = ShiftDown(tsize, i)
  /\ live' = live - 1
  /\ ret' = Done(0)
  /\ UNCHANGED <<limit, inEditor>>

FreeRefused(page, aligned) ==
  /\ ~ inEditor
  /\ ~ aligned \/ \A i \in Live : tbase[i] # page
  /\ ret' = Fail("BADARG")
  /\ UNCHANGED <<limit, table, inEditor>>

Top ==
  /\ ~ inEditor
  /\ ret' = Done(limit - 1)
  /\ UNCHANGED <<limit, table, inEditor>>

\* kmem_release(): one way; a second call and an unknown region are refused.
Release ==
  /\ ~ inEditor
  /\ limit = LimitDef
  /\ limit' = LimitMax
  /\ ret' = Done(limit' - 1)
  /\ UNCHANGED <<table, inEditor>>

ReleaseRefused(region) ==
  /\ ~ inEditor
  /\ \/ region # "EDIT" /\ ret' = Fail("BADARG")
     \/ region = "EDIT" /\ limit # LimitDef /\ ret' = Fail("EXISTS")
  /\ UNCHANGED <<limit, table, inEditor>>

\* k_edit: the editor is entered whatever the state of its region.
Edit ==
  /\ ~ inEditor
  /\ inEditor' = TRUE
  /\ UNCHANGED <<limit, table, ret>>

EditReturns ==
  /\ inEditor
  /\ inEditor' = FALSE
  /\ UNCHANGED <<limit, table, ret>>

(***************************************************************************)
(* K_EXIT and the reset button re-enter the firmware, whose cstartup       *)
(* clears `live` and copies the initialiser of `page_limit`; the table,    *)
(* in SDRAM, keeps its bytes.                                              *)
(***************************************************************************)
Reboot ==
  /\ limit' = LimitDef
  /\ live' = 0
  /\ ret' = Done(0)
  /\ inEditor' = FALSE
  /\ UNCHANGED <<tbase, tsize>>

Next ==
  \/ \E want \in Requests : Alloc(want) \/ AllocRefused(want)
  \/ \E page \in 0 .. (PageMod - 1), aligned \in BOOLEAN :
       Free(page, aligned) \/ FreeRefused(page, aligned)
  \/ \E region \in {"EDIT", "OTHER"} : ReleaseRefused(region)
  \/ Release
  \/ Top
  \/ Edit
  \/ EditReturns
  \/ Reboot

Spec == Init /\ [][Next]_vars
-----------------------------------------------------------------------------
(***************************************************************************)
(* Properties.                                                             *)
(***************************************************************************)
Result ==
  [carry : BOOLEAN, err : {"none", "BADARG", "NOSPACE", "EXISTS"},
   page : 0 .. (PageMod - 1)]

\* Every variable of kmem.c keeps its width: pages fit uint16_t, live the table.
TypeOK ==
  /\ limit \in {LimitDef, LimitMax}
  /\ live \in 0 .. MaxBlocks
  /\ tbase \in [Slots -> 0 .. (PageMod - 1)]
  /\ tsize \in [Slots -> 0 .. (PageMod - 1)]
  /\ ret \in Result
  /\ inEditor \in BOOLEAN

\* The part of kmem.c's table contract that the code keeps: every live entry
\* has at least one page, lies inside the arena, and ends at or before the
\* base of every later entry.
InArena ==
  \A i \in Live :
    /\ tsize[i] >= 1
    /\ PageFirst <= tbase[i]
    /\ tbase[i] + tsize[i] <= limit

SortedDisjoint ==
  \A i, j \in Live : i < j => tbase[i] + tsize[i] <= tbase[j]

HeapWellFormed == InArena /\ SortedDisjoint

Block(i) == [base |-> tbase[i], size |-> tsize[i]]
Blocks == {Block(i) : i \in Live}

\* The step may be kmem_free() of an address, and of no other than b's own base.
IsFreeOf(b) ==
  /\ \E aligned \in BOOLEAN : Free(b.base, aligned)
  /\ \A page \in 0 .. (PageMod - 1), aligned \in BOOLEAN :
       Free(page, aligned) => aligned /\ page = b.base

\* A block handed out keeps its address and its size until MEM_FREE is given
\* its own base or the machine restarts: a free of any other address, and every
\* other call, neither moves nor shrinks nor drops it, and a free of its base
\* drops nothing beside it.
BlocksStay ==
  [][\A b \in Blocks :
       \/ b \in Blocks'
       \/ IsFreeOf(b) /\ Blocks' = Blocks \ {b}
       \/ Reboot]_vars

\* The table implements the set of blocks the interface promises.
Abstract == INSTANCE Heap WITH blocks <- Blocks
ImplementsHeap == Abstract!Spec

=============================================================================

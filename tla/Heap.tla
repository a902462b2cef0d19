-------------------------------- MODULE Heap --------------------------------
(***************************************************************************)
(* What the kernel's allocator promises its callers (runtime/kmem.h): a    *)
(* set of blocks of whole pages between PageFirst and a ceiling that only  *)
(* a reboot lowers.  Nothing is said of tables, slots or search order      *)
(* other than that the lowest address that fits is the one handed out.     *)
(***************************************************************************)
EXTENDS Integers, FiniteSets

CONSTANTS
  PageFirst,   \* the first page that may be handed out
  LimitDef,    \* one past the last page at boot
  LimitMax,    \* one past the last page once the region is released
  MaxBlocks,   \* blocks that may be live at once
  SizeMod,     \* requests are byte counts below this
  Requests     \* the request sizes callers use

VARIABLES
  blocks,      \* the live blocks, records [base, size] in pages
  limit,       \* one past the last page that may be handed out
  ret          \* what the last call returned

vars == <<blocks, limit, ret>>

PageSize == 256

NeedOf(want) == (want + (PageSize - 1)) \div PageSize

PagesOf(b) == b.base .. (b.base + b.size - 1)

\* n pages starting at p lie in the arena and belong to nobody
FreeAt(p, n) ==
  /\ p >= PageFirst
  /\ p + n <= limit
  /\ \A b \in blocks : PagesOf(b) \cap (p .. (p + n - 1)) = {}

FitsSomewhere(n) == \E p \in PageFirst .. limit : FreeAt(p, n)

Answer(page) == [carry |-> FALSE, err |-> "none", page |-> page]
Refusal(err) == [carry |-> TRUE, err |-> err, page |-> 0]

Init ==
  /\ blocks = {}
  /\ limit = LimitDef
  /\ ret = Answer(0)

Grant(want) ==
  /\ want > 0
  /\ Cardinality(blocks) < MaxBlocks
  /\ \E p \in PageFirst .. limit :
       /\ FreeAt(p, NeedOf(want))
       /\ \A q \in PageFirst .. (p - 1) : ~ FreeAt(q, NeedOf(want))
       /\ blocks' = blocks \cup {[base |-> p, size |-> NeedOf(want)]}
       /\ ret' = Answer(p)
  /\ UNCHANGED limit

\* A refusal is honest: the caller asked for nothing, or the table is full,
\* or no run of free pages is long enough.
Refuse(want) ==
  /\ \/ want = 0 /\ ret' = Refusal("BADARG")
     \/ /\ want > 0
        /\ \/ Cardinality(blocks) = MaxBlocks
           \/ ~ FitsSomewhere(NeedOf(want))
        /\ ret' = Refusal("NOSPACE")
  /\ UNCHANGED <<blocks, limit>>

\* Only the exact base of a live block is accepted.
Free(page) ==
  /\ \E b \in blocks :
       b.base = page /\ blocks' = blocks \ {b}
  /\ ret' = Answer(0)
  /\ UNCHANGED limit

RefuseFree ==
  /\ ret' = Refusal("BADARG")
  /\ UNCHANGED <<blocks, limit>>

Release ==
  /\ limit = LimitDef
  /\ limit' = LimitMax
  /\ ret' = Answer(LimitMax - 1)
  /\ UNCHANGED blocks

RefuseRelease ==
  /\ ret' \in {Refusal("BADARG"), Refusal("EXISTS")}
  /\ UNCHANGED <<blocks, limit>>

Top ==
  /\ ret' = Answer(limit - 1)
  /\ UNCHANGED <<blocks, limit>>

Reboot == blocks' = {} /\ limit' = LimitDef /\ ret' = Answer(0)

Next ==
  \/ \E want \in Requests : Grant(want) \/ Refuse(want)
  \/ \E page \in PageFirst .. LimitMax : Free(page)
  \/ RefuseFree
  \/ Release
  \/ RefuseRelease
  \/ Top
  \/ Reboot

Spec == Init /\ [][Next]_vars

=============================================================================

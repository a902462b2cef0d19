----------------------------- MODULE KIrq_proofs -----------------------------
(***************************************************************************)
(* Proofs about the interrupt front end for every set of handlers, every   *)
(* table of installations, every choice of wired and programmed devices,   *)
(* every width of the frame counter and every bound on the devices.        *)
(*                                                                         *)
(* IInv is what every property below rests on: the shape of the three      *)
(* programs (main, dispatcher, trap), and why nothing they share moves     *)
(* under another's feet.  An edge is acknowledged only while it is enabled *)
(* and still in the ISR; a slot is torn only between the two stores of     *)
(* IRQ_SET, and then the dispatcher is out.                                *)
(***************************************************************************)
EXTENDS KIrq, TLAPS

\* The labels of kirq_call and of what follows it, and the dispatcher's others.
Calling == {"call", "bank", "jump", "handler", "none"}
Looking == {"snapshot", "ack", "nobody"} \cup Sources

\* The dispatcher holds a slot from the call until its handler is done with.
IrqShape ==
  \/ irq.at \in Looking \cup {"out"} /\ irq.slot = "none"
  \/ irq.at \in Calling /\ irq.slot \in Sources \cup {"SPURIOUS"}

\* A trap holds its slot for as long as it runs.
TrapShape ==
  \/ trap.at = "out" /\ trap.slot = "none"
  \/ trap.at \in Calling /\ trap.slot \in Traps

\* IRQ_SET is masked while it stores, so the dispatcher is out; the one trap that
\* can come in the middle of it is the NMI.
MainShape ==
  \/ main = NotSetting
  \/ /\ main.at \in {"mask", "lo", "bank"}
     /\ <<main.slot, main.new>> \in Installs
     /\ trap.slot \in {"none", "NMI"}
     /\ main.at # "mask" => main.masked /\ irq.at = "out"

\* What is about to be acknowledged was enabled, and is still there.
AckShape ==
  irq.at = "ack" => snap \subseteq ien /\ snap \cap VeraEdges \subseteq isr

\* Every slot but the one between its two stores holds a whole address.
TableShape ==
  /\ main.at = "bank" => vec[main.slot].lo = main.new
  /\ \A s \in Slots :
       \/ main.at = "bank" /\ main.slot = s
       \/ \E h \in Handlers \cup {None} : vec[s] = Word(h)

\* The inductive invariant.
IInv == TypeOK /\ IrqShape /\ TrapShape /\ MainShape /\ AckShape /\ TableShape

USE DEF Calling, Looking

\* The records the dispatcher's steps build.
LEMMA AtFacts ==
  ASSUME NEW l \in Labels \cup Sources
  PROVE  At(l) \in Contexts /\ At(l).at = l /\ At(l).slot = "none"
BY DEF At, Idle, Contexts, Empty, Word, Addresses, None

\* A source or trap that was taken is about to call its slot.
LEMMA TookFacts ==
  ASSUME NEW s \in Slots
  PROVE  Took(s) \in Contexts /\ Took(s).at = "call" /\ Took(s).slot = s
BY DEF Took, Idle, Contexts, Empty, Word, Addresses, None, Labels

\* The steps of kirq_call keep the slot they call.
LEMMA CallFacts ==
  ASSUME NEW c \in Contexts, tgt \in Addresses
  PROVE  /\ Loaded(c) \in Contexts /\ Loaded(c).at = "bank" /\ Loaded(c).slot = c.slot
         /\ Tested(c) \in Contexts /\ Tested(c).slot = c.slot
         /\ Tested(c).at = IF tgt' = Empty THEN "none" ELSE "jump"
         /\ Jumped(c) \in Contexts /\ Jumped(c).at = "handler"
         /\ Jumped(c).slot = c.slot /\ Jumped(c).ran = tgt
BY DEF Loaded, Tested, Jumped, Contexts, Labels

\* What the sets of sources and slots contain.
LEMMA SourceFacts ==
  /\ Sources = {"VSYNC", "LINE", "SPRCOL", "AFLOW", "VIA1", "VIA2", "YM"}
  /\ VeraEdges \subseteq Vera /\ Vera \subseteq Sources /\ Levels \subseteq Sources
  /\ Sources \subseteq Slots /\ "SPURIOUS" \in Slots /\ Traps \subseteq Slots
BY DEF Sources, Vera, VeraEdges, Levels, Slots, Traps

\* The dispatcher's order, as ranks ...
LEMMA RankFacts ==
  /\ RankOf("VSYNC") = 1 /\ RankOf("LINE") = 2 /\ RankOf("SPRCOL") = 3
  /\ RankOf("AFLOW") = 4 /\ RankOf("VIA1") = 5 /\ RankOf("VIA2") = 6
  /\ RankOf("YM") = 7
<1>1. DOMAIN Order = 1 .. 7
  BY DEF Order
<1>2. /\ Order[1] = "VSYNC" /\ Order[2] = "LINE" /\ Order[3] = "SPRCOL"
      /\ Order[4] = "AFLOW" /\ Order[5] = "VIA1" /\ Order[6] = "VIA2" /\ Order[7] = "YM"
  BY DEF Order
<1> QED
  BY <1>1, <1>2 DEF RankOf

\* ... and as the source it goes to next.
LEMMA AfterFacts ==
  /\ After("VSYNC") = "LINE" /\ After("LINE") = "SPRCOL" /\ After("SPRCOL") = "AFLOW"
  /\ After("AFLOW") = "VIA1" /\ After("VIA1") = "VIA2" /\ After("VIA2") = "YM"
  /\ After("YM") = "nobody"
<1>1. DOMAIN Order = 1 .. 7 /\ Len(Order) = 7
  BY DEF Order
<1>2. /\ Order[1] = "VSYNC" /\ Order[2] = "LINE" /\ Order[3] = "SPRCOL"
      /\ Order[4] = "AFLOW" /\ Order[5] = "VIA1" /\ Order[6] = "VIA2" /\ Order[7] = "YM"
  BY DEF Order
<1>3. \A s : After(s) = IF s = "YM" THEN "nobody" ELSE Order[1 + RankOf(s)]
  BY <1>1, <1>2 DEF After, RankOf
<1> QED
  BY <1>2, <1>3, RankFacts

\* A context that is out.
LEMMA IdleFacts == Idle \in Contexts /\ Idle.at = "out" /\ Idle.slot = "none"
BY DEF Idle, Contexts, Empty, Word, Addresses, None, Labels

\* kirq_call copies one word of its slot at a time.
LEMMA LoadFacts ==
  ASSUME TypeOK, NEW c \in Contexts, c.slot \in Slots
  PROVE  /\ LoadLow(c) => /\ tgt' = [lo |-> vec[c.slot].lo, bank |-> tgt.bank]
                          /\ tgt' \in Addresses
         /\ LoadBank(c) => /\ tgt' = [lo |-> tgt.lo, bank |-> vec[c.slot].bank]
                           /\ tgt' \in Addresses
<1>1. /\ tgt \in Addresses /\ vec[c.slot] \in Addresses
  BY DEF TypeOK
<1> QED
  BY <1>1 DEF LoadLow, LoadBank, Addresses

\* A counter that was wrapped fits its width.
LEMMA WrapFacts ==
  ASSUME NEW n \in Nat
  PROVE  n % FrameMod \in 0 .. (FrameMod - 1)
BY IrqAssumption

\* After a handler the dispatcher goes on to the next source, or out.
LEMMA ContinueFacts ==
  ASSUME NEW slot \in Sources \cup {"SPURIOUS"}
  PROVE  /\ Continue(slot) \in Contexts /\ Continue(slot).slot = "none"
         /\ slot = "SPURIOUS" => Continue(slot).at = "out"
         /\ slot # "SPURIOUS" => Continue(slot).at = After(slot)
         /\ Continue(slot).at \in Sources \cup {"nobody", "out"}
<1>1. CASE slot = "SPURIOUS"
  BY <1>1, IdleFacts, SourceFacts DEF Continue
<1>2. CASE slot # "SPURIOUS"
  <2>1. After(slot) \in Sources \cup {"nobody"}
    BY <1>2, AfterFacts, SourceFacts
  <2> QED
    BY <1>2, <2>1, AtFacts DEF Continue, Labels
<1> QED
  BY <1>1, <1>2

\* kirq_install() establishes the invariant.
LEMMA InitInv == Init => IInv
<1> SUFFICES ASSUME Init PROVE IInv
  OBVIOUS
<1>1. Empty \in Addresses /\ Empty = Word(None)
  BY DEF Empty, Word, Addresses
<1>2. /\ vec \in [Slots -> Addresses] /\ tgt \in Addresses
      /\ irq \in Contexts /\ trap \in Contexts
  BY <1>1, IdleFacts DEF Init
<1>3. /\ ien \subseteq Sources /\ asserts \in 0 .. MaxAsserts
      /\ vsyncs \in 0 .. (FrameMod - 1) /\ frames \in 0 .. (FrameMod - 1)
  BY IrqAssumption, SourceFacts DEF Init
<1>4. TypeOK
  BY <1>2, <1>3 DEF Init, TypeOK, NotSetting
<1> QED
  BY <1>1, <1>4, IdleFacts
  DEF Init, IInv, IrqShape, TrapShape, MainShape, AckShape, TableShape, NotSetting

\* Where the dispatcher is after looking at a source.
LEMMA IrqAfterLook ==
  ASSUME IInv, Look
  PROVE  /\ irq' \in Contexts /\ irq.at \in Sources
         /\ \/ irq'.at = After(irq.at) /\ irq'.slot = "none"
               /\ irq'.at \in Sources \cup {"nobody"} /\ ~ Found(irq.at)
            \/ irq'.at = "call" /\ irq'.slot = irq.at /\ Found(irq.at)
<1>1. irq.at \in Sources /\ irq.at \in Slots
  BY SourceFacts DEF Look
<1>2. After(irq.at) \in Sources \cup {"nobody"}
  BY <1>1, AfterFacts, SourceFacts
<1>3. /\ Found(irq.at) => irq' = Took(irq.at)
      /\ ~ Found(irq.at) => irq' = At(After(irq.at))
  BY DEF Look
<1>4. At(After(irq.at)) \in Contexts /\ At(After(irq.at)).at = After(irq.at)
      /\ At(After(irq.at)).slot = "none"
  BY <1>2, AtFacts DEF Labels
<1>5. Took(irq.at) \in Contexts /\ Took(irq.at).at = "call" /\ Took(irq.at).slot = irq.at
  BY <1>1, TookFacts
<1> QED
  BY <1>1, <1>2, <1>3, <1>4, <1>5

\* Where it is after the last of them.
LEMMA IrqAfterNobody ==
  ASSUME IInv, Nobody
  PROVE  /\ irq' \in Contexts
         /\ \/ irq'.at = "out" /\ irq'.slot = "none"
            \/ irq'.at = "call" /\ irq'.slot = "SPURIOUS"
BY IdleFacts, TookFacts, SourceFacts DEF Nobody

\* Where it is after a step of kirq_call.
LEMMA IrqAfterCall ==
  ASSUME IInv, CallLow \/ CallBank \/ Jump
  PROVE  /\ irq' \in Contexts /\ tgt' \in Addresses /\ irq'.slot = irq.slot
         /\ irq.at \in Calling /\ irq.slot \in Sources \cup {"SPURIOUS"}
         /\ CallLow => irq.at = "call" /\ irq'.at = "bank"
         /\ CallBank => irq.at = "bank" /\ irq'.at = IF tgt' = Empty THEN "none" ELSE "jump"
         /\ Jump => irq.at = "jump" /\ irq'.at = "handler" /\ irq'.ran = tgt
<1>1. irq \in Contexts /\ tgt \in Addresses /\ TypeOK
  BY DEF IInv, TypeOK
<1>2. irq.at \in {"call", "bank", "jump"}
  BY DEF CallLow, CallBank, Jump, LoadLow, LoadBank
<1>3. irq.slot \in Sources \cup {"SPURIOUS"} /\ irq.slot \in Slots
  BY <1>2, SourceFacts DEF IInv, IrqShape
<1>4. CallLow => /\ irq.at = "call" /\ irq' \in Contexts /\ tgt' \in Addresses
                 /\ irq'.slot = irq.slot /\ irq'.at = "bank"
  BY <1>1, <1>3, CallFacts, LoadFacts DEF CallLow, LoadLow
<1>5. CallBank => /\ irq.at = "bank" /\ irq' \in Contexts /\ tgt' \in Addresses
                  /\ irq'.slot = irq.slot
                  /\ irq'.at = IF tgt' = Empty THEN "none" ELSE "jump"
  BY <1>1, <1>3, CallFacts, LoadFacts DEF CallBank, LoadBank
<1>6. Jump => /\ irq.at = "jump" /\ irq' \in Contexts /\ tgt' \in Addresses
              /\ irq'.slot = irq.slot /\ irq'.at = "handler" /\ irq'.ran = tgt
  BY <1>1, <1>3, CallFacts DEF Jump, table
<1> QED
  BY <1>2, <1>3, <1>4, <1>5, <1>6

\* Where it is after its handler, or after doing without one.
LEMMA IrqAfterService ==
  ASSUME IInv, HandlerReturns \/ Silence
  PROVE  /\ irq' \in Contexts /\ irq'.slot = "none"
         /\ irq'.at \in Sources \cup {"nobody", "out"}
         /\ irq.at \in {"handler", "none"} /\ irq.slot \in Sources \cup {"SPURIOUS"}
         /\ irq.slot \in Sources => irq'.at = After(irq.slot)
<1>1. irq.at \in {"handler", "none"} /\ irq' = Continue(irq.slot)
  BY DEF HandlerReturns, Silence
<1>2. irq.slot \in Sources \cup {"SPURIOUS"}
  BY <1>1, SourceFacts DEF IInv, IrqShape
<1> QED
  BY <1>1, <1>2, ContinueFacts, SourceFacts

\* Where a trap is after one of its steps.
LEMMA TrapMoves ==
  ASSUME IInv, TrapStep
  PROVE  /\ trap' \in Contexts /\ tgt' \in Addresses
         /\ \/ /\ trap'.at \in Calling /\ trap'.slot = trap.slot /\ trap.slot \in Traps
            \/ trap'.at = "out" /\ trap'.slot = "none"
<1>1. trap \in Contexts /\ tgt \in Addresses /\ TypeOK
  BY DEF IInv, TypeOK
<1>2. trap.at \in Calling
  BY DEF TrapStep, LoadLow, LoadBank
<1>3. trap.slot \in Traps /\ trap.slot \in Slots
  BY <1>2, SourceFacts DEF IInv, TrapShape
<1>4. CASE LoadLow(trap) /\ trap' = Loaded(trap)
  BY <1>1, <1>2, <1>3, <1>4, CallFacts, LoadFacts
<1>5. CASE LoadBank(trap) /\ trap' = Tested(trap)
  BY <1>1, <1>2, <1>3, <1>5, CallFacts, LoadFacts
<1>6. CASE trap.at = "jump" /\ trap' = Jumped(trap) /\ UNCHANGED tgt
  BY <1>1, <1>2, <1>3, <1>6, CallFacts
<1>7. CASE trap' = Idle /\ UNCHANGED tgt
  BY <1>1, <1>7, IdleFacts
<1> QED
  BY <1>4, <1>5, <1>6, <1>7 DEF TrapStep

\* Each action preserves the invariant.
LEMMA RaiseStep ==
  ASSUME IInv, NEW s \in Sources, Raise(s)
  PROVE  IInv'
<1>1. asserts' \in 0 .. MaxAsserts
  BY IrqAssumption DEF Raise, IInv, TypeOK
<1>2. vsyncs' \in 0 .. (FrameMod - 1) /\ merged' \in 0 .. (FrameMod - 1)
  BY WrapFacts, IrqAssumption DEF Raise, OneMore, IInv, TypeOK, history
<1>3. TypeOK'
  BY <1>1, <1>2, SourceFacts DEF Raise, IInv, TypeOK, table, kirq, history
<1>4. IrqShape' /\ TrapShape' /\ MainShape' /\ TableShape'
  BY DEF Raise, IInv, IrqShape, TrapShape, MainShape, TableShape, table
<1>5. AckShape'
  BY DEF Raise, IInv, AckShape, kirq
<1> QED
  BY <1>3, <1>4, <1>5 DEF IInv

LEMMA EnableStep ==
  ASSUME IInv, NEW s \in Sources, Enable(s)
  PROVE  IInv'
<1>1. TypeOK'
  BY SourceFacts DEF Enable, IInv, TypeOK, table, kirq, history
<1>2. IrqShape' /\ TrapShape' /\ MainShape'
  BY SourceFacts
  DEF Enable, MainRuns, NoHandlerRuns, IInv, IrqShape, TrapShape, MainShape,
      NotSetting
<1>3. AckShape' /\ TableShape'
  BY SourceFacts
  DEF Enable, MainRuns, NoHandlerRuns, IInv, AckShape, TableShape, table, kirq
<1> QED
  BY <1>1, <1>2, <1>3 DEF IInv

LEMMA PollStep ==
  ASSUME IInv, NEW s \in Sources, Poll(s)
  PROVE  IInv'
<1>1. TypeOK'
  BY SourceFacts DEF Poll, IInv, TypeOK, table, kirq
<1>2. IrqShape' /\ TrapShape' /\ MainShape'
  BY SourceFacts
  DEF Poll, MainRuns, NoHandlerRuns, IInv, IrqShape, TrapShape, MainShape,
      NotSetting
<1>3. AckShape' /\ TableShape'
  BY SourceFacts
  DEF Poll, MainRuns, NoHandlerRuns, IInv, AckShape, TableShape, table, kirq
<1> QED
  BY <1>1, <1>2, <1>3 DEF IInv

LEMMA SetSlotStep ==
  ASSUME IInv, NEW p \in Installs, SetSlot(p[1], p[2])
  PROVE  IInv'
<1>1. p[1] \in Slots /\ p[2] \in Handlers \cup {None} /\ <<p[1], p[2]>> \in Installs
  BY IrqAssumption
<1>2. /\ main' = [at |-> "mask", slot |-> p[1], new |-> p[2], masked |-> FALSE]
      /\ main = NotSetting /\ irq.at = "out" /\ trap.at = "out"
  BY DEF SetSlot, MainRuns, NoHandlerRuns, IInv, MainShape
<1>3. TypeOK'
  BY <1>1, <1>2 DEF SetSlot, IInv, TypeOK, table, devices, kirq, history
<1>4. IrqShape' /\ TrapShape' /\ MainShape'
  BY <1>1, <1>2 DEF SetSlot, IInv, IrqShape, TrapShape, MainShape
<1>5. AckShape' /\ TableShape'
  BY <1>2 DEF SetSlot, IInv, AckShape, TableShape, NotSetting, table, devices, kirq
<1> QED
  BY <1>3, <1>4, <1>5 DEF IInv

LEMMA MaskStep ==
  ASSUME IInv, Mask
  PROVE  IInv'
<1>1. TypeOK'
  BY SourceFacts DEF Mask, IInv, TypeOK, table, devices, kirq, history
<1>2. IrqShape' /\ TrapShape' /\ MainShape'
  BY SourceFacts
  DEF Mask, MainRuns, NoHandlerRuns, IInv, IrqShape, TrapShape, MainShape,
      NotSetting
<1>3. AckShape' /\ TableShape'
  BY SourceFacts
  DEF Mask, MainRuns, NoHandlerRuns, IInv, AckShape, TableShape, table, devices,
      kirq, MainShape, NotSetting
<1> QED
  BY <1>1, <1>2, <1>3 DEF IInv

LEMMA StoreLowStep ==
  ASSUME IInv, StoreLow
  PROVE  IInv'
<1>1. /\ main.at = "lo" /\ main.slot \in Slots /\ main.new \in Handlers \cup {None}
      /\ irq.at = "out" /\ trap.at = "out"
  BY IrqAssumption
  DEF StoreLow, MainRuns, NoHandlerRuns, IInv, MainShape, NotSetting
<1>2. /\ vec[main.slot] \in Addresses
      /\ vec' = [vec EXCEPT ![main.slot] = [lo |-> main.new, bank |-> vec[main.slot].bank]]
      /\ main' = [main EXCEPT !.at = "bank"]
  <2>1. vec[main.slot] \in Addresses
    BY <1>1 DEF IInv, TypeOK
  <2>2. [vec[main.slot] EXCEPT !.lo = main.new]
         = [lo |-> main.new, bank |-> vec[main.slot].bank]
    BY <2>1 DEF Addresses
  <2> QED
    BY <2>1, <2>2 DEF StoreLow
<1>3. /\ main'.at = "bank" /\ main'.slot = main.slot
      /\ main'.new = main.new /\ main'.masked = main.masked
  BY <1>2 DEF IInv, TypeOK
<1>4. TypeOK'
  <2>1. vec' \in [Slots -> Addresses]
    BY <1>1, <1>2 DEF IInv, TypeOK, Addresses
  <2> QED
    BY <1>1, <1>2, <2>1 DEF StoreLow, IInv, TypeOK, devices, kirq, history
<1>5. IrqShape' /\ TrapShape' /\ MainShape'
  BY <1>1, <1>3 DEF StoreLow, IInv, IrqShape, TrapShape, MainShape, NotSetting
<1>6. AckShape' /\ TableShape'
  BY <1>1, <1>2, <1>3
  DEF StoreLow, IInv, TypeOK, AckShape, TableShape, devices, kirq
<1> QED
  BY <1>4, <1>5, <1>6 DEF IInv

LEMMA StoreBankStep ==
  ASSUME IInv, StoreBank
  PROVE  IInv'
<1>1. /\ main.at = "bank" /\ main.slot \in Slots /\ main.new \in Handlers \cup {None}
      /\ irq.at = "out" /\ trap.at = "out" /\ main' = NotSetting
  BY IrqAssumption
  DEF StoreBank, MainRuns, NoHandlerRuns, IInv, MainShape, NotSetting
<1>2. /\ vec[main.slot] \in Addresses
      /\ vec' = [vec EXCEPT ![main.slot] = [lo |-> vec[main.slot].lo, bank |-> main.new]]
  <2>1. vec[main.slot] \in Addresses
    BY <1>1 DEF IInv, TypeOK
  <2>2. [vec[main.slot] EXCEPT !.bank = main.new]
         = [lo |-> vec[main.slot].lo, bank |-> main.new]
    BY <2>1 DEF Addresses
  <2> QED
    BY <2>1, <2>2 DEF StoreBank
<1>3. TypeOK'
  <2>1. vec' \in [Slots -> Addresses]
    BY <1>1, <1>2 DEF IInv, TypeOK, Addresses
  <2> QED
    BY <1>1, <2>1 DEF StoreBank, IInv, TypeOK, devices, kirq, history, NotSetting
<1>4. IrqShape' /\ TrapShape' /\ MainShape'
  BY <1>1 DEF StoreBank, IInv, IrqShape, TrapShape, MainShape
<1>5. TableShape'
  <2> SUFFICES ASSUME NEW s \in Slots
               PROVE  \E h \in Handlers \cup {None} : vec'[s] = Word(h)
    BY <1>1 DEF TableShape, NotSetting
  <2>1. CASE s = main.slot
    BY <1>1, <1>2, <2>1 DEF IInv, TypeOK, TableShape, Word
  <2>2. CASE s # main.slot
    BY <1>1, <1>2, <2>2 DEF IInv, TypeOK, TableShape
  <2> QED
    BY <2>1, <2>2
<1>6. AckShape'
  BY DEF StoreBank, IInv, AckShape, devices, kirq
<1> QED
  BY <1>3, <1>4, <1>5, <1>6 DEF IInv

LEMMA SoftwareTrapStep ==
  ASSUME IInv, NEW slot \in Traps, SoftwareTrap(slot)
  PROVE  IInv'
<1>1. trap' \in Contexts /\ trap'.at = "call" /\ trap'.slot \in Traps /\ main = NotSetting
  BY TookFacts, SourceFacts
  DEF SoftwareTrap, MainRuns, NoHandlerRuns, IInv, MainShape
<1>2. TypeOK'
  BY <1>1, SourceFacts DEF SoftwareTrap, IInv, TypeOK, table, devices, kirq, history
<1>3. IrqShape' /\ TrapShape' /\ MainShape'
  BY <1>1, SourceFacts
  DEF SoftwareTrap, MainRuns, NoHandlerRuns, IInv, IrqShape, TrapShape, MainShape,
      NotSetting
<1>4. AckShape' /\ TableShape'
  BY <1>1, SourceFacts
  DEF SoftwareTrap, MainRuns, NoHandlerRuns, IInv, AckShape, TableShape, table,
      devices, kirq
<1> QED
  BY <1>2, <1>3, <1>4 DEF IInv

LEMMA EnterStep ==
  ASSUME IInv, Enter
  PROVE  IInv'
<1>1. irq' \in Contexts /\ irq'.at = "snapshot" /\ irq'.slot = "none"
  BY AtFacts DEF Enter, Labels
<1>2. TypeOK'
  BY <1>1, SourceFacts DEF Enter, IInv, TypeOK, table, devices, history
<1>3. IrqShape' /\ TrapShape' /\ MainShape'
  BY <1>1, SourceFacts
  DEF Enter, NoHandlerRuns, IInv, IrqShape, TrapShape, MainShape, NotSetting
<1>4. AckShape' /\ TableShape'
  BY <1>1, SourceFacts
  DEF Enter, NoHandlerRuns, IInv, AckShape, TableShape, table, devices
<1> QED
  BY <1>2, <1>3, <1>4 DEF IInv

LEMMA EnterForNobodyStep ==
  ASSUME IInv, EnterForNobody
  PROVE  IInv'
<1>1. irq' \in Contexts /\ irq'.at = "snapshot" /\ irq'.slot = "none"
  BY AtFacts DEF EnterForNobody, Labels
<1>2. asserts' \in 0 .. MaxAsserts
  BY IrqAssumption DEF EnterForNobody, IInv, TypeOK
<1>3. TypeOK'
  BY <1>1, <1>2 DEF EnterForNobody, IInv, TypeOK, table, devices, history
<1>4. IrqShape' /\ TrapShape' /\ MainShape'
  BY <1>1 DEF EnterForNobody, NoHandlerRuns, IInv, IrqShape, TrapShape, MainShape
<1>5. AckShape' /\ TableShape'
  BY <1>1 DEF EnterForNobody, IInv, AckShape, TableShape, table
<1> QED
  BY <1>3, <1>4, <1>5 DEF IInv

LEMMA SnapshotStep ==
  ASSUME IInv, Snapshot
  PROVE  IInv'
<1>1. irq' \in Contexts /\ irq'.at = "ack" /\ irq'.slot = "none"
  BY AtFacts DEF Snapshot, Labels
<1>2. TypeOK'
  BY <1>1, SourceFacts DEF Snapshot, IInv, TypeOK, table, devices, history
<1>3. IrqShape' /\ TrapShape' /\ MainShape'
  BY <1>1, SourceFacts
  DEF Snapshot, DispatcherRuns, IInv, IrqShape, TrapShape, MainShape, NotSetting
<1>4. AckShape' /\ TableShape'
  BY <1>1, SourceFacts
  DEF Snapshot, DispatcherRuns, IInv, AckShape, TableShape, table, devices, TypeOK,
      VeraEdges, Levels
<1> QED
  BY <1>2, <1>3, <1>4 DEF IInv

LEMMA AckStep ==
  ASSUME IInv, Ack
  PROVE  IInv'
<1>1. irq' \in Contexts /\ irq'.at = "VSYNC" /\ irq'.slot = "none"
  BY AtFacts, SourceFacts DEF Ack, Order
<1>2. TypeOK'
  BY <1>1, SourceFacts DEF Ack, IInv, TypeOK, table, kirq, history
<1>3. IrqShape' /\ TrapShape' /\ MainShape'
  BY <1>1, SourceFacts
  DEF Ack, DispatcherRuns, IInv, IrqShape, TrapShape, MainShape, NotSetting
<1>4. AckShape' /\ TableShape'
  BY <1>1, SourceFacts
  DEF Ack, DispatcherRuns, IInv, AckShape, TableShape, table, kirq
<1> QED
  BY <1>2, <1>3, <1>4 DEF IInv

LEMMA LookStep ==
  ASSUME IInv, Look
  PROVE  IInv'
<1>1. claimed' \in BOOLEAN
  BY DEF Look, IInv, TypeOK
<1>2f. frames' \in 0 .. (FrameMod - 1)
  <2>1. frames' = frames \/ frames' = (frames + 1) % FrameMod
    BY DEF Look, NextFrame
  <2>2. frames \in 0 .. (FrameMod - 1) /\ frames + 1 \in Nat
    BY IrqAssumption DEF IInv, TypeOK
  <2> QED
    BY <2>1, <2>2, WrapFacts
<1>2. TypeOK'
  BY <1>1, <1>2f, IrqAfterLook DEF Look, IInv, TypeOK, table, devices, history
<1>3. IrqShape' /\ TrapShape' /\ MainShape'
  BY IrqAfterLook, SourceFacts
  DEF Look, IInv, IrqShape, TrapShape, MainShape, NotSetting
<1>4. AckShape' /\ TableShape'
  BY IrqAfterLook, SourceFacts DEF Look, IInv, AckShape, TableShape, table
<1> QED
  BY <1>2, <1>3, <1>4 DEF IInv

LEMMA NobodyStep ==
  ASSUME IInv, Nobody
  PROVE  IInv'
<1>1. TypeOK'
  BY IrqAfterNobody, SourceFacts
  DEF Nobody, IInv, TypeOK, table, devices, kirq, history
<1>2. IrqShape' /\ TrapShape' /\ MainShape'
  BY IrqAfterNobody, SourceFacts
  DEF Nobody, DispatcherRuns, IInv, IrqShape, TrapShape, MainShape, NotSetting
<1>3. AckShape' /\ TableShape'
  BY IrqAfterNobody, SourceFacts
  DEF Nobody, DispatcherRuns, IInv, AckShape, TableShape, table, devices, kirq
<1> QED
  BY <1>1, <1>2, <1>3 DEF IInv

LEMMA CallLowStep ==
  ASSUME IInv, CallLow
  PROVE  IInv'
<1>1. TypeOK'
  BY IrqAfterCall, SourceFacts DEF CallLow, IInv, TypeOK, devices, kirq, history
<1>2. IrqShape' /\ TrapShape' /\ MainShape'
  BY IrqAfterCall, SourceFacts
  DEF CallLow, DispatcherRuns, IInv, IrqShape, TrapShape, MainShape, NotSetting
<1>3. AckShape' /\ TableShape'
  BY IrqAfterCall, SourceFacts
  DEF CallLow, DispatcherRuns, IInv, AckShape, TableShape, devices, kirq
<1> QED
  BY <1>1, <1>2, <1>3 DEF IInv

LEMMA CallBankStep ==
  ASSUME IInv, CallBank
  PROVE  IInv'
<1>1. TypeOK'
  BY IrqAfterCall, SourceFacts DEF CallBank, IInv, TypeOK, devices, kirq
<1>2. IrqShape' /\ TrapShape' /\ MainShape'
  BY IrqAfterCall, SourceFacts
  DEF CallBank, DispatcherRuns, IInv, IrqShape, TrapShape, MainShape, NotSetting
<1>3. AckShape' /\ TableShape'
  BY IrqAfterCall, SourceFacts
  DEF CallBank, DispatcherRuns, IInv, AckShape, TableShape, devices, kirq
<1> QED
  BY <1>1, <1>2, <1>3 DEF IInv

LEMMA JumpStep ==
  ASSUME IInv, Jump
  PROVE  IInv'
<1>1. TypeOK'
  BY IrqAfterCall, SourceFacts DEF Jump, IInv, TypeOK, table, devices, kirq, history
<1>2. IrqShape' /\ TrapShape' /\ MainShape'
  BY IrqAfterCall, SourceFacts
  DEF Jump, DispatcherRuns, IInv, IrqShape, TrapShape, MainShape, NotSetting
<1>3. AckShape' /\ TableShape'
  BY IrqAfterCall, SourceFacts
  DEF Jump, DispatcherRuns, IInv, AckShape, TableShape, table, devices, kirq
<1> QED
  BY <1>1, <1>2, <1>3 DEF IInv

LEMMA HandlerReturnsStep ==
  ASSUME IInv, HandlerReturns
  PROVE  IInv'
<1>1. TypeOK'
  BY IrqAfterService, SourceFacts
  DEF HandlerReturns, IInv, TypeOK, table, kirq, history
<1>2. IrqShape' /\ TrapShape' /\ MainShape'
  BY IrqAfterService, SourceFacts
  DEF HandlerReturns, DispatcherRuns, IInv, IrqShape, TrapShape, MainShape,
      NotSetting
<1>3. AckShape' /\ TableShape'
  BY IrqAfterService, SourceFacts
  DEF HandlerReturns, DispatcherRuns, IInv, AckShape, TableShape, table, kirq
<1> QED
  BY <1>1, <1>2, <1>3 DEF IInv

LEMMA SilenceStep ==
  ASSUME IInv, Silence
  PROVE  IInv'
<1>1. TypeOK'
  BY IrqAfterService, SourceFacts DEF Silence, IInv, TypeOK, table, history
<1>2. IrqShape' /\ TrapShape' /\ MainShape'
  BY IrqAfterService, SourceFacts
  DEF Silence, DispatcherRuns, IInv, IrqShape, TrapShape, MainShape, NotSetting
<1>3. AckShape' /\ TableShape'
  BY IrqAfterService, SourceFacts
  DEF Silence, DispatcherRuns, IInv, AckShape, TableShape, table
<1> QED
  BY <1>1, <1>2, <1>3 DEF IInv

LEMMA NmiStep ==
  ASSUME IInv, Nmi
  PROVE  IInv'
<1>1. trap' \in Contexts /\ trap'.at = "call" /\ trap'.slot = "NMI" /\ "NMI" \in Traps
  BY TookFacts, SourceFacts DEF Nmi, Traps
<1>2. TypeOK'
  BY <1>1 DEF Nmi, IInv, TypeOK, table, devices, kirq, history
<1>3. IrqShape' /\ MainShape'
  BY <1>1 DEF Nmi, IInv, IrqShape, MainShape
<1>4. TrapShape'
  BY <1>1 DEF TrapShape
<1>5. AckShape' /\ TableShape'
  BY DEF Nmi, IInv, AckShape, TableShape, table, devices, kirq
<1> QED
  BY <1>2, <1>3, <1>4, <1>5 DEF IInv

LEMMA TrapStepStep ==
  ASSUME IInv, TrapStep
  PROVE  IInv'
<1>1. TypeOK'
  BY TrapMoves, SourceFacts DEF TrapStep, IInv, TypeOK, devices, kirq, history
<1>2. IrqShape' /\ TrapShape' /\ MainShape'
  BY TrapMoves, SourceFacts
  DEF TrapStep, IInv, IrqShape, TrapShape, MainShape, NotSetting
<1>3. AckShape' /\ TableShape'
  BY TrapMoves, SourceFacts DEF TrapStep, IInv, AckShape, TableShape, devices, kirq
<1> QED
  BY <1>1, <1>2, <1>3 DEF IInv

\* Every step preserves the invariant.
LEMMA StepInv == IInv /\ [Next]_vars => IInv'
<1> SUFFICES ASSUME IInv, [Next]_vars PROVE IInv'
  OBVIOUS
<1>1. CASE \E s \in Sources : Raise(s) \/ Enable(s) \/ Poll(s)
  BY <1>1, RaiseStep, EnableStep, PollStep
<1>2. CASE \E p \in Installs : SetSlot(p[1], p[2])
  BY <1>2, SetSlotStep
<1>3. CASE Mask \/ StoreLow \/ StoreBank
  BY <1>3, MaskStep, StoreLowStep, StoreBankStep
<1>4. CASE Enter \/ EnterForNobody \/ Snapshot \/ Ack \/ Look \/ Nobody
  BY <1>4, EnterStep, EnterForNobodyStep, SnapshotStep, AckStep, LookStep,
     NobodyStep
<1>5. CASE CallLow \/ CallBank \/ Jump \/ HandlerReturns \/ Silence
  BY <1>5, CallLowStep, CallBankStep, JumpStep, HandlerReturnsStep, SilenceStep
<1>6. CASE Nmi \/ TrapStep \/ \E slot \in Traps : SoftwareTrap(slot)
  BY <1>6, NmiStep, TrapStepStep, SoftwareTrapStep
<1>7. CASE UNCHANGED vars
  BY <1>7
  DEF vars, table, devices, kirq, history, IInv, TypeOK, IrqShape, TrapShape,
              MainShape, AckShape, TableShape
<1> QED
  BY <1>1, <1>2, <1>3, <1>4, <1>5, <1>6, <1>7 DEF Next, MainStep, DispatcherStep

\* The words, bits and counters of kirq.s keep their widths.
THEOREM TypesHold == Spec => []TypeOK
<1>1. Init => IInv
  BY InitInv
<1>2. IInv /\ [Next]_vars => IInv'
  BY StepInv
<1>3. IInv => TypeOK
  BY DEF IInv
<1> QED
  BY <1>1, <1>2, <1>3, PTL DEF Spec

\* Ranks order the sources, and the next source is the next rank.
LEMMA SlotRank ==
  /\ \A s \in Sources : RankOf(s) \in 1 .. 7
  /\ \A s \in VeraEdges : RankOf("VSYNC") <= RankOf(s)
  /\ \A s, t \in Sources : RankOf(s) = RankOf(t) => s = t
  /\ \A s \in VeraEdges, t \in Sources :
       RankOf(t) < RankOf(s) => After(t) \in Sources /\ RankOf(After(t)) <= RankOf(s)
BY RankFacts, AfterFacts, SourceFacts DEF VeraEdges

\* An edge that is owed stays in the ISR until it is in a snapshot whose dispatch
\* has yet to come to it, and stays in that snapshot until it is called for.
LEMMA EdgeStep == IInv /\ NoEdgeLost /\ [Next]_vars => NoEdgeLost'
<1> SUFFICES ASSUME IInv, NoEdgeLost, [Next]_vars
             PROVE  NoEdgeLost'
  OBVIOUS
<1> SUFFICES ASSUME NEW s \in VeraEdges, s \in owed', s \notin isr'
             PROVE  StillToCome(s)'
  <2>1. TypeOK'
    BY StepInv DEF IInv
  <2> QED
    BY <2>1 DEF NoEdgeLost, TypeOK
<1>0. /\ s \in Sources /\ s \in Vera /\ irq \in Contexts
      /\ s \in owed => s \in isr \/ StillToCome(s)
  BY SourceFacts DEF NoEdgeLost, IInv, TypeOK
<1>1. CASE \/ \E t \in Sources : Raise(t) \/ Enable(t) \/ Poll(t)
           \/ \E p \in Installs : SetSlot(p[1], p[2])
           \/ Mask \/ StoreLow \/ StoreBank \/ Nmi \/ TrapStep
           \/ \E slot \in Traps : SoftwareTrap(slot)
           \/ UNCHANGED vars
  <2>1. irq' = irq /\ snap' = snap /\ s \in owed /\ s \notin isr
    BY <1>1
    DEF Raise, Enable, Poll, SetSlot, Mask, StoreLow, StoreBank, Nmi, TrapStep,
                SoftwareTrap, vars, devices, kirq, history
  <2> QED
    BY <1>0, <2>1 DEF StillToCome
<1>2. CASE Enter \/ EnterForNobody \/ Snapshot \/ Nobody
  <2>1. s \in owed /\ s \notin isr /\ irq.at \in {"out", "snapshot", "nobody"}
    BY <1>2
    DEF Enter, EnterForNobody, Snapshot, Nobody, NoHandlerRuns, devices, history
  <2>2. irq.slot = "none"
    BY <2>1, SourceFacts DEF IInv, IrqShape
  <2> QED
    BY <1>0, <2>1, <2>2, SourceFacts DEF StillToCome
<1>3. CASE Ack
  <2>1. irq'.at = "VSYNC"
    BY <1>3, AtFacts, SourceFacts DEF Ack, Order
  <2>2. CASE s \in isr
    BY <1>0, <1>3, <2>1, <2>2, SlotRank, SourceFacts DEF Ack, StillToCome, kirq
  <2>3. CASE s \notin isr
    BY <1>0, <1>3, <2>3, SourceFacts DEF Ack, StillToCome, IInv, IrqShape, history
  <2> QED
    BY <2>2, <2>3
<1>4. CASE Look
  <2>1. s \in owed /\ s \notin isr /\ snap' = snap /\ s \in snap
        /\ irq.at \in Sources /\ irq.slot = "none" /\ RankOf(irq.at) <= RankOf(s)
    BY <1>0, <1>4, SourceFacts
    DEF Look, devices, history, StillToCome, IInv, IrqShape
  <2>2. CASE ~ Found(irq.at)
    <3>1. irq.at # s
      BY <1>0, <2>1, <2>2 DEF Found, VeraEdges
    <3>2. RankOf(irq.at) < RankOf(s)
      BY <1>0, <2>1, <3>1, SlotRank
    <3> QED
      BY <1>4, <2>1, <2>2, <3>2, SlotRank, IrqAfterLook DEF StillToCome
  <2>3. CASE Found(irq.at)
    BY <1>0, <1>4, <2>1, <2>3, SlotRank, IrqAfterLook DEF StillToCome
  <2> QED
    BY <2>2, <2>3
<1>5. CASE CallLow \/ CallBank \/ Jump
  <2>1. s \in owed /\ s \notin isr /\ snap' = snap /\ irq'.slot = irq.slot
        /\ irq.at \in {"call", "bank", "jump"}
    BY <1>5, IrqAfterCall DEF CallLow, CallBank, Jump, devices, history, kirq
  <2>2. /\ s \in snap
        /\ \/ irq.slot \in Sources /\ RankOf(irq.slot) < RankOf(s)
           \/ irq.slot = s /\ irq.at \in {"call", "bank"}
    <3>1. irq.at \notin Sources
      BY <2>1, SourceFacts
    <3> QED
      BY <1>0, <2>1, <3>1 DEF StillToCome
  <2>3. CASE CallBank
    BY <1>0, <2>1, <2>2, <2>3 DEF CallBank, StillToCome
  <2>4. CASE CallLow \/ Jump
    BY <2>1, <2>2, <2>4, IrqAfterCall DEF StillToCome
  <2> QED
    BY <1>5, <2>3, <2>4
<1>6. CASE HandlerReturns \/ Silence
  <2>1. s \in owed /\ s \notin isr /\ snap' = snap /\ irq.at \in {"handler", "none"}
    BY <1>6 DEF HandlerReturns, Silence, history, kirq
  <2>2. s \in snap /\ irq.slot \in Sources /\ RankOf(irq.slot) < RankOf(s)
    BY <1>0, <2>1, SourceFacts DEF StillToCome
  <2> QED
    BY <1>6, <2>1, <2>2, SlotRank, IrqAfterService DEF StillToCome
<1> QED
  BY <1>1, <1>2, <1>3, <1>4, <1>5, <1>6 DEF Next, MainStep, DispatcherStep

\* kirq.s:363: no edge of an enabled source is lost, whatever is raised, enabled,
\* disabled or installed while a dispatch is on its way.
THEOREM EdgesAreServed == Spec => []NoEdgeLost
<1>1. Init => IInv /\ NoEdgeLost
  BY InitInv DEF Init, NoEdgeLost
<1>2. IInv /\ NoEdgeLost /\ [Next]_vars => (IInv /\ NoEdgeLost)'
  BY StepInv, EdgeStep
<1> QED
  BY <1>1, <1>2, PTL DEF Spec

\* kirq.s:74: the dispatcher never takes the ISR bit of a source that is disabled.
THEOREM DisabledEdgesStay == Spec => DisabledKeepsItsBit
<1>1. IInv /\ [Next]_vars
        => [\A s \in VeraEdges :
              s \in isr /\ s \notin ien => s \in isr' \/ NoHandlerRuns]_vars
  <2> SUFFICES ASSUME IInv, Next,
                      NEW s \in VeraEdges, s \in isr, s \notin ien, s \notin isr'
               PROVE  NoHandlerRuns
    OBVIOUS
  <2>1. CASE Ack
    BY <2>1 DEF Ack, IInv, AckShape
  <2>2. CASE \E t \in Sources : Raise(t) \/ Enable(t) \/ Poll(t)
    BY <2>2 DEF Raise, Enable, Poll, MainRuns
  <2>3. CASE \/ \E p \in Installs : SetSlot(p[1], p[2])
             \/ Mask \/ StoreLow \/ StoreBank \/ Enter \/ EnterForNobody
             \/ \E slot \in Traps : SoftwareTrap(slot)
    BY <2>3 DEF SetSlot, Mask, StoreLow, StoreBank, Enter, EnterForNobody,
                SoftwareTrap, devices
  <2>4. CASE \/ Snapshot \/ Look \/ Nobody \/ CallLow \/ CallBank \/ Jump
             \/ HandlerReturns \/ Silence \/ Nmi \/ TrapStep
    BY <2>4 DEF Snapshot, Look, Nobody, CallLow, CallBank, Jump, HandlerReturns,
                Silence, Nmi, TrapStep, devices
  <2> QED
    BY <2>1, <2>2, <2>3, <2>4 DEF Next, MainStep, DispatcherStep
<1>2. Spec => []IInv
  BY InitInv, StepInv, PTL DEF Spec
<1> QED
  BY <1>1, <1>2, PTL DEF Spec, DisabledKeepsItsBit

\* A number below twice the modulus wraps at most once.
LEMMA WrapOnce ==
  ASSUME NEW n \in 0 .. (2 * FrameMod - 1)
  PROVE  n % FrameMod = IF n < FrameMod THEN n ELSE n - FrameMod
<1>1. FrameMod \in Nat /\ FrameMod > 1
  BY IrqAssumption
<1>2. CASE n < FrameMod
  BY <1>1, <1>2
<1>3. CASE n >= FrameMod
  <2> DEFINE m == n - FrameMod
  <2>1. m \in 0 .. (FrameMod - 1) /\ n = m + FrameMod
    BY <1>1, <1>3
  <2> HIDE DEF m
  <2>2. (m + FrameMod) % FrameMod = m
    BY <1>1, <2>1
  <2> QED
    BY <1>1, <1>3, <2>1, <2>2
<1> QED
  BY <1>1, <1>2, <1>3

\* Counting one more, and moving one from uncounted to counted, agree with the
\* 16-bit counter on both sides of its wrap.
LEMMA CountAcrossTheWrap ==
  ASSUME NEW f \in 0 .. (FrameMod - 1), NEW u \in 0 .. 2
  PROVE  /\ u < 2 => (f + (u + 1)) % FrameMod = (((f + u) % FrameMod) + 1) % FrameMod
         /\ u > 0 => (((f + 1) % FrameMod) + (u - 1)) % FrameMod = (f + u) % FrameMod
<1>1. FrameMod \in Nat /\ FrameMod > 1
  BY IrqAssumption
<1>2. ASSUME u < 2
      PROVE  (f + (u + 1)) % FrameMod = (((f + u) % FrameMod) + 1) % FrameMod
  <2>1. /\ f + u \in 0 .. (2 * FrameMod - 1)
        /\ f + (u + 1) \in 0 .. (2 * FrameMod - 1)
    BY <1>1, <1>2
  <2>2. CASE f + u < FrameMod
    BY <1>1, <2>1, <2>2, WrapOnce
  <2>3. CASE f + u >= FrameMod
    <3>1. (f + u) % FrameMod = f + u - FrameMod
      BY <1>1, <2>1, <2>3, WrapOnce
    <3>2. (f + (u + 1)) % FrameMod = f + (u + 1) - FrameMod
      BY <1>1, <2>1, <2>3, WrapOnce
    <3>3. /\ f + (u + 1) - FrameMod \in 0 .. (2 * FrameMod - 1)
          /\ f + (u + 1) - FrameMod < FrameMod
      BY <1>1, <1>2, <2>1, <2>3
    <3>4. (f + (u + 1) - FrameMod) % FrameMod = f + (u + 1) - FrameMod
      BY <3>3, WrapOnce
    <3> QED
      BY <1>1, <3>1, <3>2, <3>4
  <2> QED
    BY <1>1, <2>2, <2>3
<1>3. ASSUME u > 0
      PROVE  (((f + 1) % FrameMod) + (u - 1)) % FrameMod = (f + u) % FrameMod
  <2>1. CASE f + 1 < FrameMod
    <3>1. (f + 1) % FrameMod = f + 1
      BY <1>1, <2>1, WrapOnce
    <3> QED
      BY <1>1, <1>3, <3>1
  <2>2. CASE f + 1 = FrameMod
    <3>1. (f + 1) % FrameMod = 0
      BY <1>1, <2>2, WrapOnce
    <3>2. f + u = (u - 1) + FrameMod /\ u - 1 \in 0 .. (FrameMod - 1)
      BY <1>1, <1>3, <2>2
    <3>3. (f + u) % FrameMod = u - 1 /\ (u - 1) % FrameMod = u - 1
      BY <1>1, <3>2, WrapOnce
    <3> QED
      BY <1>3, <3>1, <3>3
  <2> QED
    BY <1>1, <2>1, <2>2
<1> QED
  BY <1>2, <1>3

\* Two counters that wrap, added: one more in the first is one more in the sum.
LEMMA OneMoreInASum ==
  ASSUME NEW c \in 0 .. (FrameMod - 1), NEW d \in 0 .. (FrameMod - 1)
  PROVE  /\ (((c + 1) % FrameMod) + d) % FrameMod = (((c + d) % FrameMod) + 1) % FrameMod
         /\ (c + ((d + 1) % FrameMod)) % FrameMod = (((c + d) % FrameMod) + 1) % FrameMod
<1>1. FrameMod \in Nat /\ FrameMod > 1
  BY IrqAssumption
<1>2. ASSUME NEW x \in 0 .. (FrameMod - 1), NEW y \in 0 .. (FrameMod - 1)
      PROVE  (((x + 1) % FrameMod) + y) % FrameMod = (((x + y) % FrameMod) + 1) % FrameMod
  <2>1. CASE x + y + 1 < FrameMod
    <3>1. (x + 1) % FrameMod = x + 1 /\ (x + y) % FrameMod = x + y
      BY <1>1, <2>1, WrapOnce
    <3> QED
      BY <1>1, <3>1
  <2>2. CASE x + y + 1 = FrameMod
    <3>1. (x + y) % FrameMod = x + y
      BY <1>1, <2>2, WrapOnce
    <3>2. CASE x + 1 = FrameMod
      <4>1. (x + 1) % FrameMod = 0 /\ y = 0
        BY <1>1, <2>2, <3>2, WrapOnce
      <4>2. (x + y) + 1 = FrameMod
        BY <1>1, <2>2
      <4> QED
        BY <1>1, <3>1, <4>1, <4>2, <3>2
    <3>3. CASE x + 1 < FrameMod
      <4>1. (x + 1) % FrameMod = x + 1
        BY <1>1, <3>3, WrapOnce
      <4> QED
        BY <1>1, <3>1, <4>1
    <3> QED
      BY <1>1, <3>2, <3>3
  <2>3. CASE x + y + 1 > FrameMod
    <3>1. (x + y) % FrameMod = x + y - FrameMod
      BY <1>1, <2>3, WrapOnce
    <3>2. (x + y - FrameMod + 1) % FrameMod = x + y - FrameMod + 1
      BY <1>1, <2>3, WrapOnce
    <3>3. CASE x + 1 = FrameMod
      <4>1. (x + 1) % FrameMod = 0 /\ y % FrameMod = y
        BY <1>1, <3>3, WrapOnce
      <4> QED
        BY <1>1, <3>1, <3>2, <3>3, <4>1
    <3>4. CASE x + 1 < FrameMod
      <4>1. (x + 1) % FrameMod = x + 1
        BY <1>1, <3>4, WrapOnce
      <4>2. (x + 1 + y) % FrameMod = x + 1 + y - FrameMod
        BY <1>1, <2>3, WrapOnce
      <4> QED
        BY <1>1, <3>1, <3>2, <4>1, <4>2
    <3> QED
      BY <1>1, <3>3, <3>4
  <2> QED
    BY <1>1, <2>1, <2>2, <2>3
<1>3. d + c = c + d /\ c + ((d + 1) % FrameMod) = ((d + 1) % FrameMod) + c
  BY <1>1, WrapFacts
<1> QED
  BY <1>2, <1>3

\* A vertical blank is in the ISR, in the snapshot the dispatcher is about to look
\* at, or counted, and moves from one to the next; or it merged with the one in the
\* ISR.
LEMMA FrameStep ==
  ASSUME "VSYNC" \notin Programmed, IInv, FramesCountedOrMerged, [Next]_vars
  PROVE  FramesCountedOrMerged'
<1>1. /\ FrameMod \in Nat /\ FrameMod > 1 /\ frames \in 0 .. (FrameMod - 1)
      /\ merged \in 0 .. (FrameMod - 1) /\ FramesTaken \in 0 .. (FrameMod - 1)
      /\ VsyncsUncounted \in 0 .. 2 /\ vsyncs = (FramesTaken + merged) % FrameMod
  BY IrqAssumption, WrapFacts
  DEF IInv, TypeOK, VsyncsUncounted, FramesTaken, FramesCountedOrMerged
<1> DEFINE Quiet == /\ frames' = frames /\ vsyncs' = vsyncs /\ merged' = merged
                    /\ VsyncsUncounted' = VsyncsUncounted
<1>2. Quiet => FramesCountedOrMerged'
  BY DEF FramesCountedOrMerged, FramesTaken
<1>3. CASE \E s \in Sources : Raise(s)
  <2>1. PICK s \in Sources : Raise(s)
    BY <1>3
  <2>2. CASE s = "VSYNC"
    <3>1. /\ "VSYNC" \in isr' /\ vsyncs' = (vsyncs + 1) % FrameMod
          /\ merged' = IF "VSYNC" \in isr THEN (merged + 1) % FrameMod ELSE merged
          /\ frames' = frames /\ snap' = snap /\ irq' = irq
      BY <2>1, <2>2 DEF Raise, OneMore, Levels, kirq
    <3>2. CASE "VSYNC" \in isr
      <4>1. FramesTaken' = FramesTaken
        BY <3>1, <3>2 DEF FramesTaken, VsyncsUncounted
      <4>2. (FramesTaken + ((merged + 1) % FrameMod)) % FrameMod = vsyncs'
        BY <1>1, <3>1, OneMoreInASum
      <4> QED
        BY <3>1, <3>2, <4>1, <4>2 DEF FramesCountedOrMerged
    <3>3. CASE "VSYNC" \notin isr
      <4>1. VsyncsUncounted < 2 /\ VsyncsUncounted' = VsyncsUncounted + 1
        BY <3>1, <3>3 DEF VsyncsUncounted
      <4>2. FramesTaken' = (FramesTaken + 1) % FrameMod
        BY <1>1, <3>1, <4>1, CountAcrossTheWrap DEF FramesTaken
      <4>3. (((FramesTaken + 1) % FrameMod) + merged) % FrameMod = vsyncs'
        BY <1>1, <3>1, OneMoreInASum
      <4> QED
        BY <3>1, <3>3, <4>2, <4>3 DEF FramesCountedOrMerged
    <3> QED
      BY <3>2, <3>3
  <2>3. CASE s # "VSYNC"
    <3>1. Quiet
      BY <2>1, <2>3 DEF Raise, kirq, history, VsyncsUncounted
    <3> QED
      BY <1>2, <3>1
  <2> QED
    BY <2>2, <2>3
<1>4. CASE Ack
  <2>1. irq.at = "ack" /\ irq'.at = "VSYNC" /\ "VSYNC" \in VeraEdges
    BY <1>4, AtFacts, SourceFacts DEF Ack, Order, VeraEdges
  <2>2. Quiet
    BY <1>4, <2>1 DEF Ack, kirq, history, VsyncsUncounted, IInv, AckShape
  <2> QED
    BY <1>2, <2>2
<1>5. CASE Look
  <2>1. isr' = isr /\ snap' = snap /\ vsyncs' = vsyncs /\ merged' = merged
    BY <1>5 DEF Look, devices, history
  <2>2. CASE irq.at = "VSYNC" /\ Found("VSYNC")
    <3>1. "VSYNC" \in snap /\ frames' = (frames + 1) % FrameMod /\ irq'.at = "call"
      BY <1>5, <2>2, IrqAfterLook, SourceFacts
      DEF Look, NextFrame, Found, Vera, VeraEdges
    <3>2. VsyncsUncounted > 0 /\ VsyncsUncounted' = VsyncsUncounted - 1
      BY <2>1, <2>2, <3>1 DEF VsyncsUncounted
    <3> QED
      <4>1. FramesTaken' = FramesTaken
        BY <1>1, <3>1, <3>2, CountAcrossTheWrap DEF FramesTaken
      <4> QED
        BY <2>1, <4>1 DEF FramesCountedOrMerged
  <2>3. CASE irq.at = "VSYNC" /\ ~ Found("VSYNC")
    <3>1. "VSYNC" \notin snap /\ frames' = frames
      BY <1>5, <2>3 DEF Look, Found, Vera, VeraEdges
    <3> QED
      BY <1>2, <2>1, <3>1 DEF VsyncsUncounted
  <2>4. CASE irq.at # "VSYNC"
    <3>1. frames' = frames
      BY <1>5, <2>4 DEF Look
    <3>2. irq'.at # "VSYNC"
      BY <1>5, <2>4, IrqAfterLook, AfterFacts, SourceFacts
    <3> QED
      BY <1>2, <2>1, <2>4, <3>1, <3>2 DEF VsyncsUncounted
  <2> QED
    BY <2>2, <2>3, <2>4
<1>6. CASE \/ Enter \/ EnterForNobody \/ Snapshot \/ Nobody \/ CallLow \/ CallBank
           \/ Jump \/ HandlerReturns \/ Silence
  <2>1. /\ frames' = frames /\ vsyncs' = vsyncs /\ merged' = merged /\ isr' = isr
        /\ irq.at \in {"out", "snapshot", "nobody"} \cup Calling
    BY <1>6, IrqAfterCall, IrqAfterService
    DEF Enter, EnterForNobody, Snapshot, Nobody, CallLow, CallBank, Jump, HandlerReturns,
        Silence, NoHandlerRuns, kirq, history, devices
  <2>2. CASE Enter \/ EnterForNobody \/ Snapshot
    <3>1. irq'.at # "VSYNC"
      BY <2>2, AtFacts DEF Enter, EnterForNobody, Snapshot, Labels
    <3> QED
      BY <1>2, <2>1, <3>1 DEF VsyncsUncounted
  <2>3. CASE Nobody \/ CallLow \/ CallBank \/ Jump
    <3>1. irq'.at # "VSYNC"
      BY <2>3, IrqAfterNobody, IrqAfterCall
    <3> QED
      BY <1>2, <2>1, <3>1 DEF VsyncsUncounted
  <2>4. CASE HandlerReturns \/ Silence
    <3>1. irq'.at # "VSYNC"
      <4>1. CASE irq.slot = "SPURIOUS"
        BY <2>4, <4>1, IdleFacts DEF HandlerReturns, Silence, Continue
      <4>2. CASE irq.slot \in Sources
        BY <2>4, <4>2, IrqAfterService, AfterFacts, SourceFacts
      <4> QED
        BY <2>4, <4>1, <4>2, IrqAfterService
    <3> QED
      BY <1>2, <2>1, <3>1 DEF VsyncsUncounted
  <2> QED
    BY <1>6, <2>2, <2>3, <2>4
<1>7. CASE \E s \in Sources : Poll(s)
  <2>1. Quiet
    BY <1>7 DEF Poll, kirq, VsyncsUncounted
  <2> QED
    BY <1>2, <2>1
<1>8. CASE \/ \E s \in Sources : Enable(s)
           \/ \E p \in Installs : SetSlot(p[1], p[2])
           \/ Mask \/ StoreLow \/ StoreBank \/ Nmi \/ TrapStep
           \/ \E slot \in Traps : SoftwareTrap(slot)
           \/ UNCHANGED vars
  <2>1. Quiet
    BY <1>8
    DEF Enable, SetSlot, Mask, StoreLow, StoreBank, Nmi, TrapStep, SoftwareTrap,
                vars, devices, kirq, history, VsyncsUncounted
  <2> QED
    BY <1>2, <2>1
<1> QED
  BY <1>3, <1>4, <1>5, <1>6, <1>7, <1>8 DEF Next, MainStep, DispatcherStep

\* kirq.s:628 and 635: every vertical blank is counted once, or came while the bit
\* of the one before was still set and is counted with it; so the elapsed count is
\* short by the merged ones and by no others.  A program that turns VSYNC off and
\* polls for it takes blanks the kernel then never counts; the hypothesis is that it
\* leaves VSYNC alone.
THEOREM BlanksAreCountedOrMerged ==
  ASSUME "VSYNC" \notin Programmed
  PROVE  Spec => []FramesCountedOrMerged
<1>1. Init => IInv /\ FramesCountedOrMerged
  <2> SUFFICES ASSUME Init PROVE FramesCountedOrMerged
    BY InitInv
  <2>1. VsyncsUncounted = 0 /\ frames = 0 /\ merged = 0 /\ vsyncs = 0
    BY DEF Init, VsyncsUncounted
  <2>2. 0 % FrameMod = 0
    BY WrapOnce, IrqAssumption
  <2> QED
    BY <2>1, <2>2 DEF FramesCountedOrMerged, FramesTaken
<1>2. IInv /\ FramesCountedOrMerged /\ [Next]_vars => (IInv /\ FramesCountedOrMerged)'
  BY StepInv, FrameStep
<1> QED
  BY <1>1, <1>2, PTL DEF Spec

\* What the pointer of kirq_call holds while c is in it.
Points(c) ==
  /\ c.at = "bank" => tgt.lo = vec[c.slot].lo
  /\ c.at = "jump" => tgt = vec[c.slot] /\ tgt # Empty
  /\ c.at = "handler" => c.ran = vec[c.slot] /\ c.ran # Empty
\* The dispatcher and a trap never share the pointer.
OneDispatch == trap.at # "out" => irq.at = "out"
\* The pointer follows the slot it was loaded from.
PointerInv == OneDispatch /\ Points(irq) /\ Points(trap)

\* The pointer has one user at a time, and the table stands still while it is used.
LEMMA PointerStep ==
  ASSUME "dispatch" \notin NmiIn, IInv, PointerInv, [Next]_vars
  PROVE  PointerInv'
<1>1. /\ tgt \in Addresses /\ irq \in Contexts /\ trap \in Contexts /\ TypeOK
      /\ irq.at \in Calling => irq.slot \in Slots
      /\ trap.at \in Calling => trap.slot \in Slots
      /\ \A s \in Slots : vec[s] \in Addresses
  BY SourceFacts DEF IInv, TypeOK, IrqShape, TrapShape
<1>2. CASE \E s \in Sources : Raise(s) \/ Enable(s) \/ Poll(s)
  BY <1>2 DEF Raise, Enable, Poll, table, PointerInv, OneDispatch, Points
<1>3. CASE \/ \E p \in Installs : SetSlot(p[1], p[2])
           \/ Mask \/ StoreLow \/ StoreBank
  <2>1. irq' = irq /\ trap' = trap /\ irq.at = "out" /\ trap.at = "out"
    BY <1>3 DEF SetSlot, Mask, StoreLow, StoreBank, MainRuns, NoHandlerRuns
  <2> QED
    BY <2>1 DEF PointerInv, OneDispatch, Points
<1>4. CASE \/ Nmi \/ \E slot \in Traps : SoftwareTrap(slot)
  <2>1. irq' = irq /\ irq.at = "out" /\ trap'.at = "call"
    BY <1>4, TookFacts, SourceFacts
    DEF Nmi, SoftwareTrap, MainRuns, NoHandlerRuns, Traps
  <2> QED
    BY <2>1 DEF PointerInv, OneDispatch, Points
<1>5. CASE \/ Enter \/ EnterForNobody \/ Snapshot \/ Ack \/ Look \/ Nobody
           \/ HandlerReturns \/ Silence
  <2>1. trap' = trap /\ trap.at = "out"
    BY <1>5 DEF Enter, EnterForNobody, Snapshot, Ack, Look, Nobody, HandlerReturns,
                Silence, NoHandlerRuns, DispatcherRuns
  <2>2. irq'.at \in Looking \cup {"out", "call"}
    BY <1>5, AtFacts, IrqAfterLook, IrqAfterNobody, IrqAfterService, SourceFacts
    DEF Enter, EnterForNobody, Snapshot, Ack, Order, Labels
  <2>3. irq'.at \notin {"bank", "jump", "handler"}
    BY <2>2, SourceFacts
  <2> QED
    BY <2>1, <2>3 DEF PointerInv, OneDispatch, Points
<1>6. CASE CallLow \/ CallBank \/ Jump
  <2>1. trap' = trap /\ trap.at = "out" /\ vec' = vec /\ irq.at \in Calling
    BY <1>6, IrqAfterCall DEF CallLow, CallBank, Jump, DispatcherRuns, table
  <2>2. irq.slot \in Slots /\ vec[irq.slot] \in Addresses
    BY <1>1, <2>1
  <2>3. CASE CallLow
    <3>1. tgt' = [lo |-> vec[irq.slot].lo, bank |-> tgt.bank]
      BY <1>1, <2>2, <2>3, LoadFacts DEF CallLow
    <3> QED
      BY <2>1, <2>3, <3>1, IrqAfterCall DEF PointerInv, OneDispatch, Points
  <2>4. CASE CallBank
    <3>1. tgt' = [lo |-> vec[irq.slot].lo, bank |-> vec[irq.slot].bank]
      BY <1>1, <2>2, <2>4, LoadFacts DEF CallBank, LoadBank, PointerInv, Points
    <3>2. tgt' = vec[irq.slot]
      BY <2>2, <3>1 DEF Addresses
    <3> QED
      BY <2>1, <2>4, <3>2, IrqAfterCall DEF PointerInv, OneDispatch, Points
  <2>5. CASE Jump
    BY <1>6, <2>1, <2>5, IrqAfterCall DEF PointerInv, OneDispatch, Points
  <2> QED
    BY <1>6, <2>3, <2>4, <2>5
<1>7. CASE TrapStep
  <2>1. irq' = irq /\ irq.at = "out" /\ vec' = vec /\ trap.at \in Calling
    BY <1>7 DEF TrapStep, LoadLow, LoadBank, PointerInv, OneDispatch
  <2>2. trap.slot \in Slots /\ vec[trap.slot] \in Addresses
    BY <1>1, <2>1
  <2>3. CASE LoadLow(trap) /\ trap' = Loaded(trap)
    <3>1. tgt' = [lo |-> vec[trap.slot].lo, bank |-> tgt.bank]
      BY <1>1, <2>2, <2>3, LoadFacts
    <3>2. trap'.at = "bank" /\ trap'.slot = trap.slot
      BY <1>1, <2>3, CallFacts
    <3> QED
      BY <2>1, <3>1, <3>2 DEF PointerInv, OneDispatch, Points
  <2>4. CASE LoadBank(trap) /\ trap' = Tested(trap)
    <3>1. tgt' = [lo |-> vec[trap.slot].lo, bank |-> vec[trap.slot].bank]
      BY <1>1, <2>2, <2>4, LoadFacts DEF LoadBank, PointerInv, Points
    <3>2. tgt' = vec[trap.slot]
      BY <2>2, <3>1 DEF Addresses
    <3>3. trap'.at = (IF tgt' = Empty THEN "none" ELSE "jump") /\ trap'.slot = trap.slot
      BY <1>1, <2>4, CallFacts
    <3> QED
      BY <2>1, <3>2, <3>3 DEF PointerInv, OneDispatch, Points
  <2>5. CASE trap.at = "jump" /\ trap' = Jumped(trap) /\ UNCHANGED tgt
    <3>1. trap'.at = "handler" /\ trap'.slot = trap.slot /\ trap'.ran = tgt
      BY <1>1, <2>5, CallFacts
    <3> QED
      BY <2>1, <2>5, <3>1 DEF PointerInv, OneDispatch, Points
  <2>6. CASE trap' = Idle
    BY <2>1, <2>6, IdleFacts DEF PointerInv, OneDispatch, Points
  <2> QED
    BY <1>7, <2>3, <2>4, <2>5, <2>6 DEF TrapStep
<1>8. CASE UNCHANGED vars
  BY <1>8 DEF vars, table, PointerInv, OneDispatch, Points
<1> QED
  BY <1>2, <1>3, <1>4, <1>5, <1>6, <1>7, <1>8 DEF Next, MainStep, DispatcherStep

\* A pointer that follows its slot is whole unless its slot is torn.
LEMMA PointersAreWhole ==
  ASSUME IInv, PointerInv
  PROVE  /\ RunsItsHandler(irq)
         /\ (\A h : <<"NMI", h>> \notin Installs) => RunsItsHandler(trap)
<1>1. ASSUME NEW s \in Slots, ~ (main.at = "bank" /\ main.slot = s), vec[s] # Empty
      PROVE  \E h \in Handlers : vec[s] = Word(h)
  BY <1>1 DEF IInv, TableShape, Empty
<1>2. RunsItsHandler(irq)
  <2> SUFFICES ASSUME irq.at = "handler"
               PROVE  irq.ran = vec[irq.slot] /\ \E h \in Handlers : irq.ran = Word(h)
    BY DEF RunsItsHandler
  <2>1. irq.slot \in Slots /\ main.at # "bank"
    BY SourceFacts DEF IInv, IrqShape, MainShape, NotSetting
  <2> QED
    BY <1>1, <2>1 DEF PointerInv, Points
<1>3. ASSUME \A h : <<"NMI", h>> \notin Installs PROVE RunsItsHandler(trap)
  <2> SUFFICES ASSUME trap.at = "handler"
               PROVE  trap.ran = vec[trap.slot] /\ \E h \in Handlers : trap.ran = Word(h)
    BY DEF RunsItsHandler
  <2>1. trap.slot \in Traps /\ trap.slot \in Slots
    BY SourceFacts DEF IInv, TrapShape
  <2>2. ~ (main.at = "bank" /\ main.slot = trap.slot)
    BY <1>3, <2>1 DEF IInv, MainShape, NotSetting, Traps
  <2> QED
    BY <1>1, <2>1, <2>2 DEF PointerInv, Points
<1> QED
  BY <1>2, <1>3

\* The pointer is right at every moment, unless an NMI may interrupt a dispatch.
LEMMA PointersFollow ==
  ASSUME "dispatch" \notin NmiIn
  PROVE  Spec => [](IInv /\ PointerInv)
<1>1. Init => IInv /\ PointerInv
  BY InitInv, IdleFacts DEF Init, PointerInv, OneDispatch, Points
<1>2. IInv /\ PointerInv /\ [Next]_vars => (IInv /\ PointerInv)'
  BY StepInv, PointerStep
<1> QED
  BY <1>1, <1>2, PTL DEF Spec

\* kirq.s:550: no dispatch of a device jumps into the join of an old and a new
\* handler, nor into a handler another slot holds: it runs the one its own slot holds.
\* The hypothesis is needed: the NMI shares the pointer with the dispatch it
\* interrupts, and KIrqNmi.cfg shows what happens then.
THEOREM DeviceDispatchIsWhole ==
  ASSUME "dispatch" \notin NmiIn
  PROVE  Spec => []RunsItsHandler(irq)
<1>1. IInv /\ PointerInv => RunsItsHandler(irq)
  BY PointersAreWhole
<1> QED
  BY <1>1, PointersFollow, PTL

\* The same of the traps.  The mask of IRQ_SET does not hold off an NMI, so one that
\* comes between the two stores of the NMI's own slot would find it torn: the second
\* hypothesis is that no program moves that slot while the button can be pressed.
THEOREM DispatchIsWhole ==
  ASSUME "dispatch" \notin NmiIn, \A h : <<"NMI", h>> \notin Installs
  PROVE  Spec => []DispatchesWhole
<1>1. IInv /\ PointerInv => DispatchesWhole
  BY PointersAreWhole DEF DispatchesWhole
<1> QED
  BY <1>1, PointersFollow, PTL

==============================================================================

-------------------------------- MODULE KIrq --------------------------------
(***************************************************************************)
(* The interrupt front end, runtime/kirq.s: the table of handlers that     *)
(* IRQ_SET fills, the IRQ dispatcher with seven devices behind one level-  *)
(* sensitive line, the NMI, and what the dispatcher does so that a device  *)
(* nobody serves cannot hang the machine.                                  *)
(*                                                                         *)
(* A handler address is 24 bits in two 16-bit words and is read and        *)
(* written a word at a time.  The main program runs only while no handler  *)
(* does; an IRQ is taken only while it is not masked; an NMI always is.    *)
(***************************************************************************)
EXTENDS Integers, Sequences

CONSTANTS
  Handlers,    \* handlers a program installs
  Installs,    \* the <<slot, handler>> pairs IRQ_SET is called with
  Wired,       \* devices that interrupt in this instance
  Programmed,  \* devices whose enable a program turns on and off
  FrameMod,    \* kirq_frames is 16 bits: 2^16
  NmiIn,       \* what an NMI may interrupt: a subset of {"main", "dispatch"}
  MaxAsserts   \* bound: how often a device asserts

VeraEdges == {"VSYNC", "LINE", "SPRCOL"}       \* an ISR bit, cleared by writing it
Vera == VeraEdges \cup {"AFLOW"}
Levels == {"AFLOW", "VIA1", "VIA2", "YM"}      \* asserted until the device is served
Sources == Vera \cup Levels

\* The dispatcher looks at its sources in this order.
Order == <<"VSYNC", "LINE", "SPRCOL", "AFLOW", "VIA1", "VIA2", "YM">>
Traps == {"NMI", "BRK", "COP"}
Slots == Sources \cup Traps \cup {"SPURIOUS"}

None == 0

ASSUME IrqAssumption ==
  /\ None \notin Handlers
  /\ Installs \subseteq Slots \X (Handlers \cup {None})
  /\ Wired \subseteq Sources /\ Programmed \subseteq Sources
  /\ FrameMod \in Nat \ {0, 1} /\ MaxAsserts \in Nat
  /\ NmiIn \subseteq {"main", "dispatch"}

VARIABLES
  vec,         \* kirq_vec: the two words of each slot
  tgt,         \* kirq_tgt: the two words `jmp [kirq_tgt]` goes to
  isr,         \* VERA's ISR: edges waiting to be acknowledged
  level,       \* devices whose condition stands
  ien,         \* enabled sources: VERA's IEN, the VIAs' IER, the YM's IRQEN
  snap,        \* kirq_isr
  claimed,     \* kirq_claimed
  frames,      \* kirq_frames
  disabled,    \* kirq_disabled
  main,        \* the main program: in IRQ_SET, or elsewhere
  irq,         \* the IRQ dispatcher
  trap,        \* the NMI, BRK or COP handler
  asserts,     \* how often a device has asserted
  vsyncs,      \* history: vertical blanks of the display, modulo FrameMod
  merged,      \* history: those that found the bit of the last one set, likewise
  owed         \* history: edges raised while enabled and not served since

table == <<vec, tgt>>
devices == <<isr, level, ien>>
kirq == <<snap, claimed, frames, disabled>>
history == <<vsyncs, merged, owed>>
vars == <<table, devices, kirq, main, irq, trap, asserts, history>>

Word(h) == [lo |-> h, bank |-> h]
Empty == Word(None)

Idle == [at |-> "out", slot |-> "none", ran |-> Empty]
NotSetting == [at |-> "out", slot |-> "none", new |-> None, masked |-> FALSE]

Asserting == {s \in Vera : s \in isr \cup level /\ s \in ien}
             \cup {s \in {"VIA1", "VIA2"} : s \in level /\ s \in ien}
             \cup (level \cap {"YM"})
Line == Asserting # {}

\* An IRQ is taken before the next instruction of the main program.
NoHandlerRuns == irq.at = "out" /\ trap.at = "out"
MainRuns == NoHandlerRuns /\ (main.masked \/ ~ Line)
DispatcherRuns == irq.at # "out" /\ trap.at = "out"

\* kirq_install(): an empty table, VSYNC the only source enabled, nothing pending.
Init ==
  /\ vec = [s \in Slots |-> Empty]
  /\ tgt = Empty
  /\ isr = {} /\ level = {} /\ ien = {"VSYNC"}
  /\ snap = {} /\ claimed = FALSE /\ frames = 0 /\ disabled = {}
  /\ main = NotSetting /\ irq = Idle /\ trap = Idle
  /\ asserts = 0 /\ vsyncs = 0 /\ merged = 0 /\ owed = {}

(***************************************************************************)
(* The devices.                                                            *)
(***************************************************************************)
\* An edge sets its ISR bit whether or not it is enabled, and whether or not the
\* bit is still set from the last one: interrupts are masked, a dispatch is under
\* way or an SD transfer holds the CPU.  The YM raises a flag only when its timer
\* interrupt is enabled.
OneMore(count) == (count + 1) % FrameMod

Raise(s) ==
  /\ s \in Wired /\ asserts < MaxAsserts
  /\ asserts' = asserts + 1
  /\ \/ /\ s \in VeraEdges
        /\ isr' = isr \cup {s}
        /\ vsyncs' = IF s = "VSYNC" THEN OneMore(vsyncs) ELSE vsyncs
        /\ merged' = IF s = "VSYNC" /\ s \in isr THEN OneMore(merged) ELSE merged
        /\ owed' = IF s \in ien THEN owed \cup {s} ELSE owed
        /\ UNCHANGED level
     \/ /\ s \in Levels \ level
        /\ s = "YM" => s \in ien
        /\ level' = level \cup {s}
        /\ UNCHANGED <<isr, history>>
  /\ UNCHANGED <<table, ien, kirq, main, irq, trap>>

(***************************************************************************)
(* The main program.                                                       *)
(***************************************************************************)
\* A program turns a source on or off in its device.
Enable(s) ==
  /\ MainRuns /\ main.at = "out"
  /\ s \in Programmed
  /\ ien' = (ien \ {s}) \cup ({s} \ ien)
  /\ UNCHANGED <<table, isr, level, kirq, main, irq, trap, asserts, history>>

\* A program polls for an edge it has not enabled, and acknowledges it.
Poll(s) ==
  /\ MainRuns /\ main.at = "out"
  /\ s \in (Programmed \cap VeraEdges \cap isr) \ ien
  /\ isr' = isr \ {s}
  /\ owed' = owed \ {s}
  /\ UNCHANGED <<table, level, ien, kirq, main, irq, trap, asserts, vsyncs, merged>>

\* IRQ_SET: read the old handler, mask, store one word, store the other.
SetSlot(slot, h) ==
  /\ MainRuns /\ main.at = "out"
  /\ main' = [at |-> "mask", slot |-> slot, new |-> h, masked |-> FALSE]
  /\ UNCHANGED <<table, devices, kirq, irq, trap, asserts, history>>

MaskNot ==                                                          \* mutant
  /\ MainRuns /\ main.at = "mask"
  /\ main' = [main EXCEPT !.at = "lo"]
  /\ UNCHANGED <<table, devices, kirq, irq, trap, asserts, history>>
Mask ==
  /\ MainRuns /\ main.at = "mask"
  /\ main' = [main EXCEPT !.at = "lo", !.masked = TRUE]
  /\ UNCHANGED <<table, devices, kirq, irq, trap, asserts, history>>

StoreLow ==
  /\ MainRuns /\ main.at = "lo"
  /\ vec' = [vec EXCEPT ![main.slot].lo = main.new]
  /\ main' = [main EXCEPT !.at = "bank"]
  /\ UNCHANGED <<tgt, devices, kirq, irq, trap, asserts, history>>

\* The second word, and the mask back as it was.
StoreBank ==
  /\ MainRuns /\ main.at = "bank"
  /\ vec' = [vec EXCEPT ![main.slot].bank = main.new]
  /\ main' = NotSetting
  /\ UNCHANGED <<tgt, devices, kirq, irq, trap, asserts, history>>

(***************************************************************************)
(* kirq_call: the dispatcher and the traps share it and its one pointer.   *)
(***************************************************************************)
Loaded(c) == [c EXCEPT !.at = "bank"]
LoadLow(c) == c.at = "call" /\ tgt' = [tgt EXCEPT !.lo = vec[c.slot].lo]
LoadBank(c) == c.at = "bank" /\ tgt' = [tgt EXCEPT !.bank = vec[c.slot].bank]

\* The test read the two words; only the jump reads them again.
Tested(c) == [c EXCEPT !.at = IF tgt' = Empty THEN "none" ELSE "jump"]
Jumped(c) == [c EXCEPT !.at = "handler", !.ran = tgt]

(***************************************************************************)
(* The IRQ dispatcher.                                                     *)
(***************************************************************************)
Took(slot) == [Idle EXCEPT !.at = "call", !.slot = slot]
At(label) == [Idle EXCEPT !.at = label]

\* Where the dispatcher goes after looking at a source.
After(s) ==
  IF s = Order[Len(Order)] THEN "nobody"
  ELSE Order[1 + CHOOSE i \in DOMAIN Order : Order[i] = s]

Enter ==
  /\ NoHandlerRuns /\ ~ main.masked /\ Line
  /\ irq' = At("snapshot")
  /\ claimed' = FALSE
  /\ UNCHANGED <<table, devices, snap, frames, disabled, main, trap, asserts, history>>

\* A device may let go of the line between the CPU's taking the interrupt and
\* the dispatcher's looking: the interrupt is nobody's.
EnterForNobody ==
  /\ NoHandlerRuns /\ ~ main.masked /\ ~ Line
  /\ asserts < MaxAsserts /\ asserts' = asserts + 1
  /\ irq' = At("snapshot")
  /\ claimed' = FALSE
  /\ UNCHANGED <<table, devices, snap, frames, disabled, main, trap, history>>

SnapshotOfIsr ==                                                    \* mutant
  /\ DispatcherRuns /\ irq.at = "snapshot"
  /\ snap' = Vera \cap (isr \cup level)
  /\ irq' = At("ack")
  /\ UNCHANGED <<table, devices, claimed, frames, disabled, main, trap, asserts, history>>
Snapshot ==
  /\ DispatcherRuns /\ irq.at = "snapshot"
  /\ snap' = Vera \cap (isr \cup level) \cap ien
  /\ irq' = At("ack")
  /\ UNCHANGED <<table, devices, claimed, frames, disabled, main, trap, asserts, history>>

AckAll ==                                                           \* mutant
  /\ DispatcherRuns /\ irq.at = "ack"
  /\ isr' = {}
  /\ irq' = At(Order[1])
  /\ UNCHANGED <<table, level, ien, kirq, main, trap, asserts, history>>
Ack ==
  /\ DispatcherRuns /\ irq.at = "ack"
  /\ isr' = isr \ (snap \cap VeraEdges)
  /\ irq' = At(Order[1])
  /\ UNCHANGED <<table, level, ien, kirq, main, trap, asserts, history>>

\* VERA's sources are read from the snapshot, the others from their device.
Found(s) ==
  CASE s \in Vera -> s \in snap
    [] s \in {"VIA1", "VIA2"} -> s \in level /\ s \in ien
    [] s = "YM" -> s \in level

NextFrameUnwrapped == frames + 1                                    \* mutant
NextFrame == (frames + 1) % FrameMod

Look ==
  /\ DispatcherRuns /\ irq.at \in Sources
  /\ IF Found(irq.at)
     THEN /\ claimed' = TRUE
          /\ frames' = IF irq.at = "VSYNC" THEN NextFrame ELSE frames
          /\ irq' = Took(irq.at)
     ELSE irq' = At(After(irq.at)) /\ UNCHANGED <<claimed, frames>>
  /\ UNCHANGED <<table, devices, snap, disabled, main, trap, asserts, history>>

Nobody ==
  /\ DispatcherRuns /\ irq.at = "nobody"
  /\ irq' = IF claimed THEN Idle ELSE Took("SPURIOUS")
  /\ UNCHANGED <<table, devices, kirq, main, trap, asserts, history>>

CallLow ==
  /\ DispatcherRuns /\ LoadLow(irq)
  /\ irq' = Loaded(irq)
  /\ UNCHANGED <<vec, devices, kirq, main, trap, asserts, history>>

CallBank ==
  /\ DispatcherRuns /\ LoadBank(irq)
  /\ irq' = Tested(irq)
  /\ owed' = owed \ {irq.slot}
  /\ UNCHANGED <<vec, devices, kirq, main, trap, asserts, vsyncs, merged>>

Jump ==
  /\ DispatcherRuns /\ irq.at = "jump"
  /\ irq' = Jumped(irq)
  /\ UNCHANGED <<table, devices, kirq, main, trap, asserts, history>>

ContinueWithNone(slot) == Idle                                      \* mutant
Continue(slot) == IF slot = "SPURIOUS" THEN Idle ELSE At(After(slot))

\* A handler serves its device and returns (kirq.s:35-48).
HandlerReturns ==
  /\ DispatcherRuns /\ irq.at = "handler"
  /\ level' = level \ {irq.slot}
  /\ irq' = Continue(irq.slot)
  /\ UNCHANGED <<table, isr, ien, kirq, main, trap, asserts, history>>

\* Nobody serves the slot: a device that stays asserted is turned off.
SilenceNothing ==                                                   \* mutant
  /\ DispatcherRuns /\ irq.at = "none"
  /\ irq' = Continue(irq.slot)
  /\ UNCHANGED <<table, devices, kirq, main, trap, asserts, history>>
Silence ==
  /\ DispatcherRuns /\ irq.at = "none"
  /\ IF irq.slot \in Levels
     THEN /\ ien' = ien \ {irq.slot}
          /\ level' = level \ ({irq.slot} \cap {"YM"})
          /\ disabled' = disabled \cup {irq.slot}
     ELSE UNCHANGED <<ien, level, disabled>>
  /\ irq' = Continue(irq.slot)
  /\ UNCHANGED <<table, isr, snap, claimed, frames, main, trap, asserts, history>>

(***************************************************************************)
(* The NMI, at any moment; BRK and COP, from the main program.             *)
(***************************************************************************)
Nmi ==
  /\ trap.at = "out"
  /\ \/ MainRuns /\ "main" \in NmiIn
     \/ irq.at # "out" /\ "dispatch" \in NmiIn
  /\ trap' = Took("NMI")
  /\ UNCHANGED <<table, devices, kirq, main, irq, asserts, history>>

SoftwareTrap(slot) ==
  /\ MainRuns /\ main.at = "out"
  /\ slot \in Traps \ {"NMI"}
  /\ trap' = Took(slot)
  /\ UNCHANGED <<table, devices, kirq, main, irq, asserts, history>>

TrapStep ==
  /\ \/ LoadLow(trap) /\ trap' = Loaded(trap)
     \/ LoadBank(trap) /\ trap' = Tested(trap)
     \/ trap.at = "jump" /\ trap' = Jumped(trap) /\ UNCHANGED tgt
     \/ trap.at \in {"handler", "none"} /\ trap' = Idle /\ UNCHANGED tgt
  /\ UNCHANGED <<vec, devices, kirq, main, irq, asserts, history>>

MainStep ==
  \/ \E s \in Sources : Enable(s) \/ Poll(s)
  \/ \E p \in Installs : SetSlot(p[1], p[2])
  \/ Mask
  \/ StoreLow
  \/ StoreBank
  \/ \E slot \in Traps : SoftwareTrap(slot)

DispatcherStep ==
  \/ Snapshot
  \/ Ack
  \/ Look
  \/ Nobody
  \/ CallLow
  \/ CallBank
  \/ Jump
  \/ HandlerReturns
  \/ Silence

Next ==
  \/ \E s \in Sources : Raise(s)
  \/ MainStep
  \/ Enter
  \/ EnterForNobody
  \/ DispatcherStep
  \/ Nmi
  \/ TrapStep

\* The CPU takes a pending interrupt before the next instruction and runs on;
\* an NMI is the press of a button, and the code it interrupts moves on between
\* two of them.
Spec ==
  /\ Init /\ [][Next]_vars
  /\ WF_vars(Enter) /\ WF_vars(DispatcherStep) /\ WF_vars(TrapStep)
  /\ SF_vars(StoreLow) /\ SF_vars(StoreBank)
-----------------------------------------------------------------------------
(***************************************************************************)
(* Properties.                                                             *)
(***************************************************************************)
Addresses == [lo : Handlers \cup {None}, bank : Handlers \cup {None}]
Labels == {"out", "snapshot", "ack", "nobody", "call", "bank", "jump", "handler", "none"}
Contexts == [at : Labels \cup Sources, slot : Slots \cup {"none"}, ran : Addresses]

\* The words, bits and counters of kirq.s keep their widths.
TypeOK ==
  /\ vec \in [Slots -> Addresses] /\ tgt \in Addresses
  /\ isr \subseteq VeraEdges /\ level \subseteq Levels /\ ien \subseteq Sources
  /\ snap \subseteq Vera /\ claimed \in BOOLEAN
  /\ frames \in 0 .. (FrameMod - 1) /\ disabled \subseteq Levels
  /\ main \in [at : {"out", "mask", "lo", "bank"}, slot : Slots \cup {"none"},
               new : Handlers \cup {None}, masked : BOOLEAN]
  /\ irq \in Contexts /\ trap \in Contexts
  /\ asserts \in 0 .. MaxAsserts
  /\ vsyncs \in 0 .. (FrameMod - 1) /\ merged \in 0 .. (FrameMod - 1) /\ owed \subseteq VeraEdges

\* kirq.s:550: a dispatch never jumps into the join of an old and a new handler;
\* it runs the handler its own slot holds.
RunsItsHandler(c) ==
  c.at = "handler" => /\ c.ran = vec[c.slot]
                      /\ \E h \in Handlers : c.ran = Word(h)
DispatchesWhole == RunsItsHandler(irq) /\ RunsItsHandler(trap)

\* kirq.s:74: a source that is not enabled keeps its ISR bit until the program
\* that polls it takes it.
DisabledKeepsItsBit ==
  [][\A s \in VeraEdges :
       s \in isr /\ s \notin ien => s \in isr' \/ NoHandlerRuns]_vars

\* kirq.s:363: an edge of an enabled source is served or still waiting: in the
\* ISR, or in the snapshot of a dispatch that has yet to come to it.
RankOf(x) == CHOOSE i \in DOMAIN Order : Order[i] = x
StillToCome(s) ==
  /\ s \in snap
  /\ \/ irq.at \in Sources /\ RankOf(irq.at) <= RankOf(s)
     \/ irq.slot \in Sources /\ RankOf(irq.slot) < RankOf(s)
     \/ irq.slot = s /\ irq.at \in {"call", "bank"}
NoEdgeLost == \A s \in owed : s \in isr \/ StillToCome(s)

\* kirq.s:628 and 635: with or without a handler, the frame count advances by one
\* for every vertical blank but those that came while VERA's one bit still held the
\* blank before (the CPU frozen by an SD transfer, a masked stretch, a dispatch on
\* its way to the acknowledge): `now - then` is the elapsed count across the wrap,
\* short by exactly those.
VsyncsUncounted ==
  (IF "VSYNC" \in isr THEN 1 ELSE 0)
  + (IF "VSYNC" \in snap /\ irq.at = "VSYNC" THEN 1 ELSE 0)
FramesTaken == (frames + VsyncsUncounted) % FrameMod
FramesCountedOrMerged == (FramesTaken + merged) % FrameMod = vsyncs

\* kirq.s:64: whatever stays asserted with nobody to serve it, the main program
\* gets to run, with the line quiet, again and again.
MachineAlive == []<>(NoHandlerRuns /\ ~ Line)

=============================================================================

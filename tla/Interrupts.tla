----------------------------- MODULE Interrupts -----------------------------
(***************************************************************************)
(* Interrupt routing of kernel/cpu/apic.c and dispatch of                  *)
(* kernel/cpu/irqhandler.c: the I/O APICs' redirection entries, the table  *)
(* of handlers, software IRQs, and the local APIC that interrupts the main *)
(* thread of the kernel between any two of its steps.                      *)
(*                                                                         *)
(* Interrupts are enabled from IntelInitialize on, so a pending interrupt  *)
(* is taken before the main thread goes on; a handler runs with interrupts *)
(* off and is one step.  Interrupts are edge triggered: nothing fills      *)
(* kIrqIsaOverrides, so ApicSetIrqIsaRouting is never called, and an edge  *)
(* at a masked entry is lost.  Each IRQ has one driver, which registers    *)
(* its handler once, with its data, and then enables the IRQ.              *)
(***************************************************************************)
EXTENDS Integers, Sequences, FiniteSetsExt

CONSTANTS
  IRQ_NUM_VECTORS,
  IRQ_NUM_ISA,
  IRQ_VECTOR_BASE,
  Madts,            \* possible lists of I/O APICs, as [gsi_base, max_rentry]
  FirmwareVectors,  \* vectors the firmware may have left in an entry
  MaxSoftware       \* bound: software IRQs drivers ask for

ASSUME InterruptsAssumption ==
  /\ IRQ_VECTOR_BASE \in Nat \ {0} /\ IRQ_NUM_ISA \in Nat
  /\ IRQ_NUM_VECTORS \in Nat /\ 2 * IRQ_VECTOR_BASE < IRQ_NUM_VECTORS
  /\ \A madt \in Madts : madt \in Seq([gsi_base : Nat, max_rentry : Nat])
  /\ FirmwareVectors \subseteq IRQ_VECTOR_BASE .. IRQ_NUM_VECTORS - 1
  /\ MaxSoftware \in Nat

\* The machines the code is right for.  ApicSetIrqVector and ApicSetIrqMask
\* take an IRQ for the number of its entry: the entries of an I/O APIC with a
\* base of its own must lie below that base, so that no IRQ reaches them.  And
\* a uint8_t must hold the vectors of the software IRQs too.
ASSUME MadtAssumption ==
  /\ MaxSoftware + IRQ_VECTOR_BASE < IRQ_NUM_VECTORS - 1
  /\ \A madt \in Madts : \A k \in 1 .. Len(madt) :
       /\ madt[k].gsi_base = 0 \/ madt[k].gsi_base > madt[k].max_rentry
       /\ madt[k].gsi_base + madt[k].max_rentry + MaxSoftware + IRQ_VECTOR_BASE
            < IRQ_NUM_VECTORS - 1

NoOne == -1
kIpiVector == IRQ_NUM_VECTORS - 1

VARIABLES
  madt,             \* the I/O APICs there are, in the order of the MADT
  rentry,           \* the redirection entries in the hardware
  known,            \* kIoApics: how many of them are in the list
  phase,            \* "scan" (ApicInitialize), "up", or "register"
  current,          \* the IRQ whose handler is being registered
  kApicHighestIrq,
  kIrqHandlers,     \* per vector: the IRQ whose driver's handler and data it has
  kIrqSwBitmap,     \* the indices that are set
  software,         \* the software IRQs drivers have got, in order
  registered,       \* IRQs whose handler is registered
  enabled,          \* IRQs whose driver has enabled them
  irr,              \* vectors pending in the local APIC
  due               \* IRQs that were raised and whose handler must be called

main == <<madt, known, phase, current, kApicHighestIrq, kIrqHandlers,
          kIrqSwBitmap, software, registered, enabled>>
vars == <<main, rentry, irr, due>>

Irqs == 0 .. IRQ_NUM_VECTORS - 1 - IRQ_VECTOR_BASE

\* Faulty variant: the IRQ is taken for its vector.
VectorWithoutBase(irq) == irq

VectorOf(irq) == (irq + IRQ_VECTOR_BASE) % IRQ_NUM_VECTORS   \* uint8_t

\* Faulty variant: the IRQ is taken for the number of an entry.
IoApicGetByIndex(irq) ==
  LET found == {k \in 1 .. known : irq <= madt[k].max_rentry}
  IN  IF found = {} THEN 0 ELSE Max(found)

\* The first I/O APIC of the list that serves an IRQ, 0 if none does.  The
\* last entry, max_rentry, does not count.
IoApicGetByIrq(irq) ==
  LET found == {k \in 1 .. known : /\ madt[k].gsi_base <= irq
                                   /\ irq < madt[k].gsi_base + madt[k].max_rentry}
  IN  IF found = {} THEN 0 ELSE Min(found)

ApicGetHighestIrq == Max({0} \cup {madt[k].gsi_base + madt[k].max_rentry : k \in 1 .. known})

\* The entry an IRQ addresses has the IRQ's number in its I/O APIC, not its
\* distance from gsi_base; an entry that does not exist ignores the write.
Addresses(irq, k, i) == k = IoApicGetByIrq(irq) /\ i = irq

ApicSetIrqVectors(r, irqs) ==
  [k \in DOMAIN r |-> [i \in DOMAIN r[k] |->
     IF \E irq \in irqs : Addresses(irq, k, i)
       THEN [r[k][i] EXCEPT !.vector = VectorOf(i)] ELSE r[k][i]]]

\* Faulty variant: the bit is written the wrong way round.
SetIrqMaskInverted(r, irq, mask) ==
  [k \in DOMAIN r |-> [i \in DOMAIN r[k] |->
     IF Addresses(irq, k, i) THEN [r[k][i] EXCEPT !.mask = ~mask] ELSE r[k][i]]]

ApicSetIrqMask(r, irq, mask) ==
  [k \in DOMAIN r |-> [i \in DOMAIN r[k] |->
     IF Addresses(irq, k, i) THEN [r[k][i] EXCEPT !.mask = mask] ELSE r[k][i]]]

Running == irr = {}   \* no interrupt is in the way of the main thread

(***************************************************************************)
(* ApicInitialize.                                                         *)
(***************************************************************************)
\* Faulty variant: the entries stay as the firmware left them.
AddIoApicUnmasked ==
  /\ Running /\ phase = "scan" /\ known < Len(madt)
  /\ known' = known + 1
  /\ UNCHANGED <<madt, phase, current, kApicHighestIrq, kIrqHandlers, kIrqSwBitmap,
                 software, registered, enabled, rentry, irr, due>>

\* The next I/O APIC of the MADT: all its entries are masked.
AddIoApic ==
  /\ Running /\ phase = "scan" /\ known < Len(madt)
  /\ known' = known + 1
  /\ rentry' = [rentry EXCEPT ![known + 1] =
       [i \in DOMAIN @ |-> [rentry[known + 1][i] EXCEPT !.mask = TRUE]]]
  /\ UNCHANGED <<madt, phase, current, kApicHighestIrq, kIrqHandlers, kIrqSwBitmap,
                 software, registered, enabled, irr, due>>

\* ApicInitializeInterrupts.  kIpiVector is passed to ApicEnableInterrupt as
\* an IRQ and refused.
ApicInitializeInterrupts ==
  /\ Running /\ phase = "scan" /\ known = Len(madt)
  /\ phase' = "up"
  /\ kApicHighestIrq' = ApicGetHighestIrq
  /\ kIrqSwBitmap' = (IRQ_NUM_VECTORS - IRQ_VECTOR_BASE .. IRQ_NUM_VECTORS - 1)
                       \cup {kIpiVector - IRQ_VECTOR_BASE}
  /\ rentry' = ApicSetIrqVectors(rentry, 0 .. IRQ_NUM_ISA - 1)
  /\ UNCHANGED <<madt, known, current, kIrqHandlers, software, registered, enabled,
                 irr, due>>

(***************************************************************************)
(* What drivers call.                                                      *)
(***************************************************************************)
\* ApicRegisterIrqHandler, up to the store of the handler.
ApicRegisterIrqHandler(irq) ==
  /\ Running /\ phase = "up" /\ irq \notin registered
  /\ irq <= kApicHighestIrq \/ \E n \in 1 .. Len(software) : software[n] = irq
  /\ phase' = "register" /\ current' = irq
  /\ rentry' = IF irq <= kApicHighestIrq THEN ApicSetIrqVectors(rentry, {irq}) ELSE rentry
  /\ kIrqHandlers' = [kIrqHandlers EXCEPT ![VectorOf(irq)].handler = irq]
  /\ UNCHANGED <<madt, known, kApicHighestIrq, kIrqSwBitmap, software, registered,
                 enabled, irr, due>>

\* The store of the data; the function returns.
RegisterData ==
  /\ Running /\ phase = "register"
  /\ phase' = "up" /\ current' = NoOne
  /\ kIrqHandlers' = [kIrqHandlers EXCEPT ![VectorOf(current)].data = current]
  /\ registered' = registered \cup {current}
  /\ UNCHANGED <<madt, known, kApicHighestIrq, kIrqSwBitmap, software, enabled, rentry,
                 irr, due>>

\* ignored is written and never read.
ApicEnableInterrupt(irq) ==
  /\ Running /\ phase = "up" /\ irq \in registered \ enabled
  /\ irq <= IRQ_NUM_VECTORS - IRQ_VECTOR_BASE
  /\ rentry' = IF irq <= kApicHighestIrq THEN ApicSetIrqMask(rentry, irq, FALSE) ELSE rentry
  /\ enabled' = enabled \cup {irq}
  /\ UNCHANGED <<madt, known, phase, current, kApicHighestIrq, kIrqHandlers,
                 kIrqSwBitmap, software, registered, irr, due>>

ApicDisableInterrupt(irq) ==
  /\ Running /\ phase = "up" /\ irq \in enabled
  /\ irq <= IRQ_NUM_VECTORS - IRQ_VECTOR_BASE
  /\ rentry' = IF irq <= kApicHighestIrq THEN ApicSetIrqMask(rentry, irq, TRUE) ELSE rentry
  /\ enabled' = enabled \ {irq}
  /\ UNCHANGED <<madt, known, phase, current, kApicHighestIrq, kIrqHandlers,
                 kIrqSwBitmap, software, registered, irr, due>>

\* Software IRQs are counted from the one after the highest hardware IRQ.
SoftwareIrq(bm) == bm + kApicHighestIrq + 1

ApicAllocateSoftwareIrq ==
  LET free == (0 .. IRQ_NUM_VECTORS - 1) \ kIrqSwBitmap
  IN  /\ Running /\ phase = "up" /\ Len(software) < MaxSoftware
      /\ free # {}
      /\ kIrqSwBitmap' = kIrqSwBitmap \cup {Min(free)}
      /\ software' = Append(software, SoftwareIrq(Min(free)))
      /\ UNCHANGED <<madt, known, phase, current, kApicHighestIrq, kIrqHandlers,
                     registered, enabled, rentry, irr, due>>

(***************************************************************************)
(* Devices and the local APIC.                                             *)
(***************************************************************************)
\* The IRQs that have an entry of their own: those of the I/O APIC with base 0,
\* its last one excepted.
Routed(irq) == IoApicGetByIrq(irq) # 0 /\ madt[IoApicGetByIrq(irq)].gsi_base = 0

\* The device at entry i of I/O APIC k raises its line.
Raise(k, i) ==
  LET irq == madt[k].gsi_base + i
  IN  /\ irr' = IF rentry[k][i].mask THEN irr ELSE irr \cup {rentry[k][i].vector}
      /\ due' = IF irq \in enabled /\ Routed(irq) THEN due \cup {irq} ELSE due
      /\ UNCHANGED <<main, rentry>>

\* A device that signals a software IRQ by a message, once its driver has
\* enabled it.
Message(irq) ==
  /\ irq > kApicHighestIrq /\ irq \in enabled
  /\ irr' = irr \cup {VectorOf(irq)}
  /\ due' = due \cup {irq}
  /\ UNCHANGED <<main, rentry>>

\* The local APIC delivers the highest vector; IrqHandler acknowledges it and
\* calls the handler, if there is one, with its data.
IrqHandler ==
  /\ irr # {}
  /\ irr' = irr \ {Max(irr)}
  /\ due' = due \ {kIrqHandlers[Max(irr)].handler}
  /\ UNCHANGED <<main, rentry>>

-----------------------------------------------------------------------------
Init ==
  /\ madt \in Madts
  /\ \E vector \in FirmwareVectors, mask \in BOOLEAN :
       rentry = [k \in 1 .. Len(madt) |->
                   [i \in 0 .. madt[k].max_rentry |-> [vector |-> vector, mask |-> mask]]]
  /\ known = 0
  /\ phase = "scan"
  /\ current = NoOne
  /\ kApicHighestIrq = 0
  /\ kIrqHandlers = [v \in 0 .. IRQ_NUM_VECTORS - 1 |-> [handler |-> NoOne, data |-> NoOne]]
  /\ kIrqSwBitmap = {}
  /\ software = <<>>
  /\ registered = {}
  /\ enabled = {}
  /\ irr = {}
  /\ due = {}

Next ==
  \/ AddIoApic
  \/ ApicInitializeInterrupts
  \/ \E irq \in Irqs : ApicRegisterIrqHandler(irq)
  \/ RegisterData
  \/ \E irq \in Irqs : ApicEnableInterrupt(irq)
  \/ \E irq \in Irqs : ApicDisableInterrupt(irq)
  \/ ApicAllocateSoftwareIrq
  \/ \E k \in 1 .. Len(madt) : \E i \in 0 .. madt[k].max_rentry : Raise(k, i)
  \/ \E irq \in Irqs : Message(irq)
  \/ IrqHandler

Spec == Init /\ [][Next]_vars

\* The processor takes pending interrupts.
FairSpec == Spec /\ WF_vars(IrqHandler)

-----------------------------------------------------------------------------
(***************************************************************************)
(* Properties.                                                             *)
(***************************************************************************)
\* The type of the state.  No exception's vector is ever pending: ExcHandler
\* would stop the kernel.
TypeOK ==
  /\ known \in 0 .. Len(madt)
  /\ phase \in {"scan", "up", "register"}
  /\ current \in Irqs \cup {NoOne}
  /\ kIrqHandlers \in [0 .. IRQ_NUM_VECTORS - 1 ->
                         [handler : Irqs \cup {NoOne}, data : Irqs \cup {NoOne}]]
  /\ kIrqSwBitmap \subseteq 0 .. IRQ_NUM_VECTORS - 1
  /\ registered \subseteq Irqs /\ enabled \subseteq registered
  /\ irr \subseteq IRQ_VECTOR_BASE .. IRQ_NUM_VECTORS - 1
  /\ due \subseteq enabled \cup registered

\* Once the I/O APICs are set up, an entry is unmasked only while the driver
\* of that very line has its IRQ enabled, and it carries that IRQ's vector,
\* whatever the firmware left there and whichever IRQs were enabled.
MaskedUntilEnabled ==
  phase # "scan" =>
    \A k \in 1 .. Len(madt) : \A i \in 0 .. madt[k].max_rentry :
      ~rentry[k][i].mask =>
        LET irq == madt[k].gsi_base + i
        IN  irq \in enabled /\ rentry[k][i].vector = VectorOf(irq)

\* When the local APIC delivers a vector, the handler is called for its own
\* IRQ and with its own data, although ApicRegisterIrqHandler stores them one
\* after the other with interrupts on.
CallsMatch ==
  [][\A vector \in irr \ irr' :
       LET entry == kIrqHandlers[vector]
       IN  entry.handler # NoOne =>
             entry.data = entry.handler /\ vector = VectorOf(entry.handler)]_vars

\* Drivers never share a software IRQ, and none has a hardware IRQ's vector,
\* an exception's or the one kept for IPIs.
SoftwareIrqsDistinct ==
  \A n \in 1 .. Len(software) :
    /\ software[n] > kApicHighestIrq
    /\ VectorOf(software[n]) \in IRQ_VECTOR_BASE .. kIpiVector - 1
    /\ \A m \in 1 .. n - 1 : software[m] # software[n]

\* The IRQs of drivers stay apart: the entry of an I/O APIC sends the vector
\* of the driver that enabled it or none, and ApicAllocateSoftwareIrq gives out
\* IRQs nobody else has a vector of.
IrqsSeparate == MaskedUntilEnabled /\ SoftwareIrqsDistinct

\* An IRQ raised while its driver has it enabled reaches the handler, also
\* when the driver disables it before that, unless devices with higher vectors
\* keep the processor from ever returning to the main thread.
RaisedIrqsServed == []<>Running => \A irq \in Irqs : irq \in due ~> irq \notin due

\* irqhandler.c, where it marks the hardware IRQs that cannot be used: "Mask
\* out all but the highest IRQ".  The highest IRQ can be used: when
\* ApicEnableInterrupt has returned 0 for it, its entry is not masked.
HighestIrqUsable ==
  Len(madt) = 1 /\ kApicHighestIrq \in enabled => ~rentry[1][kApicHighestIrq].mask

-----------------------------------------------------------------------------
(***************************************************************************)
(* The inductive invariant.                                                *)
(***************************************************************************)
Vectors == IRQ_VECTOR_BASE .. IRQ_NUM_VECTORS - 1

\* The entries there are.
EntriesTyped ==
  /\ madt \in Madts
  /\ rentry = [k \in 1 .. Len(madt) |-> rentry[k]]
  /\ \A k \in 1 .. Len(madt) :
       rentry[k] \in [0 .. madt[k].max_rentry -> [vector : Vectors, mask : BOOLEAN]]

\* While ApicInitialize scans the MADT, the entries it has seen are masked and
\* no driver has asked for anything.
ScanSound ==
  phase = "scan" =>
    /\ \A k \in 1 .. known : \A i \in 0 .. madt[k].max_rentry : rentry[k][i].mask
    /\ \A v \in 0 .. IRQ_NUM_VECTORS - 1 : kIrqHandlers[v].handler = NoOne
    /\ registered = {} /\ software = <<>>

\* An unmasked entry is the one its own enabled IRQ addresses.
EntriesSound ==
  phase # "scan" =>
    /\ known = Len(madt)
    /\ \A k \in 1 .. Len(madt) : \A i \in 0 .. madt[k].max_rentry :
         ~rentry[k][i].mask =>
           Addresses(i, k, i) /\ i \in enabled /\ rentry[k][i].vector = VectorOf(i)

\* The entry of an IRQ has its vector from the first store of its registration
\* on.
RegisteredRouted ==
  \A k \in 1 .. Len(madt) : \A i \in 0 .. madt[k].max_rentry :
    (i \in registered \/ i = current) /\ Addresses(i, k, i) => rentry[k][i].vector = VectorOf(i)

\* A handler is at its IRQ's vector; only the one being registered may lack its
\* data.
HandlersSound ==
  /\ \A v \in 0 .. IRQ_NUM_VECTORS - 1 :
       LET entry == kIrqHandlers[v]
       IN  entry.handler # NoOne =>
             /\ v = VectorOf(entry.handler)
             /\ \/ entry.handler \in registered /\ entry.data = entry.handler
                \/ entry.handler = current
  /\ IF phase = "register" THEN current \in Irqs \ registered ELSE current = NoOne

\* Once the I/O APICs are set up, what is pending is a registered IRQ.
PendingSound == phase # "scan" => irr \subseteq {VectorOf(irq) : irq \in registered}

\* The software IRQs are given out one after the other.
SoftwareSound ==
  phase # "scan" =>
    /\ software \in Seq(Nat) /\ Len(software) <= MaxSoftware
    /\ kApicHighestIrq = ApicGetHighestIrq
    /\ kIrqSwBitmap = (0 .. Len(software) - 1)
                        \cup (kIpiVector - IRQ_VECTOR_BASE .. IRQ_NUM_VECTORS - 1)
    /\ \A n \in 1 .. Len(software) : software[n] = n + kApicHighestIrq

IInv ==
  /\ TypeOK /\ EntriesTyped /\ ScanSound /\ EntriesSound /\ RegisteredRouted
  /\ HandlersSound /\ PendingSound /\ SoftwareSound
=============================================================================

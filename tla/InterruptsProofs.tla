-------------------------- MODULE InterruptsProofs --------------------------
(***************************************************************************)
(* Proofs about interrupt routing and dispatch: the invariant IInv of      *)
(* Interrupts is inductive, the IRQs of drivers stay apart, and a handler  *)
(* is never called without its data although ApicRegisterIrqHandler stores *)
(* the two one after the other with interrupts on.                         *)
(***************************************************************************)
EXTENDS Interrupts, ArithmeticLemmas

(***************************************************************************)
(* Vectors, and the I/O APIC of an IRQ.                                    *)
(***************************************************************************)
\* Constants, in the form the arithmetic steps use.
LEMMA Constants ==
  /\ IRQ_VECTOR_BASE \in Nat \ {0} /\ IRQ_NUM_VECTORS \in Nat \ {0}
  /\ 2 * IRQ_VECTOR_BASE < IRQ_NUM_VECTORS
  /\ MaxSoftware \in Nat
PROOF
  BY InterruptsAssumption

\* The uint8_t does not wrap for an IRQ that has a vector, and two IRQs never
\* share one.
LEMMA VectorOfIrq ==
  ASSUME NEW irq \in Irqs
  PROVE  VectorOf(irq) = irq + IRQ_VECTOR_BASE /\ VectorOf(irq) \in Vectors
         /\ VectorOf(irq) \in 0 .. IRQ_NUM_VECTORS - 1
PROOF
  <1>1. irq + IRQ_VECTOR_BASE \in 0 .. IRQ_NUM_VECTORS - 1 /\ irq \in Nat
    BY Constants DEF Irqs
  <1>2. (irq + IRQ_VECTOR_BASE) % IRQ_NUM_VECTORS = irq + IRQ_VECTOR_BASE
    BY <1>1, Constants, DivSmall
  <1>3. QED
    BY <1>1, <1>2, Constants DEF VectorOf, Vectors

LEMMA VectorOfInjective ==
  ASSUME NEW p \in Irqs, NEW q \in Irqs, VectorOf(p) = VectorOf(q)
  PROVE  p = q
PROOF
  <1>1. p + IRQ_VECTOR_BASE = q + IRQ_VECTOR_BASE
    BY VectorOfIrq
  <1>2. QED
    BY <1>1, Constants DEF Irqs

\* The least and the greatest element of a set, as the loops find them.
LEMMA MinOf ==
  ASSUME NEW S, S \subseteq Nat, S # {}
  PROVE  Min(S) \in S /\ \A y \in S : Min(S) <= y
PROOF
  <1>1. \E x \in S : \A y \in S : x <= y
    BY LeastElement
  <1>2. QED
    BY <1>1 DEF Min

LEMMA MaxOf ==
  ASSUME NEW B \in Nat, NEW S, S \subseteq 0 .. B, S # {}
  PROVE  Max(S) \in S /\ \A y \in S : y <= Max(S)
PROOF
  <1>1. PICK x \in S : \A y \in S : y <= x
    BY GreatestElement
  <1>2. \A y \in S : y \in Int
    OBVIOUS
  <1>3. \A y \in S : x >= y
    BY <1>1, <1>2
  <1>4. Max(S) \in S /\ \A y \in S : Max(S) >= y
    BY <1>3 DEF Max
  <1>5. QED
    BY <1>2, <1>4

\* An I/O APIC of the MADT.
LEMMA MadtEntry ==
  ASSUME NEW m \in Madts, NEW k \in 1 .. Len(m)
  PROVE  /\ Len(m) \in Nat /\ m[k].gsi_base \in Nat /\ m[k].max_rentry \in Nat
         /\ m[k].gsi_base = 0 \/ m[k].gsi_base > m[k].max_rentry
         /\ m[k].gsi_base + m[k].max_rentry + MaxSoftware + IRQ_VECTOR_BASE < kIpiVector
PROOF
  <1> DEFINE Entry == [gsi_base : Nat, max_rentry : Nat]
  <1>1. m \in Seq(Entry)
    BY InterruptsAssumption
  <1>2. Len(m) \in Nat /\ m[k] \in Entry
    <2> HIDE DEF Entry
    <2>1. QED
      BY <1>1
  <1>3. m[k].gsi_base \in Nat /\ m[k].max_rentry \in Nat
    BY <1>2
  <1>4. QED
    BY <1>2, <1>3, MadtAssumption DEF kIpiVector

\* IoApicGetByIrq finds an I/O APIC of the list that serves the IRQ.
LEMMA IoApicServes ==
  ASSUME madt \in Madts, known \in 0 .. Len(madt), NEW irq \in Int, IoApicGetByIrq(irq) # 0
  PROVE  LET k == IoApicGetByIrq(irq)
         IN  /\ k \in 1 .. known /\ k \in 1 .. Len(madt)
             /\ madt[k].gsi_base <= irq /\ irq < madt[k].gsi_base + madt[k].max_rentry
PROOF
  <1> DEFINE found == {k \in 1 .. known : /\ madt[k].gsi_base <= irq
                                          /\ irq < madt[k].gsi_base + madt[k].max_rentry}
  <1>1. Len(madt) \in Nat
    <2>1. madt \in Seq([gsi_base : Nat, max_rentry : Nat])
      BY InterruptsAssumption
    <2>2. QED
      BY <2>1
  <1>2. found \subseteq Nat /\ found # {} /\ IoApicGetByIrq(irq) = Min(found)
    BY <1>1 DEF IoApicGetByIrq
  <1>3. Min(found) \in found
    <2> HIDE DEF found
    <2>1. QED
      BY <1>2, MinOf
  <1>4. QED
    BY <1>1, <1>2, <1>3

\* An entry that is addressed belongs to an I/O APIC with base 0: its number is
\* its IRQ.
LEMMA AddressedEntry ==
  ASSUME madt \in Madts, known \in 0 .. Len(madt),
         NEW k \in 1 .. Len(madt), NEW i \in 0 .. madt[k].max_rentry, Addresses(i, k, i)
  PROVE  madt[k].gsi_base = 0 /\ madt[k].gsi_base + i = i
PROOF
  <1>1. k = IoApicGetByIrq(i) /\ k # 0 /\ i \in Int
    BY MadtEntry DEF Addresses
  <1>2. madt[k].gsi_base <= i
    BY <1>1, IoApicServes
  <1>3. /\ madt[k].gsi_base \in Nat /\ madt[k].max_rentry \in Nat
        /\ madt[k].gsi_base = 0 \/ madt[k].gsi_base > madt[k].max_rentry
    BY MadtEntry
  <1>4. QED
    BY <1>2, <1>3

\* The number of an entry is an IRQ that has a vector.
LEMMA EntryIsIrq ==
  ASSUME NEW m \in Madts, NEW k \in 1 .. Len(m), NEW i \in 0 .. m[k].max_rentry
  PROVE  i \in Irqs /\ m[k].gsi_base + i \in Irqs
PROOF
  <1>1. /\ m[k].gsi_base \in Nat /\ m[k].max_rentry \in Nat
        /\ m[k].gsi_base + m[k].max_rentry + MaxSoftware + IRQ_VECTOR_BASE < kIpiVector
    BY MadtEntry
  <1>2. ASSUME NEW base \in Nat, NEW last \in Nat, i \in 0 .. last,
               base + last + MaxSoftware + IRQ_VECTOR_BASE < IRQ_NUM_VECTORS - 1
        PROVE  i \in Irqs /\ base + i \in Irqs
    BY <1>2, Constants DEF Irqs
  <1>3. QED
    BY <1>1, <1>2 DEF kIpiVector

\* The highest IRQ is the end of some I/O APIC, and no end lies above it.
LEMMA HighestIrq ==
  ASSUME madt \in Madts, known = Len(madt)
  PROVE  /\ ApicGetHighestIrq \in Nat
         /\ ApicGetHighestIrq + MaxSoftware + IRQ_VECTOR_BASE < kIpiVector
         /\ \A k \in 1 .. Len(madt) : madt[k].gsi_base + madt[k].max_rentry <= ApicGetHighestIrq
PROOF
  <1> DEFINE ends == {0} \cup {madt[k].gsi_base + madt[k].max_rentry : k \in 1 .. known}
  <1>1. ASSUME NEW x \in ends
        PROVE  x \in Nat /\ x + MaxSoftware + IRQ_VECTOR_BASE < kIpiVector
    <2>1. CASE x = 0
      BY <2>1, MadtAssumption, Constants DEF kIpiVector
    <2>2. CASE \E k \in 1 .. Len(madt) : x = madt[k].gsi_base + madt[k].max_rentry
      BY <2>2, MadtEntry
    <2>3. QED
      BY <2>1, <2>2
  <1>2. ends \subseteq 0 .. IRQ_NUM_VECTORS /\ ends # {}
    <2>1. \A x \in ends : x \in 0 .. IRQ_NUM_VECTORS
      BY <1>1, Constants DEF kIpiVector
    <2>2. QED
      BY <2>1
  <1>3. \A k \in 1 .. Len(madt) : madt[k].gsi_base + madt[k].max_rentry \in ends
    OBVIOUS
  <1>4. ApicGetHighestIrq = Max(ends)
    BY DEF ApicGetHighestIrq
  <1> HIDE DEF ends
  <1>5. Max(ends) \in ends /\ \A y \in ends : y <= Max(ends)
    BY <1>2, Constants, MaxOf
  <1>6. QED
    BY <1>1, <1>3, <1>4, <1>5

(***************************************************************************)
(* The writes to the redirection entries.                                  *)
(***************************************************************************)
\* What EntriesTyped says of any table of entries.
IsTable(m, r) ==
  /\ r = [k \in 1 .. Len(m) |-> r[k]]
  /\ \A k \in 1 .. Len(m) : r[k] \in [0 .. m[k].max_rentry -> [vector : Vectors, mask : BOOLEAN]]

LEMMA VectorsWritten ==
  ASSUME madt \in Madts, NEW r, IsTable(madt, r), NEW irqs
  PROVE  /\ IsTable(madt, ApicSetIrqVectors(r, irqs))
         /\ \A k \in 1 .. Len(madt) : \A i \in 0 .. madt[k].max_rentry :
              /\ ApicSetIrqVectors(r, irqs)[k][i].mask = r[k][i].mask
              /\ ApicSetIrqVectors(r, irqs)[k][i].vector =
                   IF i \in irqs /\ Addresses(i, k, i) THEN VectorOf(i) ELSE r[k][i].vector
PROOF
  <1> DEFINE w == ApicSetIrqVectors(r, irqs)
  <1>1. DOMAIN r = 1 .. Len(madt) /\ \A k \in 1 .. Len(madt) : DOMAIN r[k] = 0 .. madt[k].max_rentry
    BY DEF IsTable
  <1>2. \A k \in 1 .. Len(madt) : \A i \in 0 .. madt[k].max_rentry :
          r[k][i] \in [vector : Vectors, mask : BOOLEAN]
    BY DEF IsTable
  <1>3. \A k \in 1 .. Len(madt) : \A i \in 0 .. madt[k].max_rentry :
          w[k][i] = IF \E irq \in irqs : Addresses(irq, k, i)
                      THEN [r[k][i] EXCEPT !.vector = VectorOf(i)] ELSE r[k][i]
    BY <1>1 DEF ApicSetIrqVectors
  <1>4. \A k, i : (\E irq \in irqs : Addresses(irq, k, i)) <=> i \in irqs /\ Addresses(i, k, i)
    BY DEF Addresses
  <1>5. /\ w = [k \in 1 .. Len(madt) |-> w[k]]
        /\ \A k \in 1 .. Len(madt) : w[k] = [i \in 0 .. madt[k].max_rentry |-> w[k][i]]
    BY <1>1 DEF ApicSetIrqVectors
  <1> HIDE DEF w
  <1>6. ASSUME NEW k \in 1 .. Len(madt), NEW i \in 0 .. madt[k].max_rentry
        PROVE  /\ w[k][i] \in [vector : Vectors, mask : BOOLEAN]
               /\ w[k][i].mask = r[k][i].mask
               /\ w[k][i].vector =
                    IF i \in irqs /\ Addresses(i, k, i) THEN VectorOf(i) ELSE r[k][i].vector
    <2>1. r[k][i] \in [vector : Vectors, mask : BOOLEAN]
      BY <1>2
    <2>2. VectorOf(i) \in Vectors
      BY EntryIsIrq, VectorOfIrq
    <2>3. w[k][i] = IF i \in irqs /\ Addresses(i, k, i)
                      THEN [r[k][i] EXCEPT !.vector = VectorOf(i)] ELSE r[k][i]
      BY <1>3, <1>4
    <2>4. QED
      BY <2>1, <2>2, <2>3
  <1>7. IsTable(madt, w)
    <2>1. \A k \in 1 .. Len(madt) : w[k] \in [0 .. madt[k].max_rentry -> [vector : Vectors, mask : BOOLEAN]]
      BY <1>5, <1>6
    <2>2. QED
      BY <1>5, <2>1 DEF IsTable
  <1>8. QED
    BY <1>6, <1>7 DEF w

LEMMA MaskWritten ==
  ASSUME madt \in Madts, NEW r, IsTable(madt, r), NEW irq, NEW mask \in BOOLEAN
  PROVE  /\ IsTable(madt, ApicSetIrqMask(r, irq, mask))
         /\ \A k \in 1 .. Len(madt) : \A i \in 0 .. madt[k].max_rentry :
              /\ ApicSetIrqMask(r, irq, mask)[k][i].vector = r[k][i].vector
              /\ ApicSetIrqMask(r, irq, mask)[k][i].mask =
                   IF i = irq /\ Addresses(i, k, i) THEN mask ELSE r[k][i].mask
PROOF
  <1> DEFINE w == ApicSetIrqMask(r, irq, mask)
  <1>1. DOMAIN r = 1 .. Len(madt) /\ \A k \in 1 .. Len(madt) : DOMAIN r[k] = 0 .. madt[k].max_rentry
    BY DEF IsTable
  <1>2. \A k \in 1 .. Len(madt) : \A i \in 0 .. madt[k].max_rentry :
          r[k][i] \in [vector : Vectors, mask : BOOLEAN]
    BY DEF IsTable
  <1>3. \A k \in 1 .. Len(madt) : \A i \in 0 .. madt[k].max_rentry :
          w[k][i] = IF Addresses(irq, k, i) THEN [r[k][i] EXCEPT !.mask = mask] ELSE r[k][i]
    BY <1>1 DEF ApicSetIrqMask
  <1>4. \A k, i : Addresses(irq, k, i) <=> i = irq /\ Addresses(i, k, i)
    BY DEF Addresses
  <1>5. /\ w = [k \in 1 .. Len(madt) |-> w[k]]
        /\ \A k \in 1 .. Len(madt) : w[k] = [i \in 0 .. madt[k].max_rentry |-> w[k][i]]
    BY <1>1 DEF ApicSetIrqMask
  <1> HIDE DEF w
  <1>6. ASSUME NEW k \in 1 .. Len(madt), NEW i \in 0 .. madt[k].max_rentry
        PROVE  /\ w[k][i] \in [vector : Vectors, mask : BOOLEAN]
               /\ w[k][i].vector = r[k][i].vector
               /\ w[k][i].mask = IF i = irq /\ Addresses(i, k, i) THEN mask ELSE r[k][i].mask
    <2>1. r[k][i] \in [vector : Vectors, mask : BOOLEAN]
      BY <1>2
    <2>2. w[k][i] = IF i = irq /\ Addresses(i, k, i)
                      THEN [r[k][i] EXCEPT !.mask = mask] ELSE r[k][i]
      BY <1>3, <1>4
    <2>3. QED
      BY <2>1, <2>2
  <1>7. IsTable(madt, w)
    <2>1. \A k \in 1 .. Len(madt) : w[k] \in [0 .. madt[k].max_rentry -> [vector : Vectors, mask : BOOLEAN]]
      BY <1>5, <1>6
    <2>2. QED
      BY <1>5, <2>1 DEF IsTable
  <1>8. QED
    BY <1>6, <1>7 DEF w

(***************************************************************************)
(* The invariant.                                                          *)
(***************************************************************************)
LEMMA InitSound ==
  ASSUME Init
  PROVE  IInv
PROOF
  <1> USE DEF Init
  <1>1. madt \in Madts /\ Len(madt) \in Nat
    <2> DEFINE Entry == [gsi_base : Nat, max_rentry : Nat]
    <2>1. madt \in Madts /\ madt \in Seq(Entry)
      BY InterruptsAssumption
    <2> HIDE DEF Entry
    <2>2. QED
      BY <2>1
  <1>2. TypeOK
    BY <1>1, Constants DEF TypeOK
  <1>3. EntriesTyped
    BY <1>1, InterruptsAssumption DEF EntriesTyped, Vectors
  <1>4. ScanSound /\ EntriesSound
    BY <1>1 DEF ScanSound, EntriesSound
  <1>5. RegisteredRouted
    BY <1>1, MadtEntry DEF RegisteredRouted, NoOne
  <1>6. HandlersSound /\ PendingSound /\ SoftwareSound
    BY DEF HandlersSound, PendingSound, SoftwareSound
  <1>7. QED
    BY <1>2, <1>3, <1>4, <1>5, <1>6 DEF IInv

\* Steps that change no I/O APIC leave what an IRQ addresses alone.
LEMMA SameAddresses ==
  ASSUME madt' = madt, known' = known
  PROVE  \A irq, k, i : Addresses(irq, k, i)' <=> Addresses(irq, k, i)
PROOF
  BY DEF Addresses, IoApicGetByIrq

LEMMA AddIoApicSound ==
  ASSUME IInv, AddIoApic
  PROVE  IInv'
PROOF
  <1> USE DEF IInv, AddIoApic
  <1>1. madt \in Madts /\ IsTable(madt, rentry) /\ known + 1 \in 1 .. Len(madt) /\ Len(madt) \in Nat
    <2>1. madt \in Madts /\ IsTable(madt, rentry)
      BY DEF EntriesTyped, IsTable
    <2> DEFINE Entry == [gsi_base : Nat, max_rentry : Nat]
    <2>2. madt \in Seq(Entry)
      BY <2>1, InterruptsAssumption
    <2> HIDE DEF Entry
    <2>3. Len(madt) \in Nat
      BY <2>2
    <2>4. QED
      BY <2>1, <2>3 DEF TypeOK
  <1>2. TypeOK'
    BY <1>1 DEF TypeOK
  <1>3. \A k \in 1 .. Len(madt) : k # known + 1 => rentry'[k] = rentry[k]
    BY <1>1 DEF IsTable
  <1>4. rentry'[known + 1] = [i \in 0 .. madt[known + 1].max_rentry |->
                                [rentry[known + 1][i] EXCEPT !.mask = TRUE]]
    BY <1>1 DEF IsTable
  <1>5. \A i \in 0 .. madt[known + 1].max_rentry :
          rentry[known + 1][i] \in [vector : Vectors, mask : BOOLEAN]
    BY <1>1 DEF IsTable
  <1>6. /\ rentry'[known + 1] \in [0 .. madt[known + 1].max_rentry -> [vector : Vectors, mask : BOOLEAN]]
        /\ \A i \in 0 .. madt[known + 1].max_rentry : rentry'[known + 1][i].mask
    <2> HIDE DEF AddIoApic
    <2>1. ASSUME NEW c \in [vector : Vectors, mask : BOOLEAN]
          PROVE  /\ [c EXCEPT !.mask = TRUE] \in [vector : Vectors, mask : BOOLEAN]
                 /\ [c EXCEPT !.mask = TRUE].mask
      OBVIOUS
    <2>2. ASSUME NEW i \in 0 .. madt[known + 1].max_rentry
          PROVE  /\ rentry'[known + 1][i] \in [vector : Vectors, mask : BOOLEAN]
                 /\ rentry'[known + 1][i].mask
      <3>1. rentry'[known + 1][i] = [rentry[known + 1][i] EXCEPT !.mask = TRUE]
        BY <1>4, Zenon
      <3>2. rentry[known + 1][i] \in [vector : Vectors, mask : BOOLEAN]
        BY <1>5
      <3>3. QED
        BY <2>1, <3>1, <3>2
    <2>3. rentry'[known + 1] = [i \in 0 .. madt[known + 1].max_rentry |-> rentry'[known + 1][i]]
      BY <1>4, Zenon
    <2>4. QED
      BY <2>2, <2>3
  <1>7. IsTable(madt, rentry')
    <2>1. rentry' = [k \in 1 .. Len(madt) |-> rentry'[k]]
      BY <1>1 DEF IsTable
    <2> HIDE DEF AddIoApic
    <2>2. QED
      BY <1>1, <1>3, <1>6, <2>1 DEF IsTable
  <1>8. EntriesTyped'
    BY <1>1, <1>7 DEF EntriesTyped, IsTable
  <1>9. ScanSound'
    <2>1. \A k \in 1 .. known : k \in 1 .. Len(madt) /\ k # known + 1
      BY <1>1 DEF TypeOK
    <2>2. \A k \in 1 .. known + 1 : k \in 1 .. known \/ k = known + 1
      BY <1>1 DEF TypeOK
    <2>3. \A k \in 1 .. known : \A i \in 0 .. madt[k].max_rentry : rentry'[k][i].mask
      BY <1>3, <2>1 DEF ScanSound
    <2>4. \A k \in 1 .. known + 1 : \A i \in 0 .. madt[k].max_rentry : rentry'[k][i].mask
      BY <1>6, <2>2, <2>3
    <2>5. QED
      BY <2>4 DEF ScanSound
  <1>10. RegisteredRouted'
    <2>1. registered' = {} /\ current' = NoOne
      BY DEF ScanSound, HandlersSound
    <2>2. \A k \in 1 .. Len(madt) : \A i \in 0 .. madt[k].max_rentry : i # NoOne
      BY <1>1, MadtEntry DEF NoOne
    <2>3. QED
      BY <2>1, <2>2 DEF RegisteredRouted
  <1>11. EntriesSound' /\ PendingSound' /\ SoftwareSound' /\ HandlersSound'
    BY DEF EntriesSound, PendingSound, SoftwareSound, HandlersSound
  <1>12. QED
    BY <1>2, <1>8, <1>9, <1>10, <1>11

LEMMA ApicInitializeInterruptsSound ==
  ASSUME IInv, ApicInitializeInterrupts
  PROVE  IInv'
PROOF
  <1> USE DEF IInv, ApicInitializeInterrupts
  <1>1. madt \in Madts /\ IsTable(madt, rentry) /\ Len(madt) \in Nat
    <2>1. madt \in Madts /\ IsTable(madt, rentry)
      BY DEF EntriesTyped, IsTable
    <2> DEFINE Entry == [gsi_base : Nat, max_rentry : Nat]
    <2>2. madt \in Seq(Entry)
      BY <2>1, InterruptsAssumption
    <2> HIDE DEF Entry
    <2>3. QED
      BY <2>1, <2>2
  <1> DEFINE w == ApicSetIrqVectors(rentry, 0 .. IRQ_NUM_ISA - 1)
  <1>2. /\ IsTable(madt, w)
        /\ \A k \in 1 .. Len(madt) : \A i \in 0 .. madt[k].max_rentry : w[k][i].mask = rentry[k][i].mask
    BY <1>1, VectorsWritten
  <1>3. rentry' = w /\ madt' = madt /\ known' = known
    OBVIOUS
  <1> HIDE DEF w
  <1>4. \A k \in 1 .. Len(madt) : \A i \in 0 .. madt[k].max_rentry : w[k][i].mask
    BY <1>2 DEF ScanSound
  <1>5. TypeOK'
    BY Constants DEF TypeOK, kIpiVector
  <1>6. EntriesTyped'
    BY <1>1, <1>2, <1>3 DEF EntriesTyped, IsTable
  <1>7. EntriesSound'
    BY <1>3, <1>4 DEF EntriesSound
  <1>8. RegisteredRouted'
    <2>1. registered' = {} /\ current' = NoOne
      BY DEF ScanSound, HandlersSound
    <2>2. \A k \in 1 .. Len(madt) : \A i \in 0 .. madt[k].max_rentry : i # NoOne
      BY <1>1, MadtEntry DEF NoOne
    <2>3. QED
      BY <1>3, <2>1, <2>2 DEF RegisteredRouted
  <1>9. HandlersSound'
    BY DEF HandlersSound
  <1>10. PendingSound' /\ ScanSound'
    BY DEF PendingSound, ScanSound, Running
  <1>11. SoftwareSound'
    <2>1. software' = <<>> /\ Len(software') = 0
      BY DEF ScanSound
    <2>2. kApicHighestIrq' = ApicGetHighestIrq'
      BY DEF ApicGetHighestIrq
    <2>3. kIrqSwBitmap' = (0 .. Len(software') - 1)
                            \cup (kIpiVector - IRQ_VECTOR_BASE .. IRQ_NUM_VECTORS - 1)
      BY <2>1, Constants DEF kIpiVector
    <2>4. QED
      BY <2>1, <2>2, <2>3, Constants DEF SoftwareSound
  <1>12. QED
    BY <1>5, <1>6, <1>7, <1>8, <1>9, <1>10, <1>11

\* What a step that changes no I/O APIC leaves alone.
LEMMA SameHighest ==
  ASSUME madt' = madt, known' = known
  PROVE  ApicGetHighestIrq' = ApicGetHighestIrq
PROOF
  BY DEF ApicGetHighestIrq

\* The facts about the I/O APICs the steps of drivers start from.
LEMMA UpFacts ==
  ASSUME IInv, phase # "scan"
  PROVE  /\ madt \in Madts /\ IsTable(madt, rentry) /\ known = Len(madt)
         /\ known \in 0 .. Len(madt)
         /\ kApicHighestIrq \in Nat
         /\ kApicHighestIrq + MaxSoftware + IRQ_VECTOR_BASE < kIpiVector
         /\ \A k \in 1 .. Len(madt) : madt[k].gsi_base + madt[k].max_rentry <= kApicHighestIrq
PROOF
  <1>1. /\ madt \in Madts /\ IsTable(madt, rentry) /\ known = Len(madt)
        /\ known \in 0 .. Len(madt) /\ kApicHighestIrq = ApicGetHighestIrq
    BY DEF IInv, EntriesTyped, IsTable, EntriesSound, SoftwareSound, TypeOK
  <1>2. QED
    BY <1>1, HighestIrq

LEMMA ApicRegisterIrqHandlerSound ==
  ASSUME IInv, NEW irq \in Irqs, ApicRegisterIrqHandler(irq)
  PROVE  IInv'
PROOF
  <1> USE DEF IInv, ApicRegisterIrqHandler
  <1>1. /\ phase = "up" /\ madt \in Madts /\ IsTable(madt, rentry)
        /\ kApicHighestIrq \in Nat
        /\ \A k \in 1 .. Len(madt) : madt[k].gsi_base + madt[k].max_rentry <= kApicHighestIrq
    BY UpFacts
  <1>2. \A p, k, i : Addresses(p, k, i)' <=> Addresses(p, k, i)
    BY SameAddresses
  <1>3. /\ IsTable(madt, rentry')
        /\ \A k \in 1 .. Len(madt) : \A i \in 0 .. madt[k].max_rentry :
             /\ rentry'[k][i].mask = rentry[k][i].mask
             /\ \/ rentry'[k][i].vector = rentry[k][i].vector
                \/ i = irq /\ Addresses(i, k, i) /\ rentry'[k][i].vector = VectorOf(i)
             /\ irq <= kApicHighestIrq /\ i = irq /\ Addresses(i, k, i) =>
                  rentry'[k][i].vector = VectorOf(i)
    <2>1. CASE irq <= kApicHighestIrq
      <3> DEFINE w == ApicSetIrqVectors(rentry, {irq})
      <3>1. rentry' = w
        BY <2>1
      <3>2. /\ IsTable(madt, w)
            /\ \A k \in 1 .. Len(madt) : \A i \in 0 .. madt[k].max_rentry :
                 /\ w[k][i].mask = rentry[k][i].mask
                 /\ w[k][i].vector =
                      IF i \in {irq} /\ Addresses(i, k, i) THEN VectorOf(i) ELSE rentry[k][i].vector
        BY <1>1, VectorsWritten
      <3> HIDE DEF w, ApicRegisterIrqHandler
      <3>3. QED
        BY <3>1, <3>2
    <2>2. CASE ~(irq <= kApicHighestIrq)
      BY <1>1, <2>2
    <2>3. QED
      BY <2>1, <2>2
  <1>4. VectorOf(irq) \in 0 .. IRQ_NUM_VECTORS - 1
    BY VectorOfIrq
  <1>5. kIrqHandlers' = [kIrqHandlers EXCEPT ![VectorOf(irq)].handler = irq]
    OBVIOUS
  <1>6. /\ phase' = "register" /\ current' = irq /\ irq \notin registered /\ current = NoOne
        /\ UNCHANGED <<madt, known, kApicHighestIrq, kIrqSwBitmap, software, registered,
                       enabled, irr, due>>
    BY <1>1 DEF HandlersSound
  <1> HIDE DEF ApicRegisterIrqHandler
  <1>8. TypeOK'
    BY <1>4, <1>5, <1>6 DEF TypeOK
  <1>9. EntriesTyped'
    BY <1>1, <1>3, <1>6 DEF EntriesTyped, IsTable
  <1>10. ScanSound'
    BY <1>6 DEF ScanSound
  <1>11. EntriesSound'
    <2>1. ASSUME NEW k \in 1 .. Len(madt), NEW i \in 0 .. madt[k].max_rentry, ~rentry'[k][i].mask
          PROVE  Addresses(i, k, i) /\ i \in enabled /\ rentry'[k][i].vector = VectorOf(i)
      <3>1. ~rentry[k][i].mask
        BY <1>3, <2>1
      <3>2. Addresses(i, k, i) /\ i \in enabled /\ rentry[k][i].vector = VectorOf(i)
        BY <1>1, <3>1 DEF EntriesSound
      <3>3. QED
        BY <1>3, <3>2
    <2>2. QED
      BY <1>1, <1>2, <1>6, <2>1 DEF EntriesSound
  <1>12. RegisteredRouted'
    <2>1. ASSUME NEW k \in 1 .. Len(madt), NEW i \in 0 .. madt[k].max_rentry,
                 i \in registered \/ i = irq, Addresses(i, k, i)
          PROVE  rentry'[k][i].vector = VectorOf(i)
      <3>1. CASE i \in registered
        <4>1. rentry[k][i].vector = VectorOf(i)
          BY <2>1, <3>1 DEF RegisteredRouted
        <4>2. QED
          BY <1>3, <4>1
      <3>2. CASE i = irq
        <4>1. i <= kApicHighestIrq
          <5>1. i <= madt[k].gsi_base + madt[k].max_rentry /\ i \in Nat
            BY <1>1, MadtEntry
          <5>2. QED
            BY <1>1, <5>1, MadtEntry
        <4>2. QED
          BY <1>3, <2>1, <3>2, <4>1
      <3>3. QED
        BY <2>1, <3>1, <3>2
    <2>2. QED
      BY <1>2, <1>6, <2>1 DEF RegisteredRouted
  <1>13. HandlersSound'
    <2>1. ASSUME NEW v \in 0 .. IRQ_NUM_VECTORS - 1, kIrqHandlers'[v].handler # NoOne
          PROVE  /\ v = VectorOf(kIrqHandlers'[v].handler)
                 /\ \/ /\ kIrqHandlers'[v].handler \in registered
                       /\ kIrqHandlers'[v].data = kIrqHandlers'[v].handler
                    \/ kIrqHandlers'[v].handler = irq
      <3>1. CASE v = VectorOf(irq)
        <4>1. kIrqHandlers'[v].handler = irq
          BY <1>4, <1>5, <3>1 DEF TypeOK
        <4>2. QED
          BY <3>1, <4>1
      <3>2. CASE v # VectorOf(irq)
        <4>1. kIrqHandlers'[v] = kIrqHandlers[v]
          BY <1>4, <1>5, <3>2 DEF TypeOK
        <4>2. QED
          BY <1>6, <2>1, <4>1 DEF HandlersSound
      <3>3. QED
        BY <3>1, <3>2
    <2>2. QED
      BY <1>6, <2>1 DEF HandlersSound
  <1>14. PendingSound' /\ SoftwareSound'
    BY <1>1, <1>6, SameHighest DEF PendingSound, SoftwareSound
  <1>15. QED
    BY <1>8, <1>9, <1>10, <1>11, <1>12, <1>13, <1>14

LEMMA RegisterDataSound ==
  ASSUME IInv, RegisterData
  PROVE  IInv'
PROOF
  <1> USE DEF IInv
  <1>1. /\ phase = "register" /\ phase' = "up" /\ current' = NoOne
        /\ kIrqHandlers' = [kIrqHandlers EXCEPT ![VectorOf(current)].data = current]
        /\ registered' = registered \cup {current}
        /\ UNCHANGED <<madt, known, kApicHighestIrq, kIrqSwBitmap, software, enabled, rentry,
                       irr, due>>
    BY DEF RegisterData
  <1>2. current \in Irqs \ registered
    BY <1>1 DEF HandlersSound
  <1>3. VectorOf(current) \in 0 .. IRQ_NUM_VECTORS - 1
    BY <1>2, VectorOfIrq
  <1>4. \A p, k, i : Addresses(p, k, i)' <=> Addresses(p, k, i)
    BY <1>1, SameAddresses
  <1>5. TypeOK'
    BY <1>1, <1>2, <1>3 DEF TypeOK
  <1>6. EntriesTyped' /\ ScanSound'
    BY <1>1 DEF EntriesTyped, ScanSound
  <1>7. EntriesSound'
    BY <1>1, <1>4 DEF EntriesSound
  <1>8. RegisteredRouted'
    <2>1. \A k \in 1 .. Len(madt) : \A i \in 0 .. madt[k].max_rentry : i # NoOne
      BY MadtEntry DEF NoOne, EntriesTyped
    <2>2. QED
      BY <1>1, <1>4, <2>1 DEF RegisteredRouted
  <1>9. HandlersSound'
    <2>1. ASSUME NEW v \in 0 .. IRQ_NUM_VECTORS - 1, kIrqHandlers'[v].handler # NoOne
          PROVE  /\ v = VectorOf(kIrqHandlers'[v].handler)
                 /\ kIrqHandlers'[v].handler \in registered'
                 /\ kIrqHandlers'[v].data = kIrqHandlers'[v].handler
      <3>1. kIrqHandlers'[v].handler = kIrqHandlers[v].handler
        BY <1>1, <1>3 DEF TypeOK
      <3>2. /\ v = VectorOf(kIrqHandlers[v].handler)
            /\ \/ /\ kIrqHandlers[v].handler \in registered
                  /\ kIrqHandlers[v].data = kIrqHandlers[v].handler
               \/ kIrqHandlers[v].handler = current
        BY <2>1, <3>1 DEF HandlersSound
      <3>3. CASE kIrqHandlers[v].handler = current
        <4>1. kIrqHandlers'[v].data = current
          BY <1>1, <1>3, <3>2, <3>3 DEF TypeOK
        <4>2. QED
          BY <1>1, <3>1, <3>2, <3>3, <4>1
      <3>4. CASE kIrqHandlers[v].handler \in registered /\ kIrqHandlers[v].data = kIrqHandlers[v].handler
        <4>1. v # VectorOf(current)
          <5>1. kIrqHandlers[v].handler \in Irqs
            BY <3>4 DEF TypeOK
          <5>2. kIrqHandlers[v].handler # current
            BY <1>2, <3>4
          <5>3. QED
            BY <1>2, <3>2, <5>1, <5>2, VectorOfInjective
        <4>2. kIrqHandlers'[v] = kIrqHandlers[v]
          BY <1>1, <1>3, <4>1 DEF TypeOK
        <4>3. registered \subseteq registered'
          BY <1>1
        <4>4. QED
          BY <3>2, <3>4, <4>2, <4>3, Zenon
      <3>5. QED
        BY <3>2, <3>3, <3>4
    <2>2. QED
      BY <1>1, <2>1 DEF HandlersSound
  <1>10. PendingSound' /\ SoftwareSound'
    BY <1>1, SameHighest DEF PendingSound, SoftwareSound
  <1>11. QED
    BY <1>5, <1>6, <1>7, <1>8, <1>9, <1>10

LEMMA ApicEnableInterruptSound ==
  ASSUME IInv, NEW irq \in Irqs, ApicEnableInterrupt(irq)
  PROVE  IInv'
PROOF
  <1> USE DEF IInv
  <1>1. /\ phase = "up" /\ irq \in registered /\ enabled' = enabled \cup {irq}
        /\ rentry' = IF irq <= kApicHighestIrq THEN ApicSetIrqMask(rentry, irq, FALSE) ELSE rentry
        /\ UNCHANGED <<madt, known, phase, current, kApicHighestIrq, kIrqHandlers,
                       kIrqSwBitmap, software, registered, irr, due>>
    BY DEF ApicEnableInterrupt
  <1>2. madt \in Madts /\ IsTable(madt, rentry)
    BY <1>1, UpFacts
  <1>3. \A p, k, i : Addresses(p, k, i)' <=> Addresses(p, k, i)
    BY <1>1, SameAddresses
  <1>4. /\ IsTable(madt, rentry')
        /\ \A k \in 1 .. Len(madt) : \A i \in 0 .. madt[k].max_rentry :
             /\ rentry'[k][i].vector = rentry[k][i].vector
             /\ rentry'[k][i].mask = rentry[k][i].mask \/ (i = irq /\ Addresses(i, k, i))
    <2>1. CASE irq <= kApicHighestIrq
      <3> DEFINE mask == FALSE
                 w == ApicSetIrqMask(rentry, irq, mask)
      <3>1. rentry' = w /\ mask \in BOOLEAN
        BY <1>1, <2>1
      <3> HIDE DEF mask
      <3>2. /\ IsTable(madt, w)
            /\ \A k \in 1 .. Len(madt) : \A i \in 0 .. madt[k].max_rentry :
                 /\ w[k][i].vector = rentry[k][i].vector
                 /\ w[k][i].mask = IF i = irq /\ Addresses(i, k, i) THEN mask ELSE rentry[k][i].mask
        BY <1>2, <3>1, MaskWritten
      <3> HIDE DEF w
      <3>3. QED
        BY <3>1, <3>2 DEF mask
    <2>2. CASE ~(irq <= kApicHighestIrq)
      BY <1>1, <1>2, <2>2
    <2>3. QED
      BY <2>1, <2>2
  <1>5. TypeOK'
    BY <1>1 DEF TypeOK
  <1>6. EntriesTyped' /\ ScanSound'
    BY <1>1, <1>2, <1>4 DEF EntriesTyped, IsTable, ScanSound
  <1>7. EntriesSound'
    <2>1. ASSUME NEW k \in 1 .. Len(madt), NEW i \in 0 .. madt[k].max_rentry, ~rentry'[k][i].mask
          PROVE  Addresses(i, k, i) /\ i \in enabled' /\ rentry'[k][i].vector = VectorOf(i)
      <3>1. CASE ~rentry[k][i].mask
        BY <1>1, <1>4, <3>1 DEF EntriesSound
      <3>2. CASE i = irq /\ Addresses(i, k, i)
        BY <1>1, <1>4, <3>2 DEF RegisteredRouted
      <3>3. QED
        BY <1>4, <2>1, <3>1, <3>2
    <2>2. QED
      BY <1>1, <1>3, <2>1 DEF EntriesSound
  <1>8. RegisteredRouted'
    <2>1. ASSUME NEW k \in 1 .. Len(madt), NEW i \in 0 .. madt[k].max_rentry,
                 i \in registered \/ i = current, Addresses(i, k, i)
          PROVE  rentry'[k][i].vector = VectorOf(i)
      <3>1. rentry[k][i].vector = VectorOf(i)
        BY <2>1 DEF RegisteredRouted
      <3>2. QED
        BY <1>4, <3>1
    <2>2. QED
      BY <1>1, <1>3, <2>1 DEF RegisteredRouted
  <1>9. HandlersSound' /\ PendingSound' /\ SoftwareSound'
    BY <1>1, SameHighest DEF HandlersSound, PendingSound, SoftwareSound
  <1>10. QED
    BY <1>5, <1>6, <1>7, <1>8, <1>9

LEMMA ApicDisableInterruptSound ==
  ASSUME IInv, NEW irq \in Irqs, ApicDisableInterrupt(irq)
  PROVE  IInv'
PROOF
  <1> USE DEF IInv
  <1>1. /\ phase = "up" /\ irq \in enabled /\ enabled' = enabled \ {irq}
        /\ rentry' = IF irq <= kApicHighestIrq THEN ApicSetIrqMask(rentry, irq, TRUE) ELSE rentry
        /\ UNCHANGED <<madt, known, phase, current, kApicHighestIrq, kIrqHandlers,
                       kIrqSwBitmap, software, registered, irr, due>>
    BY DEF ApicDisableInterrupt
  <1>2. /\ madt \in Madts /\ IsTable(madt, rentry) /\ kApicHighestIrq \in Nat
        /\ \A k \in 1 .. Len(madt) : madt[k].gsi_base + madt[k].max_rentry <= kApicHighestIrq
    BY <1>1, UpFacts
  <1>3. \A p, k, i : Addresses(p, k, i)' <=> Addresses(p, k, i)
    BY <1>1, SameAddresses
  <1>4. /\ IsTable(madt, rentry')
        /\ \A k \in 1 .. Len(madt) : \A i \in 0 .. madt[k].max_rentry :
             /\ rentry'[k][i].vector = rentry[k][i].vector
             /\ ~rentry'[k][i].mask => ~rentry[k][i].mask /\ ~(i = irq /\ Addresses(i, k, i))
    <2>1. CASE irq <= kApicHighestIrq
      <3> DEFINE mask == TRUE
                 w == ApicSetIrqMask(rentry, irq, mask)
      <3>1. rentry' = w /\ mask \in BOOLEAN
        BY <1>1, <2>1
      <3> HIDE DEF mask
      <3>2. /\ IsTable(madt, w)
            /\ \A k \in 1 .. Len(madt) : \A i \in 0 .. madt[k].max_rentry :
                 /\ w[k][i].vector = rentry[k][i].vector
                 /\ w[k][i].mask = IF i = irq /\ Addresses(i, k, i) THEN mask ELSE rentry[k][i].mask
        BY <1>2, <3>1, MaskWritten
      <3> HIDE DEF w
      <3>3. QED
        BY <3>1, <3>2 DEF mask
    <2>2. CASE ~(irq <= kApicHighestIrq)
      <3>1. \A k \in 1 .. Len(madt) : \A i \in 0 .. madt[k].max_rentry : i <= kApicHighestIrq
        BY <1>2, MadtEntry
      <3>2. QED
        BY <1>1, <1>2, <2>2, <3>1
    <2>3. QED
      BY <2>1, <2>2
  <1>5. TypeOK'
    BY <1>1 DEF TypeOK
  <1>6. EntriesTyped' /\ ScanSound'
    BY <1>1, <1>2, <1>4 DEF EntriesTyped, IsTable, ScanSound
  <1>7. EntriesSound'
    <2>1. ASSUME NEW k \in 1 .. Len(madt), NEW i \in 0 .. madt[k].max_rentry, ~rentry'[k][i].mask
          PROVE  Addresses(i, k, i) /\ i \in enabled' /\ rentry'[k][i].vector = VectorOf(i)
      <3>1. Addresses(i, k, i) /\ i \in enabled /\ rentry[k][i].vector = VectorOf(i)
        BY <1>1, <1>4, <2>1 DEF EntriesSound
      <3>2. QED
        BY <1>1, <1>4, <2>1, <3>1
    <2>2. QED
      BY <1>1, <1>3, <2>1 DEF EntriesSound
  <1>8. RegisteredRouted'
    <2>1. ASSUME NEW k \in 1 .. Len(madt), NEW i \in 0 .. madt[k].max_rentry,
                 i \in registered \/ i = current, Addresses(i, k, i)
          PROVE  rentry'[k][i].vector = VectorOf(i)
      <3>1. rentry[k][i].vector = VectorOf(i)
        BY <2>1 DEF RegisteredRouted
      <3>2. QED
        BY <1>4, <3>1
    <2>2. QED
      BY <1>1, <1>3, <2>1 DEF RegisteredRouted
  <1>9. HandlersSound' /\ PendingSound' /\ SoftwareSound'
    BY <1>1, SameHighest DEF HandlersSound, PendingSound, SoftwareSound
  <1>10. QED
    BY <1>5, <1>6, <1>7, <1>8, <1>9

\* The free indices of kIrqSwBitmap start after the software IRQs given out.
LEMMA ApicAllocateSoftwareIrqSound ==
  ASSUME IInv, ApicAllocateSoftwareIrq
  PROVE  IInv'
PROOF
  <1> USE DEF IInv
  <1> DEFINE free == (0 .. IRQ_NUM_VECTORS - 1) \ kIrqSwBitmap
             n == Len(software)
  <1>1. /\ phase = "up" /\ n < MaxSoftware /\ free # {}
        /\ kIrqSwBitmap' = kIrqSwBitmap \cup {Min(free)}
        /\ software' = Append(software, SoftwareIrq(Min(free)))
        /\ UNCHANGED <<madt, known, phase, current, kApicHighestIrq, kIrqHandlers,
                       registered, enabled, rentry, irr, due>>
    BY DEF ApicAllocateSoftwareIrq
  <1>2. \A p, k, i : Addresses(p, k, i)' <=> Addresses(p, k, i)
    BY <1>1, SameAddresses
  <1>3. /\ software \in Seq(Nat) /\ n \in Nat
        /\ kIrqSwBitmap = (0 .. n - 1) \cup (kIpiVector - IRQ_VECTOR_BASE .. IRQ_NUM_VECTORS - 1)
        /\ \A m \in 1 .. n : software[m] = m + kApicHighestIrq
    BY <1>1 DEF SoftwareSound
  <1>4. /\ kApicHighestIrq \in Nat
        /\ kApicHighestIrq + MaxSoftware + IRQ_VECTOR_BASE < kIpiVector
    BY <1>1, UpFacts
  <1>5. Min(free) = n
    <2>1. n \in free /\ free \subseteq Nat /\ \A y \in free : n <= y
      BY <1>1, <1>3, <1>4, Constants DEF kIpiVector
    <2> HIDE DEF free
    <2>2. Min(free) \in free /\ \A y \in free : Min(free) <= y
      BY <1>1, <2>1, MinOf
    <2>3. Min(free) \in Nat /\ n <= Min(free) /\ Min(free) <= n
      BY <2>1, <2>2
    <2> HIDE DEF n
    <2>4. QED
      BY <1>3, <2>3
  <1> HIDE DEF free
  <1>6. software' = Append(software, n + kApicHighestIrq + 1)
    BY <1>1, <1>5 DEF SoftwareIrq
  <1>7. /\ software' \in Seq(Nat) /\ Len(software') = n + 1
        /\ \A m \in 1 .. n + 1 : software'[m] = m + kApicHighestIrq
    <2>1. /\ n + kApicHighestIrq + 1 \in Nat /\ Len(software') = n + 1
          /\ software' \in Seq(Nat)
      BY <1>3, <1>4, <1>6
    <2>2. ASSUME NEW m \in 1 .. n + 1
          PROVE  software'[m] = m + kApicHighestIrq
      <3>1. CASE m \in 1 .. n
        <4>1. software'[m] = software[m]
          BY <1>3, <1>6, <3>1
        <4>2. QED
          BY <1>3, <3>1, <4>1
      <3>2. CASE m = n + 1
        <4>1. software'[m] = n + kApicHighestIrq + 1
          BY <1>3, <1>6, <3>2
        <4>2. QED
          BY <1>3, <1>4, <3>2, <4>1
      <3>3. QED
        BY <1>3, <3>1, <3>2
    <2>3. QED
      BY <2>1, <2>2
  <1>8. SoftwareSound'
    <2>1. kIrqSwBitmap' = (0 .. Len(software') - 1)
                            \cup (kIpiVector - IRQ_VECTOR_BASE .. IRQ_NUM_VECTORS - 1)
      BY <1>1, <1>3, <1>5, <1>7
    <2>2. kApicHighestIrq' = ApicGetHighestIrq'
      BY <1>1, SameHighest DEF SoftwareSound
    <2>3. QED
      BY <1>1, <1>3, <1>7, <2>1, <2>2, Constants DEF SoftwareSound
  <1>9. TypeOK'
    BY <1>1, <1>3, <1>4, <1>5, Constants DEF TypeOK, kIpiVector
  <1>10. EntriesTyped' /\ ScanSound'
    BY <1>1 DEF EntriesTyped, ScanSound
  <1>11. EntriesSound' /\ RegisteredRouted'
    BY <1>1, <1>2 DEF EntriesSound, RegisteredRouted
  <1>12. HandlersSound' /\ PendingSound'
    BY <1>1 DEF HandlersSound, PendingSound
  <1>13. QED
    BY <1>8, <1>9, <1>10, <1>11, <1>12

\* What devices and the local APIC do changes irr and due only.
LEMMA PendingChanges ==
  ASSUME IInv, UNCHANGED <<main, rentry>>, irr' \subseteq Vectors,
         due' \subseteq enabled \cup registered, PendingSound'
  PROVE  IInv'
PROOF
  <1>1. UNCHANGED <<madt, known, phase, current, kApicHighestIrq, kIrqHandlers,
                    kIrqSwBitmap, software, registered, enabled, rentry>>
    BY DEF main
  <1>2. \A p, k, i : Addresses(p, k, i)' <=> Addresses(p, k, i)
    BY <1>1, SameAddresses
  <1>3. TypeOK' /\ EntriesTyped' /\ ScanSound' /\ HandlersSound'
    BY <1>1 DEF IInv, TypeOK, EntriesTyped, ScanSound, HandlersSound, Vectors
  <1>4. EntriesSound' /\ RegisteredRouted'
    BY <1>1, <1>2 DEF IInv, EntriesSound, RegisteredRouted
  <1>5. SoftwareSound'
    BY <1>1, SameHighest DEF IInv, SoftwareSound
  <1>6. QED
    BY <1>3, <1>4, <1>5 DEF IInv

LEMMA RaiseSound ==
  ASSUME IInv, NEW k \in 1 .. Len(madt), NEW i \in 0 .. madt[k].max_rentry, Raise(k, i)
  PROVE  IInv'
PROOF
  <1>1. /\ UNCHANGED <<main, rentry>>
        /\ irr' = IF rentry[k][i].mask THEN irr ELSE irr \cup {rentry[k][i].vector}
        /\ due' \subseteq due \cup enabled
    BY DEF Raise
  <1>2. rentry[k][i] \in [vector : Vectors, mask : BOOLEAN]
    BY DEF IInv, EntriesTyped
  <1>3. irr' \subseteq Vectors /\ due' \subseteq enabled \cup registered
    BY <1>1, <1>2 DEF IInv, TypeOK, Vectors
  <1>4. PendingSound'
    <2>1. CASE rentry[k][i].mask \/ phase = "scan"
      BY <1>1, <2>1 DEF IInv, PendingSound, main
    <2>2. CASE ~rentry[k][i].mask /\ phase # "scan"
      <3>1. i \in enabled /\ rentry[k][i].vector = VectorOf(i)
        BY <2>2 DEF IInv, EntriesSound
      <3>2. i \in registered
        BY <3>1 DEF IInv, TypeOK
      <3>3. QED
        BY <1>1, <2>2, <3>1, <3>2 DEF IInv, PendingSound, main
    <2>3. QED
      BY <2>1, <2>2
  <1>5. QED
    BY <1>1, <1>3, <1>4, PendingChanges

LEMMA MessageSound ==
  ASSUME IInv, NEW irq \in Irqs, Message(irq)
  PROVE  IInv'
PROOF
  <1>1. /\ UNCHANGED <<main, rentry>> /\ irq \in enabled
        /\ irr' = irr \cup {VectorOf(irq)} /\ due' = due \cup {irq}
    BY DEF Message
  <1>2. irq \in registered
    BY <1>1 DEF IInv, TypeOK
  <1>3. VectorOf(irq) \in Vectors
    BY VectorOfIrq
  <1>4. irr' \subseteq Vectors /\ due' \subseteq enabled \cup registered
    BY <1>1, <1>2, <1>3 DEF IInv, TypeOK, Vectors
  <1>5. PendingSound'
    BY <1>1, <1>2 DEF IInv, PendingSound, main
  <1>6. QED
    BY <1>1, <1>4, <1>5, PendingChanges

LEMMA IrqHandlerSound ==
  ASSUME IInv, IrqHandler
  PROVE  IInv'
PROOF
  <1>1. UNCHANGED <<main, rentry>> /\ irr' \subseteq irr /\ due' \subseteq due
    BY DEF IrqHandler
  <1>2. irr' \subseteq Vectors /\ due' \subseteq enabled \cup registered
    BY <1>1 DEF IInv, TypeOK, Vectors
  <1>3. PendingSound'
    BY <1>1 DEF IInv, PendingSound, main
  <1>4. QED
    BY <1>1, <1>2, <1>3, PendingChanges

LEMMA StutterSound ==
  ASSUME IInv, UNCHANGED vars
  PROVE  IInv'
PROOF
  <1>1. UNCHANGED <<main, rentry>> /\ irr' = irr /\ due' = due
    BY DEF vars
  <1>2. irr' \subseteq Vectors /\ due' \subseteq enabled \cup registered
    BY <1>1 DEF IInv, TypeOK, Vectors
  <1>3. PendingSound'
    BY <1>1 DEF IInv, PendingSound, main
  <1>4. QED
    BY <1>1, <1>2, <1>3, PendingChanges

(***************************************************************************)
(* The theorems.                                                           *)
(***************************************************************************)
\* The invariant is inductive: every function of apic.c that writes an entry
\* or kIrqHandlers, every raised line, every message and every delivery keeps
\* it, wherever the interrupt falls between the main thread's steps.
THEOREM Invariance == Spec => []IInv
PROOF
  <1>1. Init => IInv
    BY InitSound
  <1>2. IInv /\ [Next]_vars => IInv'
    <2> SUFFICES ASSUME IInv, [Next]_vars
                 PROVE  IInv'
      OBVIOUS
    <2>1. CASE AddIoApic
      BY <2>1, AddIoApicSound
    <2>2. CASE ApicInitializeInterrupts
      BY <2>2, ApicInitializeInterruptsSound
    <2>3. CASE \E irq \in Irqs : ApicRegisterIrqHandler(irq)
      BY <2>3, ApicRegisterIrqHandlerSound
    <2>4. CASE RegisterData
      BY <2>4, RegisterDataSound
    <2>5. CASE \E irq \in Irqs : ApicEnableInterrupt(irq)
      BY <2>5, ApicEnableInterruptSound
    <2>6. CASE \E irq \in Irqs : ApicDisableInterrupt(irq)
      BY <2>6, ApicDisableInterruptSound
    <2>7. CASE ApicAllocateSoftwareIrq
      BY <2>7, ApicAllocateSoftwareIrqSound
    <2>8. CASE \E k \in 1 .. Len(madt) : \E i \in 0 .. madt[k].max_rentry : Raise(k, i)
      BY <2>8, RaiseSound
    <2>9. CASE \E irq \in Irqs : Message(irq)
      BY <2>9, MessageSound
    <2>10. CASE IrqHandler
      BY <2>10, IrqHandlerSound
    <2>11. CASE UNCHANGED vars
      BY <2>11, StutterSound
    <2>12. QED
      BY <2>1, <2>2, <2>3, <2>4, <2>5, <2>6, <2>7, <2>8, <2>9, <2>10, <2>11 DEF Next
  <1>3. QED
    BY <1>1, <1>2, PTL DEF Spec

\* Type correctness of the APIC's and the dispatcher's state: handlers are
\* stored at vectors that exist, and no exception's vector is ever pending.
THEOREM TypeCorrect == Spec => []TypeOK
PROOF
  <1>1. IInv => TypeOK
    BY DEF IInv
  <1>2. QED
    BY <1>1, Invariance, PTL

\* For every MADT the assumptions allow, an entry is unmasked only while the
\* driver of that very line has its IRQ enabled and carries that IRQ's vector,
\* and ApicAllocateSoftwareIrq gives out IRQs nobody else has a vector of.
THEOREM IrqsStaySeparate == Spec => []IrqsSeparate
PROOF
  <1>1. ASSUME IInv
        PROVE  MaskedUntilEnabled
    <2> SUFFICES ASSUME phase # "scan", NEW k \in 1 .. Len(madt), NEW i \in 0 .. madt[k].max_rentry,
                        ~rentry[k][i].mask
                 PROVE  /\ madt[k].gsi_base + i \in enabled
                        /\ rentry[k][i].vector = VectorOf(madt[k].gsi_base + i)
      BY DEF MaskedUntilEnabled
    <2>1. Addresses(i, k, i) /\ i \in enabled /\ rentry[k][i].vector = VectorOf(i)
      BY <1>1 DEF IInv, EntriesSound
    <2>2. madt[k].gsi_base + i = i
      BY <1>1, <2>1, UpFacts, AddressedEntry
    <2>3. QED
      BY <2>1, <2>2
  <1>2. ASSUME IInv
        PROVE  SoftwareIrqsDistinct
    <2>1. CASE phase = "scan"
      BY <1>2, <2>1 DEF IInv, ScanSound, SoftwareIrqsDistinct
    <2>2. CASE phase # "scan"
      <3>1. /\ Len(software) \in Nat /\ Len(software) <= MaxSoftware
            /\ \A n \in 1 .. Len(software) : software[n] = n + kApicHighestIrq
        BY <1>2, <2>2 DEF IInv, SoftwareSound
      <3>2. /\ kApicHighestIrq \in Nat
            /\ kApicHighestIrq + MaxSoftware + IRQ_VECTOR_BASE < kIpiVector
        BY <1>2, <2>2, UpFacts
      <3>3. ASSUME NEW n \in 1 .. Len(software)
            PROVE  /\ software[n] > kApicHighestIrq
                   /\ VectorOf(software[n]) \in IRQ_VECTOR_BASE .. kIpiVector - 1
                   /\ \A m \in 1 .. n - 1 : software[m] # software[n]
        <4>1. software[n] = n + kApicHighestIrq /\ software[n] \in Irqs
          BY <3>1, <3>2, Constants DEF Irqs, kIpiVector
        <4>2. VectorOf(software[n]) = n + kApicHighestIrq + IRQ_VECTOR_BASE
          BY <4>1, VectorOfIrq
        <4>3. VectorOf(software[n]) \in IRQ_VECTOR_BASE .. kIpiVector - 1
          BY <3>1, <3>2, <4>2, Constants DEF kIpiVector
        <4>4. \A m \in 1 .. n - 1 : software[m] = m + kApicHighestIrq
          BY <3>1
        <4>5. QED
          BY <3>1, <3>2, <4>1, <4>3, <4>4
      <3>4. QED
        BY <3>3 DEF SoftwareIrqsDistinct
    <2>3. QED
      BY <2>1, <2>2
  <1>3. IInv => IrqsSeparate
    BY <1>1, <1>2 DEF IrqsSeparate
  <1>4. QED
    BY <1>3, Invariance, PTL

\* A delivered vector's handler is called for its own IRQ and with its own
\* data, although ApicRegisterIrqHandler stores the two with interrupts on.
THEOREM CallsAlwaysMatch == Spec => CallsMatch
PROOF
  <1>1. ASSUME IInv, NEW vector \in irr, kIrqHandlers[vector].handler # NoOne
        PROVE  /\ kIrqHandlers[vector].data = kIrqHandlers[vector].handler
               /\ vector = VectorOf(kIrqHandlers[vector].handler)
    <2> DEFINE irq == kIrqHandlers[vector].handler
    <2>1. vector \in 0 .. IRQ_NUM_VECTORS - 1
      BY <1>1, Constants DEF IInv, TypeOK
    <2>2. phase # "scan"
      BY <1>1, <2>1 DEF IInv, ScanSound
    <2>3. PICK p \in registered : vector = VectorOf(p)
      BY <1>1, <2>2 DEF IInv, PendingSound
    <2>4. /\ vector = VectorOf(irq)
          /\ (irq \in registered /\ kIrqHandlers[vector].data = irq) \/ irq = current
      BY <1>1, <2>1 DEF IInv, HandlersSound
    <2>5. irq \in Irqs /\ p \in Irqs
      BY <1>1, <2>1 DEF IInv, TypeOK
    <2>6. irq = p
      BY <2>3, <2>4, <2>5, VectorOfInjective
    <2>7. irq # current
      <3>1. current \notin registered \/ current = NoOne
        BY <1>1 DEF IInv, HandlersSound
      <3>2. QED
        BY <1>1, <2>6, <3>1
    <2>8. QED
      BY <2>4, <2>7
  <1>2. IInv => [\A vector \in irr \ irr' :
                   LET entry == kIrqHandlers[vector]
                   IN  entry.handler # NoOne =>
                         entry.data = entry.handler /\ vector = VectorOf(entry.handler)]_vars
    BY <1>1
  <1>3. QED
    BY <1>2, Invariance, PTL DEF CallsMatch
=============================================================================

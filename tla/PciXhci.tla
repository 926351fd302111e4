------------------------------ MODULE PciXhci ------------------------------
(***************************************************************************)
(* PCI enumeration (dev/pci.c) and the set-up of an xHCI controller and    *)
(* its interrupter (dev/usb/xhci.c).  PciInitialize visits the functions   *)
(* of the bus in order and runs initialize for those a driver accepts; the *)
(* controllers run beside it.                                              *)
(*                                                                         *)
(* A function is described by what the code reads from it: its kind, the   *)
(* number of its interrupters, the low byte of hcc_params1 (hcc), its list *)
(* of capabilities (start, and caps by address) and the field off of its   *)
(* MSI-X capability.                                                       *)
(***************************************************************************)
EXTENDS Integers, Sequences, FiniteSetsExt

CONSTANTS
  Buses,             \* the sequences of functions that may be on the bus
  DRIVER_LIMIT,      \* 256: the range of kLoadedPciDriverCount
  FirstIrq,          \* kApicHighestIrq + 1
  SoftwareIrqs,      \* number of software IRQs that can be allocated
  IRQ_VECTOR_BASE

Probed(f) == f.kind \in {"xhci", "gpu"}

(* How many of the first n functions of b a driver accepts.                *)
Accepted(b, n) == Cardinality({m \in 1..n : Probed(b[m])})

(* What is read from a function: the pointer to the capabilities and the   *)
(* pointer in each of them are bytes.                                      *)
Readable(f) ==
  /\ f.start \in 0..255 /\ f.interrupters \in Nat
  /\ \A a \in DOMAIN f.caps : f.caps[a].next \in 0..255

(* kLoadedPciDriverCount is a uint8_t: with DRIVER_LIMIT drivers it wraps  *)
(* and kLoadedPciDriverCount - 1 is no index.                              *)
ASSUME PciAssumption ==
  /\ DRIVER_LIMIT \in Nat \ {0} /\ FirstIrq \in Nat /\ SoftwareIrqs \in Nat /\ IRQ_VECTOR_BASE \in Nat
  /\ \A bus \in Buses :
       /\ Len(bus) \in Nat /\ DOMAIN bus = 1..Len(bus) /\ \A n \in DOMAIN bus : Readable(bus[n])
       /\ Accepted(bus, Len(bus)) < DRIVER_LIMIT

Unset == -1

VARIABLES
  bus,                      \* the functions there are
  at,                       \* the one PciInitialize is at
  kLoadedPciDrivers,        \* per entry: the driver and its device
  kLoadedPciDriverCount,
  pciPc,                       \* where the initialisation of the driver is
  capabilities_address,
  interrupter_index,
  irq,
  kIrqSwBitmap,             \* software IRQs that are taken
  kIrqHandlers,             \* vector -> the function whose handler it has
  enabled,                  \* IRQs that are enabled
  registers,                \* what the code wrote to each function
  interrupter               \* per function: xhci->interrupter

apic == <<kIrqSwBitmap, kIrqHandlers, enabled>>
table == <<kLoadedPciDrivers, kLoadedPciDriverCount>>
walk == <<capabilities_address, interrupter_index, irq>>
pciVars == <<bus, at, table, pciPc, walk, apic, registers, interrupter>>

Vectors == 0..(IRQ_VECTOR_BASE + FirstIrq + SoftwareIrqs)
Here == bus[at]

PciInit ==
  /\ bus \in Buses
  /\ at = 1 /\ pciPc = "scan"
  /\ kLoadedPciDrivers = [i \in 0..(DRIVER_LIMIT - 1) |-> [driver |-> "none", device |-> Unset]]
  /\ kLoadedPciDriverCount = 0
  /\ capabilities_address = 0 /\ interrupter_index = Unset /\ irq = Unset
  /\ kIrqSwBitmap = {} /\ kIrqHandlers = [v \in Vectors |-> Unset] /\ enabled = {}
  /\ registers = [n \in DOMAIN bus |-> [command |-> {}, ready |-> TRUE, config |-> Unset, bitmap |-> {}, msix |-> FALSE, entry |-> [address |-> Unset, data |-> Unset]]]
  /\ interrupter = [n \in DOMAIN bus |-> [index |-> Unset, vector |-> Unset]]

HasInterrupter(n) == interrupter[n].index # Unset

-----------------------------------------------------------------------------
(***************************************************************************)
(* PciInitialize.                                                          *)
(***************************************************************************)
SkipFunction ==
  /\ pciPc = "scan" /\ at <= Len(bus) /\ ~Probed(Here)
  /\ at' = at + 1
  /\ UNCHANGED <<bus, table, pciPc, walk, apic, registers, interrupter>>

LoadDriver ==
  /\ pciPc = "scan" /\ at <= Len(bus) /\ Probed(Here)
  /\ kLoadedPciDriverCount' = (kLoadedPciDriverCount + 1) % DRIVER_LIMIT
  /\ kLoadedPciDrivers' = [kLoadedPciDrivers EXCEPT ![kLoadedPciDriverCount].driver = Here.kind,
                                                    ![kLoadedPciDriverCount' - 1].device = at]
  /\ pciPc' = Here.kind
  /\ UNCHANGED <<bus, at, walk, apic, registers, interrupter>>

(* The initialisation of a driver returns.                                 *)
Initialized == pciPc' = "scan" /\ at' = at + 1 /\ UNCHANGED <<bus, table, walk>>

(* CherryTrailInitialize only maps the registers.                          *)
InitializeGpu ==
  /\ pciPc = "gpu"
  /\ Initialized
  /\ UNCHANGED <<apic, registers, interrupter>>

-----------------------------------------------------------------------------
(***************************************************************************)
(* XhciInitialize.                                                         *)
(***************************************************************************)
Reset ==
  /\ pciPc = "xhci"
  /\ registers' = [registers EXCEPT ![at].command = {"bus master", "memory"}, ![at].ready = FALSE]
  /\ pciPc' = "wait"
  /\ UNCHANGED <<bus, at, table, walk, apic, interrupter>>

(* The controller: kUsbStsControllerNotReady goes away after a reset.      *)
BecomeReady(n) ==
  /\ ~registers[n].ready
  /\ registers' = [registers EXCEPT ![n].ready = TRUE]
  /\ UNCHANGED <<bus, at, table, pciPc, walk, apic, interrupter>>

XhciSetUp ==
  /\ pciPc = "wait" /\ registers[at].ready
  /\ registers' = [registers EXCEPT ![at].config = Here.hcc % 256, ![at].bitmap = {}]
  /\ pciPc' = "interrupter"
  /\ UNCHANGED <<bus, at, table, walk, apic, interrupter>>

(***************************************************************************)
(* XhciInterrupterCreate: a free interrupter, a software IRQ, ...          *)
(***************************************************************************)
FreeInterrupters == {i \in 0..(Here.interrupters - 1) : i \notin registers[at].bitmap}
FreeIrqs == {i \in FirstIrq..(FirstIrq + SoftwareIrqs - 1) : i \notin kIrqSwBitmap}

NoInterrupter ==
  /\ pciPc = "interrupter" /\ FreeInterrupters = {}
  /\ Initialized
  /\ UNCHANGED <<apic, registers, interrupter>>

(* The bit of the interrupter stays set.                                   *)
NoIrq ==
  /\ pciPc = "interrupter" /\ FreeInterrupters # {} /\ FreeIrqs = {}
  /\ registers' = [registers EXCEPT ![at].bitmap = @ \cup {Min(FreeInterrupters)}]
  /\ Initialized
  /\ UNCHANGED <<apic, interrupter>>

(* Mutant: the IRQ that was found is not marked.                           *)
TakeIrqUnmarked ==
  /\ pciPc = "interrupter" /\ FreeInterrupters # {} /\ FreeIrqs # {}
  /\ interrupter_index' = Min(FreeInterrupters)
  /\ registers' = [registers EXCEPT ![at].bitmap = @ \cup {interrupter_index'}]
  /\ irq' = Min(FreeIrqs)
  /\ kIrqHandlers' = [kIrqHandlers EXCEPT ![irq' + IRQ_VECTOR_BASE] = at]
  /\ enabled' = enabled \cup {irq'}
  /\ capabilities_address' = Here.start
  /\ pciPc' = "walk"
  /\ UNCHANGED <<bus, at, table, kIrqSwBitmap, interrupter>>

TakeIrq ==
  /\ pciPc = "interrupter" /\ FreeInterrupters # {} /\ FreeIrqs # {}
  /\ interrupter_index' = Min(FreeInterrupters)
  /\ registers' = [registers EXCEPT ![at].bitmap = @ \cup {interrupter_index'}]
  /\ irq' = Min(FreeIrqs)
  /\ kIrqSwBitmap' = kIrqSwBitmap \cup {irq'}
  /\ kIrqHandlers' = [kIrqHandlers EXCEPT ![irq' + IRQ_VECTOR_BASE] = at]
  /\ enabled' = enabled \cup {irq'}
  /\ capabilities_address' = Here.start
  /\ pciPc' = "walk"
  /\ UNCHANGED <<bus, at, table, interrupter>>

(***************************************************************************)
(* ... the MSI-X capability.  PciRead32 takes a uint8_t and reads aligned  *)
(* words, so of capabilities_address only the low byte is kept here.       *)
(***************************************************************************)
MSIX == 17
XCAP_NEXT(v) == v.next * 4
NoCapability == [id |-> 0, next |-> 0]
PciReadCapability(address) ==
  LET word == address - (address % 4)
  IN  IF word \in DOMAIN Here.caps THEN Here.caps[word] ELSE NoCapability
capability == PciReadCapability(capabilities_address)

NextCapability ==
  /\ pciPc = "walk" /\ capability.id # MSIX /\ XCAP_NEXT(capability) # 0
  /\ capabilities_address' = (capabilities_address + XCAP_NEXT(capability)) % 256
  /\ UNCHANGED <<bus, at, table, pciPc, interrupter_index, irq, apic, registers, interrupter>>

(* The interrupter, the IRQ and the handler stay allocated.                *)
NoMsix ==
  /\ pciPc = "walk" /\ capability.id # MSIX /\ XCAP_NEXT(capability) = 0
  /\ Initialized
  /\ UNCHANGED <<apic, registers, interrupter>>

(* The bit written to the word of the capability, and the enable bit,      *)
(* which is in the upper half; the next pointer is read-only.              *)
WrittenBit == 15
EnableBit == 31

(***************************************************************************)
(* ... and its table entry.  off is the number of 8-byte units.            *)
(***************************************************************************)
EntrySize == 16
CreateInterrupter ==
  /\ pciPc = "walk" /\ capability.id = MSIX
  /\ registers' = [registers EXCEPT
       ![at].msix = @ \/ WrittenBit = EnableBit,
       ![at].entry = [address |-> Here.off + interrupter_index * EntrySize, data |-> irq]]
  /\ interrupter' = [interrupter EXCEPT ![at] = [index |-> interrupter_index, vector |-> irq]]
  /\ Initialized
  /\ UNCHANGED apic

-----------------------------------------------------------------------------
PciDone == pciPc = "scan" /\ at > Len(bus) /\ UNCHANGED pciVars

Initialize == Reset \/ XhciSetUp \/ NoInterrupter \/ NoIrq \/ TakeIrq \/ NextCapability \/ NoMsix \/ CreateInterrupter \/ InitializeGpu
Scan == SkipFunction \/ LoadDriver
PciNext == Scan \/ Initialize \/ (\E n \in DOMAIN bus : BecomeReady(n)) \/ PciDone

(* The processor runs on, and a controller becomes ready after its reset.  *)
PciFairness == WF_pciVars(Scan \/ Initialize) /\ WF_pciVars(\E n \in DOMAIN bus : BecomeReady(n))

PciSpec == PciInit /\ [][PciNext]_pciVars /\ PciFairness

-----------------------------------------------------------------------------
(* The variables have their types.                                         *)
PciTypeOK ==
  /\ at \in 1..(Len(bus) + 1)
  /\ kLoadedPciDriverCount \in 0..(DRIVER_LIMIT - 1)
  /\ kLoadedPciDrivers \in [0..(DRIVER_LIMIT - 1) -> [driver : {"none", "xhci", "gpu"}, device : DOMAIN bus \cup {Unset}]]
  /\ pciPc \in {"scan", "gpu", "xhci", "wait", "interrupter", "walk"}
  /\ capabilities_address \in 0..255
  /\ kIrqHandlers \in [Vectors -> DOMAIN bus \cup {Unset}]
  /\ DOMAIN registers = DOMAIN bus /\ DOMAIN interrupter = DOMAIN bus

(***************************************************************************)
(* Entry k of kLoadedPciDrivers is the k-th accepted function with the     *)
(* driver that accepted it, although it is filled through the count before *)
(* and the count after its increment.                                      *)
(***************************************************************************)
Visited == IF pciPc = "scan" THEN at - 1 ELSE at
DriversInOrder ==
  /\ kLoadedPciDriverCount = Accepted(bus, Visited)
  /\ \A n \in 1..Visited :
       Probed(bus[n]) => kLoadedPciDrivers[Accepted(bus, n) - 1] = [driver |-> bus[n].kind, device |-> n]

(***************************************************************************)
(* Whenever a controller may send interrupts through an entry, its IRQ is  *)
(* enabled and leads to this controller's handler and to no other's, also  *)
(* when other controllers failed half-way.                                 *)
(***************************************************************************)
InterruptersReady ==
  \A n \in DOMAIN bus : HasInterrupter(n) =>
    /\ kIrqHandlers[interrupter[n].vector + IRQ_VECTOR_BASE] = n
    /\ interrupter[n].vector \in enabled
    /\ interrupter[n].index \in registers[n].bitmap

(* PciInitialize comes to the end of the bus: no list of capabilities      *)
(* keeps XhciInterrupterCreate.                                            *)
EnumerationEnds == <>(pciPc = "scan" /\ at > Len(bus))

(* PciInitialize is correct: it comes to the end of every bus, the table   *)
(* of drivers is filled in order, and a controller that may interrupt has  *)
(* its handler in place, whichever functions failed half-way.              *)
EnumerationCorrect == EnumerationEnds /\ [](PciTypeOK /\ DriversInOrder /\ InterruptersReady)

(***************************************************************************)
(* The inductive invariant: a software IRQ that an interrupter has, or     *)
(* that the call in progress took, is marked in the bitmap and its vector  *)
(* has the handler; and only functions that PciInitialize has passed have  *)
(* an interrupter.                                                         *)
(***************************************************************************)
Wired(n, index, vector) ==
  /\ vector \in kIrqSwBitmap /\ vector \in enabled
  /\ kIrqHandlers[vector + IRQ_VECTOR_BASE] = n
  /\ index \in registers[n].bitmap

PciIInv ==
  /\ PciTypeOK /\ DriversInOrder /\ bus \in Buses
  /\ pciPc # "scan" => at \in DOMAIN bus
  /\ kIrqSwBitmap \subseteq FirstIrq..(FirstIrq + SoftwareIrqs - 1)
  /\ \A n \in DOMAIN bus : "bitmap" \in DOMAIN registers[n]
  /\ \A n \in DOMAIN bus : HasInterrupter(n) => n < at /\ Wired(n, interrupter[n].index, interrupter[n].vector)
  /\ pciPc = "walk" => Wired(at, interrupter_index, irq)
=============================================================================

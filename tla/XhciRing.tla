------------------------------ MODULE XhciRing ------------------------------
(***************************************************************************)
(* A command ring of the xHCI driver (dev/usb/xhci.c): the driver adds     *)
(* transfer request blocks, the controller fetches them from memory as     *)
(* soon as their cycle bit is the one it expects.  A block is 16 bytes and *)
(* is stored as two words, parameters first, cycle bit and type last; the  *)
(* controller may look at the slot in between.                             *)
(***************************************************************************)
EXTENDS Integers, Sequences, FiniteSetsExt

CONSTANTS
  Commands,         \* the commands (parameters of a TRB with a type)
  NoCommand,        \* what is in memory before the first one
  SIZE,             \* CMD_RING_SIZE
  PAGE_TRBS,        \* PAGE_SIZE / sizeof(XhciTrb)
  MaxOutstanding,   \* commands a caller adds before the controller answered
  StaleCycles       \* cycle bits that kmalloc may leave in the memory

(* The ring fills its pages: XhciRingCreate rounds the number of slots up  *)
(* to whole pages but allocates size slots.                                *)
ASSUME RingAssumption ==
  /\ PAGE_TRBS \in Nat \ {0} /\ SIZE \in Nat /\ SIZE >= 3
  /\ SIZE % PAGE_TRBS = 0
  /\ NoCommand \notin Commands /\ Commands # {}
  /\ MaxOutstanding \in 1..(SIZE - 2)
  /\ StaleCycles \subseteq {0, 1}

VARIABLES
  slots,    \* ring->ptr: parameters, type and cycle bit of each slot
  index,    \* ring->index
  cycle,    \* ring->cycle
  ringPc,       \* where XhciRingAdd is between its stores
  deq,      \* controller: the slot it looks at
  ccs,      \* controller: its consumer cycle state
  got       \* controller: the command it fetched last

driver == <<index, cycle, ringPc>>
controller == <<deq, ccs, got>>
ringVars == <<slots, driver, controller>>

num_pages == (SIZE + PAGE_TRBS - 1) \div PAGE_TRBS
max_index == num_pages * PAGE_TRBS
Slots == 0..(max_index - 1)
LinkSlot == max_index - 1

(***************************************************************************)
(* XhciRingCreate.  The controller starts at the first slot with cycle 1.  *)
(***************************************************************************)
RingInit ==
  /\ slots \in [Slots -> [param : {NoCommand}, type : {"none"}, cycle : StaleCycles]]
  /\ index = 0 /\ cycle = 1 /\ ringPc = "idle"
  /\ deq = 0 /\ ccs = 1 /\ got = NoCommand

-----------------------------------------------------------------------------
(***************************************************************************)
(* The commands in the ring, as the controller will see them: those from   *)
(* deq on whose cycle bits follow its cycle state.  Every lap has the      *)
(* slots before the link, and the next lap the other cycle bit.            *)
(***************************************************************************)
Ahead(k) == slots[(deq + k) % LinkSlot]
Owned(k) == Ahead(k).cycle = (IF deq + k >= LinkSlot THEN 1 - ccs ELSE ccs)
Outstanding == Max({n \in 0..LinkSlot : \A k \in 0..(n - 1) : Owned(k)})
Pending == [k \in 1..Outstanding |-> Ahead(k - 1).param]

(***************************************************************************)
(* XhciRingAdd.  Its caller keeps at most MaxOutstanding commands in the   *)
(* ring; the function itself does not look whether there is room.          *)
(***************************************************************************)
StoreParam(c) ==
  /\ ringPc = "idle" /\ Outstanding < MaxOutstanding
  /\ slots' = [slots EXCEPT ![index].param = c]
  /\ ringPc' = "store"
  /\ UNCHANGED <<index, cycle, controller>>

StoreCycle ==
  /\ ringPc = "store"
  /\ slots' = [slots EXCEPT ![index] = [param |-> @.param, type |-> "command", cycle |-> cycle]]
  /\ index' = index + 1
  /\ ringPc' = IF index + 1 = max_index - 1 THEN "link" ELSE "idle"
  /\ UNCHANGED <<cycle, controller>>

(* The link's address is that of the ring; it is the same on every lap.    *)
LinkAddress ==
  /\ ringPc = "link"
  /\ slots' = [slots EXCEPT ![index].param = NoCommand]
  /\ ringPc' = "link_cycle"
  /\ UNCHANGED <<index, cycle, controller>>

(* Mutant: the ring's cycle bit is not toggled.                            *)
LinkCycleKept ==
  /\ ringPc = "link_cycle"
  /\ slots' = [slots EXCEPT ![index] = [param |-> @.param, type |-> "link", cycle |-> cycle]]
  /\ index' = 0 /\ cycle' = cycle /\ ringPc' = "idle"
  /\ UNCHANGED controller

LinkCycle ==
  /\ ringPc = "link_cycle"
  /\ slots' = [slots EXCEPT ![index] = [param |-> @.param, type |-> "link", cycle |-> cycle]]
  /\ index' = 0 /\ cycle' = 1 - cycle /\ ringPc' = "idle"
  /\ UNCHANGED controller

(***************************************************************************)
(* The controller: fetch the slot when its cycle bit says so, follow a     *)
(* link (whose toggle bit is set) to the first slot.                       *)
(***************************************************************************)
Fetch ==
  /\ slots[deq].cycle = ccs /\ slots[deq].type # "link"
  /\ got' = slots[deq].param /\ deq' = deq + 1
  /\ UNCHANGED <<slots, driver, ccs>>

FollowLink ==
  /\ slots[deq].cycle = ccs /\ slots[deq].type = "link"
  /\ deq' = 0 /\ ccs' = 1 - ccs
  /\ UNCHANGED <<slots, driver, got>>

Add == (\E c \in Commands : StoreParam(c)) \/ StoreCycle \/ LinkAddress \/ LinkCycle

RingNext == Add \/ Fetch \/ FollowLink

(* XhciRingAdd finishes once called, and a running controller fetches.     *)
RingFairness == WF_ringVars(StoreCycle) /\ WF_ringVars(LinkAddress) /\ WF_ringVars(LinkCycle) /\ WF_ringVars(Fetch) /\ WF_ringVars(FollowLink)

RingSpec == RingInit /\ [][RingNext]_ringVars /\ RingFairness

-----------------------------------------------------------------------------
(* The variables have their types.                                         *)
RingTypeOK ==
  /\ slots \in [Slots -> [param : Commands \cup {NoCommand}, type : {"none", "command", "link"}, cycle : {0, 1}]]
  /\ index \in Slots /\ cycle \in {0, 1}
  /\ ringPc \in {"idle", "store", "link", "link_cycle"}
  /\ deq \in Slots /\ ccs \in {0, 1}
  /\ got \in Commands \cup {NoCommand}

(***************************************************************************)
(* The driver never stores into a slot the controller may be reading: the  *)
(* slot of a store in progress is not one of the outstanding ones, and the *)
(* link is not rewritten before the controller has followed it.  XhciRing- *)
(* Add checks neither.                                                     *)
(***************************************************************************)
SlotNotOwned == ringPc # "idle" => ~(deq = index /\ slots[index].cycle = ccs)

(***************************************************************************)
(* The cycle bits tell a full ring from an empty one: what the controller  *)
(* still has to fetch is what lies between its position and the driver's.  *)
(***************************************************************************)
LapsAgree ==
  LET driven == IF index = LinkSlot THEN index ELSE index + (IF cycle = ccs THEN 0 ELSE LinkSlot)
  IN  Outstanding = driven - deq

(* What holds in every state: the three above.                             *)
RingSafe == RingTypeOK /\ SlotNotOwned /\ LapsAgree

(* The ring is a first-in first-out queue and every command is fetched.    *)
Queue == INSTANCE CommandQueue WITH queue <- Pending, Capacity <- MaxOutstanding
IsQueue == Queue!Spec

(* The same without the promise that every command is fetched.             *)
IsQueueSafely == Queue!Init /\ [][Queue!Next]_<<Pending, got>>

(***************************************************************************)
(* The command ring is correct: XhciRingAdd implements a first-in first-   *)
(* out queue from which every command is fetched, it never stores into a   *)
(* slot the controller may be reading, and the cycle bits tell a full ring *)
(* from an empty one.                                                      *)
(***************************************************************************)
RingCorrect == IsQueue /\ [](RingTypeOK /\ SlotNotOwned /\ LapsAgree)

-----------------------------------------------------------------------------
(***************************************************************************)
(* The inductive invariant.  The slots the driver has written in this lap  *)
(* have its cycle bit, all others the bit of the lap before.               *)
(***************************************************************************)
CyclesSound == \A i \in Slots : slots[i].cycle = IF i < index THEN cycle ELSE 1 - cycle

(* Only the last slot is a link, and it is one once the driver is a lap    *)
(* ahead of the controller.                                                *)
LinkSound ==
  /\ \A i \in Slots : slots[i].type = "link" => i = LinkSlot
  /\ cycle # ccs => slots[LinkSlot].type = "link"

(* How far the driver is ahead.                                            *)
Distance == (IF cycle = ccs THEN index ELSE index + LinkSlot) - deq

(* It is never further ahead than its caller allows, and while it writes   *)
(* the link it is in the controller's lap.                                 *)
PositionsSound ==
  /\ Distance \in 0..MaxOutstanding
  /\ ringPc = "store" => Distance < MaxOutstanding /\ slots[index].param \in Commands
  /\ IF ringPc \in {"link", "link_cycle"} THEN index = LinkSlot /\ cycle = ccs ELSE index < LinkSlot

RingIInv == RingTypeOK /\ CyclesSound /\ LinkSound /\ PositionsSound
=============================================================================

-------------------------- MODULE BlockAllocator --------------------------
(***************************************************************************)
(* What kmalloc and kfree promise: a block that overlaps no other block,   *)
(* until it is freed.  Heap implements it.                                 *)
(***************************************************************************)
EXTENDS Naturals

VARIABLE blocks   \* the blocks callers hold, as [addr, size]

Cells(b) == b.addr .. b.addr + b.size - 1

Init == blocks = {}

Allocate ==
  \E b \in blocks' \ blocks :
    /\ blocks' = blocks \cup {b}
    /\ \A other \in blocks : Cells(other) \cap Cells(b) = {}

Free == \E b \in blocks : blocks' = blocks \ {b}

Next == Allocate \/ Free

Spec == Init /\ [][Next]_blocks
===========================================================================

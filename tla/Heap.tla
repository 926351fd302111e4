-------------------------------- MODULE Heap --------------------------------
(***************************************************************************)
(* The kernel heap of kernel/mem/heap.c: kmalloc and kfree over a range of *)
(* blocks, each with a header and a footer, and an ordered index of holes. *)
(*                                                                         *)
(* The unit of addresses and sizes is 16 bytes, the size of a HeapHeader   *)
(* and of a HeapFooter; address 0 is heap->start_address.  A memory cell   *)
(* is what a header or a footer overlays: the magic at offset 0, the       *)
(* is_hole byte, and the word at offset 8, which is the size of a header   *)
(* and the header pointer of a footer.  Sizes are unsigned and wrap at     *)
(* Word.  Only page_align = 0 is modelled: kmalloc passes nothing else.    *)
(*                                                                         *)
(* live is what the callers were given; no operation of the heap reads it. *)
(***************************************************************************)
EXTENDS Integers, Sequences, OrderedArray

CONSTANTS
  PageSize,      \* PAGE_SIZE
  HeapMinSize,   \* HEAP_MIN_SIZE
  HeapSize,      \* heap->end_address - heap->start_address after HeapCreate
  Word,          \* sizes wrap at Word
  Sizes,         \* the sizes callers ask kmalloc for
  Top,           \* bound: the heap is not grown past this address
  HighWater,     \* bound: callers' blocks end at most here
  FreeRule       \* which blocks callers free: "none", "safe" or "any"

ASSUME HeapAssumption ==
  /\ PageSize \in Nat \ {0} /\ HeapMinSize \in Nat /\ Top \in Nat /\ Word \in Nat
  /\ HeapSize \in HeapMinSize .. Top /\ HeapSize % PageSize = 0
  /\ Sizes \subseteq Nat \ {0} /\ HighWater \in Nat
  /\ 4 * Top < Word
  /\ FreeRule \in {"none", "safe", "any"}

VARIABLES
  mem,           \* the memory the heap lies in, and the cell before it
  index,         \* heap->index: addresses of holes
  end_address,   \* heap->end_address
  mapped_end,    \* pages are mapped below this address
  live,          \* [addr, size] of the payloads callers hold
  fault          \* kfree read past the mapped memory or removed from an empty index

vars == <<mem, index, end_address, mapped_end, live, fault>>

Junk == [magic |-> FALSE, is_hole |-> FALSE, word |-> 0]
Data == [magic |-> FALSE, is_hole |-> TRUE, word |-> 1]   \* what callers write

Overhead == 2   \* sizeof(HeapHeader) + sizeof(HeapFooter)

Add(a, b) == (a + b) % Word
Sub(a, b) == (a - b + Word) % Word

\* m with a header, a footer or a size written at a.  The byte at is_hole's
\* place is padding of a footer and keeps its value.
WithHeader(m, a, size, is_hole) ==
  [m EXCEPT ![a] = [magic |-> TRUE, is_hole |-> is_hole, word |-> size]]
WithFooter(m, a, header) ==
  [m EXCEPT ![a] = [@ EXCEPT !.magic = TRUE, !.word = header]]
WithWord(m, a, word) == [m EXCEPT ![a].word = word]

\* The index under HeaderPredicate: smaller holes come first.
IndexInsert(m, idx, header) ==
  ArrayInsert([a \in DOMAIN m |-> m[a].word], idx, header)

Mapped(a) == a \in -1 .. mapped_end - 1

(***************************************************************************)
(* HeapAllocate.                                                           *)
(***************************************************************************)
\* Position of the first hole of the index that is large enough; 0 if none is.
HeapFindSmallestHole(m, idx, size) ==
  LET fits == {i \in 1 .. Len(idx) : m[idx[i]].word >= size}
  IN  IF fits = {} THEN 0 ELSE CHOOSE i \in fits : \A j \in fits : i <= j

\* Where the rest of a hole starts after a block was cut from it.
RestOf(hole, blockSize) == hole + blockSize

\* HeapAllocate serves a request of size cells from hole i of the index.  A
\* rest too small for a header and a footer goes to the block.
Carve(m, idx, i, size, end) ==
  LET hole == idx[i]
      holeSize == m[hole].word
      whole == holeSize - (size + Overhead) < Overhead
      blockSize == IF whole THEN holeSize ELSE size + Overhead
      rest == RestOf(hole, blockSize)
      last == hole + holeSize - 1
      block == WithFooter(WithHeader(m, hole, blockSize, FALSE),
                          hole + blockSize - 1, hole)
      cut == WithHeader(block, rest, holeSize - blockSize, TRUE)
      split == IF last < end THEN WithFooter(cut, last, rest) ELSE cut
      left == ArrayRemove(idx, i)
  IN  IF whole
        THEN [mem |-> block, index |-> left, end |-> hole + blockSize]
        ELSE [mem |-> split, index |-> IndexInsert(split, left, rest),
              end |-> hole + blockSize]

\* Faulty variant: the length is not rounded to pages.
ExpandedLengthExact(size) == size

\* HeapExpand: a page more than the whole pages of size.
ExpandedLength(size) ==
  IF size >= PageSize THEN (size \div PageSize) * PageSize + PageSize ELSE size

\* HeapExpand maps a fresh frame for every page from the old end on, also for
\* a page the heap already uses when the old end is not at a page boundary.
Remap(m, oldEnd, newEnd) ==
  [a \in DOMAIN m |->
     IF a \in (oldEnd \div PageSize) * PageSize .. newEnd - 1 THEN Junk ELSE m[a]]

\* Faulty variant: a new hole is as long as the whole heap.
GrowWholeHeap(m, idx, oldEnd, newEnd) ==
  LET h == WithHeader(m, oldEnd, newEnd, TRUE)
  IN  [mem |-> h, index |-> IndexInsert(h, idx, oldEnd)]

\* The hole with the highest address takes the new memory; without a hole a
\* new one is made at the old end.
Grow(m, idx, oldEnd, newEnd) ==
  IF idx = <<>>
  THEN LET h == WithFooter(WithHeader(m, oldEnd, newEnd - oldEnd, TRUE),
                           newEnd - 1, oldEnd)
       IN  [mem |-> h, index |-> IndexInsert(h, idx, oldEnd)]
  ELSE LET highest == CHOOSE a \in {idx[i] : i \in 1 .. Len(idx)} :
                        \A i \in 1 .. Len(idx) : idx[i] <= a
           size == m[highest].word + (newEnd - oldEnd)
       IN  [mem |-> WithFooter(WithWord(m, highest, size), highest + size - 1, highest),
            index |-> idx]

\* The caller fills its block as soon as it has it.
Filled(m, addr, size) ==
  [a \in DOMAIN m |-> IF a \in addr .. addr + size - 1 THEN Data ELSE m[a]]

\* A hole of the index serves the request.
kmallocFromHole(size) ==
  LET i == HeapFindSmallestHole(mem, index, size + Overhead)
      done == Carve(mem, index, i, size, end_address)
      addr == index[i] + 1
  IN  /\ ~fault
      /\ i # 0
      /\ done.end <= HighWater
      /\ mem' = Filled(done.mem, addr, size)
      /\ index' = done.index
      /\ live' = live \cup {[addr |-> addr, size |-> size]}
      /\ UNCHANGED <<end_address, mapped_end, fault>>

\* No hole is large enough: the heap is expanded first.
kmallocGrowing(size) ==
  LET newEnd == ExpandedLength(end_address + size + Overhead)
      grown == Grow(Remap(mem, end_address, newEnd), index, end_address, newEnd)
      i == HeapFindSmallestHole(grown.mem, grown.index, size + Overhead)
      done == Carve(grown.mem, grown.index, i, size, newEnd)
      addr == grown.index[i] + 1
  IN  /\ ~fault
      /\ HeapFindSmallestHole(mem, index, size + Overhead) = 0
      /\ newEnd <= Top
      /\ done.end <= HighWater
      /\ mem' = Filled(done.mem, addr, size)
      /\ index' = done.index
      /\ end_address' = newEnd
      /\ mapped_end' = IF newEnd > mapped_end THEN newEnd ELSE mapped_end
      /\ live' = live \cup {[addr |-> addr, size |-> size]}
      /\ UNCHANGED fault

(***************************************************************************)
(* HeapFree.  Its stages turn a record of the local variables and the heap *)
(* into the next one.                                                      *)
(***************************************************************************)
\* The block's own header: it becomes a hole.
Mark(m, idx, end, addr) ==
  [mem |-> [m EXCEPT ![addr - 1].is_hole = TRUE], index |-> idx, end |-> end,
   header |-> addr - 1, footer |-> Sub(Add(addr - 1, m[addr - 1].word), 1),
   do_add |-> TRUE]

\* Faulty variant: the footer keeps pointing to the freed block.
MergeLeftStaleFooter(s) ==
  LET before == s.mem[s.header - 1]
      joined == Add(s.mem[before.word].word, s.mem[s.header].word)
  IN  IF before.magic /\ s.mem[before.word].is_hole
        THEN [s EXCEPT !.mem = WithWord(s.mem, before.word, joined),
                       !.header = before.word, !.do_add = FALSE]
        ELSE s

\* A hole that ends before the block takes it over.
MergeLeft(s) ==
  LET before == s.mem[s.header - 1]
      joined == Add(s.mem[before.word].word, s.mem[s.header].word)
  IN  IF before.magic /\ s.mem[before.word].is_hole
        THEN [s EXCEPT !.mem = WithWord(WithWord(s.mem, s.footer, before.word),
                                        before.word, joined),
                       !.header = before.word, !.do_add = FALSE]
        ELSE s

\* Faulty variant: the right neighbour stays in the index.
MergeRightKeepingIndex(s) ==
  LET after == s.footer + 1
      size == s.mem[after].word
  IN  IF s.mem[after].magic /\ s.mem[after].is_hole
        THEN [s EXCEPT !.mem = WithWord(s.mem, s.header, Add(s.mem[s.header].word, size)),
                       !.footer = Sub(Add(after, size), 1)]
        ELSE s

\* Faulty variant: a block in use is swallowed as well.
MergeRightUnchecked(s) ==
  LET after == s.footer + 1
      size == s.mem[after].word
  IN  IF s.mem[after].magic
        THEN [s EXCEPT !.mem = WithWord(s.mem, s.header, Add(s.mem[s.header].word, size)),
                       !.footer = Sub(Add(after, size), 1),
                       !.index = ArrayRemove(s.index, PositionOf(s.index, after))]
        ELSE s

\* A hole that starts after the block is swallowed and leaves the index; its
\* footer still names it.
MergeRight(s) ==
  LET after == s.footer + 1
      size == s.mem[after].word
  IN  IF s.mem[after].magic /\ s.mem[after].is_hole
        THEN [s EXCEPT !.mem = WithWord(s.mem, s.header, Add(s.mem[s.header].word, size)),
                       !.footer = Sub(Add(after, size), 1),
                       !.index = ArrayRemove(s.index, PositionOf(s.index, after))]
        ELSE s

\* Faulty variant: no minimum.
ContractedLengthUnbounded(size) ==
  IF (size \div PageSize) % 2 = 1 THEN 2 * PageSize ELSE size

\* HeapContract: size & 0x1000 (the lowest bit of the page number) makes the
\* length two pages; no length is below the minimum.
ContractedLength(size) ==
  LET length == IF (size \div PageSize) % 2 = 1 THEN 2 * PageSize ELSE size
  IN  IF length < HeapMinSize THEN HeapMinSize ELSE length

\* A hole that reaches the end of the heap is shortened.  When nothing is left
\* of it, test_header (after is its address) is looked up in the index.
Contract(s, after) ==
  LET length == ContractedLength(s.header)
      rest == Sub(s.mem[s.header].word, Sub(s.end, length))
      i == PositionOf(s.index, after)
  IN  IF s.footer + 1 # s.end THEN s
      ELSE IF rest > 0
      THEN [s EXCEPT !.mem = WithFooter(WithWord(s.mem, s.header, rest),
                                        Sub(Add(s.header, rest), 1), s.header),
                     !.end = length]
      ELSE [s EXCEPT !.end = length,
                     !.index = IF i <= Len(s.index) THEN ArrayRemove(s.index, i)
                                                    ELSE s.index]

\* "If required, add us to the index."
AddToIndex(s) ==
  IF s.do_add THEN [s EXCEPT !.index = IndexInsert(s.mem, s.index, s.header)] ELSE s

\* The callers' rule "safe": the block is followed by a block in use or by the
\* last hole of the heap, never by a hole between two blocks.
FreeAllowed(block) ==
  LET after == block.addr - 1 + mem[block.addr - 1].word
  IN  \/ FreeRule = "any"
      \/ /\ FreeRule = "safe"
         /\ \/ ~mem[after].is_hole
            \/ after + mem[after].word = end_address

kfree(block) ==
  LET marked == Mark(mem, index, end_address, block.addr)
      left == MergeLeft(marked)
      after == marked.footer + 1
      right == MergeRight(left)
      done == AddToIndex(Contract(right, after))
      runsOff == \/ ~Mapped(after)
                 \/ index = <<>> /\ mem[after].magic /\ mem[after].is_hole
  IN  /\ ~fault
      /\ FreeAllowed(block)
      /\ live' = live \ {block}
      /\ fault' = runsOff
      /\ mem' = IF runsOff THEN mem ELSE done.mem
      /\ index' = IF runsOff THEN index ELSE done.index
      /\ end_address' = IF runsOff THEN end_address ELSE done.end
      /\ UNCHANGED mapped_end

-----------------------------------------------------------------------------
\* MmInitializeHeap and HeapCreate: one hole, with a header and no footer.
Init ==
  /\ mem = [a \in -1 .. Top - 1 |->
              IF a = 0 THEN [magic |-> TRUE, is_hole |-> TRUE, word |-> HeapSize] ELSE Junk]
  /\ index = <<0>>
  /\ end_address = HeapSize
  /\ mapped_end = HeapSize
  /\ live = {}
  /\ fault = FALSE

Next ==
  \/ \E size \in Sizes : kmallocFromHole(size)
  \/ \E size \in Sizes : kmallocGrowing(size)
  \/ \E block \in live : kfree(block)

Spec == Init /\ [][Next]_vars

-----------------------------------------------------------------------------
(***************************************************************************)
(* Properties.                                                             *)
(***************************************************************************)
\* The block headers met when the heap is walked from its start.
Starts ==
  LET walk[n \in 0 .. end_address] ==
        IF n = 0 THEN 0
        ELSE LET a == walk[n - 1]
             IN  IF a < end_address THEN a + mem[a].word ELSE a
  IN  {walk[n] : n \in 0 .. end_address}

BlockStarts == {a \in Starts : a < end_address}
Holes == {a \in BlockStarts : mem[a].is_hole}
Indexed == {index[i] : i \in 1 .. Len(index)}
Payload(block) == block.addr .. block.addr + block.size - 1

\* The type of the heap's state; the heap never gets shorter than
\* HEAP_MIN_SIZE, and no operation runs into unmapped memory.
TypeOK ==
  /\ DOMAIN mem = -1 .. Top - 1
  /\ \A a \in DOMAIN mem :
       mem[a] \in [magic : BOOLEAN, is_hole : BOOLEAN, word : 0 .. Word - 1]
  /\ Indexed \subseteq 0 .. end_address - 1
  /\ end_address \in HeapMinSize .. mapped_end
  /\ mapped_end \in 0 .. Top
  /\ live \subseteq [addr : 1 .. Top, size : Sizes]
  /\ ~fault

\* Headers and footers tile the heap: walking the headers ends exactly at
\* end_address, every footer names the header of its block, and the blocks in
\* use are those the callers hold, with room for what they asked for.  (The
\* hole HeapCreate makes has no footer; nobody looks for it.)
HeapWellFormed ==
  /\ end_address \in Starts
  /\ \A a \in BlockStarts :
       /\ mem[a].magic
       /\ a # 0 \/ live # {} =>
            LET footer == mem[a + mem[a].word - 1]
            IN  footer.magic /\ footer.word = a
  /\ BlockStarts \ Holes = {block.addr - 1 : block \in live}
  /\ \A block \in live : mem[block.addr - 1].word >= block.size + Overhead

\* The index lists every hole exactly once and nothing else, although sizes
\* change under it when holes are merged.
HolesIndexed ==
  /\ Indexed = Holes
  /\ \A i, j \in 1 .. Len(index) : index[i] = index[j] => i = j

\* Freed neighbours become one hole: fragmentation is never worse than the
\* blocks in use make it.
Coalesced ==
  \A a \in Holes : a + mem[a].word \notin Holes

\* What is free can be found: kfree leaves holes that are maximal, and each of
\* them in the index once.
HolesSound == HolesIndexed /\ Coalesced

\* kmalloc and kfree never write into a block a caller holds.
PayloadUntouched ==
  [][\A block \in live \cap live' : \A a \in Payload(block) :
       mem'[a] = mem[a]]_vars

\* The heap implements the block allocator.
Blocks == INSTANCE BlockAllocator WITH blocks <- live
ImplementsBlockAllocator == Blocks!Spec

\* heap.c says of a freed block "If required, add us to the index": memory of
\* the heap that no caller holds can be found through the index.
FreedMemoryIndexed ==
  \A a \in 0 .. end_address - 1 :
    \/ \E block \in live :
         a \in block.addr - 1 .. block.addr - 2 + mem[block.addr - 1].word
    \/ \E h \in Indexed : a \in h .. h + mem[h].word - 1
=============================================================================

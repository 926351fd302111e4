-------------------------------- MODULE Pmm --------------------------------
(***************************************************************************)
(* The physical page allocator of kernel/mem/pmm.c.                        *)
(*                                                                         *)
(* MmInitialize picks the largest usable region of the boot loader's       *)
(* memory map, places MemoryStatistics and a bitmap with one bit per page  *)
(* at its start and reserves those pages.  MmRequestPage hands out pages   *)
(* next-fit: a static cursor last_requested walks the bitmap until it      *)
(* meets a clear bit.                                                      *)
(*                                                                         *)
(* Addresses inside the region are page numbers (the code shifts by 12     *)
(* everywhere); only MmInitialize works on byte addresses.  The bitmap is  *)
(* the set of the page numbers whose bit is 1.  The 64-bit counters are    *)
(* kept in pages and wrap at Word.                                         *)
(*                                                                         *)
(* The code checks nothing about its callers, so the actions of the        *)
(* callers carry the discipline the API needs: a page is returned by the   *)
(* operation that undoes the one that took it, and pages are reserved or   *)
(* locked only while nobody has them.  reserved, locked and held record    *)
(* who has what; no operation reads them.                                  *)
(***************************************************************************)
EXTENDS Integers, FiniteSets, Sequences

CONSTANTS
  PageSize,   \* PAGE_SIZE in bytes
  StatSize,   \* sizeof(MemoryStatistics) in bytes
  MemMaps,    \* the memory maps the boot loader may report
  Word,       \* the counters are counted modulo Word (2^64 bytes, in pages)
  MaxBatch    \* bound: most pages one MmReservePages / MmLockPages call takes

ASSUME PageSizeAssumption == PageSize \in Nat \ {0}
ASSUME StatSizeAssumption == StatSize \in Nat \ {0}
ASSUME WordAssumption == Word \in Nat \ {0}
ASSUME MaxBatchAssumption == MaxBatch \in Nat
ASSUME MemMapsAssumption ==
  \A map \in MemMaps :
    /\ map \in Seq([base : Nat, length : Nat, usable : BOOLEAN])
    /\ \E i \in DOMAIN map : map[i].usable

VARIABLES
  pc,                     \* "boot", "idle", or "scan" inside MmRequestPage
  first_available_page,   \* kMemory->first_available_page_addr >> 12
  total_available_pages,  \* kMemory->total_available_pages
  bitfield,               \* pages whose bit in kMemory->bitfield is 1
  free_memory, locked_memory, reserved_memory,   \* counters, in pages
  last_requested,         \* the static cursor of MmRequestPage
  first,                  \* its local: where the scan started, minus one
  warned,                 \* this request printed "No free pages available!"
  metadata,               \* pages MemoryStatistics and the bitmap lie in
  reserved, locked,       \* pages taken by MmReservePages / MmLockPages
  held                    \* frame numbers MmRequestPage has handed out

counters == <<free_memory, locked_memory, reserved_memory>>
region == <<first_available_page, total_available_pages, metadata>>
scanning == <<last_requested, first, warned>>
vars == <<pc, region, bitfield, counters, scanning, reserved, locked, held>>

(***************************************************************************)
(* Arithmetic.  ALIGN_ADDR rounds up; the counters are unsigned.           *)
(***************************************************************************)
ALIGN_ADDR(x) ==
  IF x % PageSize = 0 THEN x ELSE ((x + PageSize) \div PageSize) * PageSize

Plus(a, n) == IF a + n < Word THEN a + n ELSE a + n - Word
Minus(a, n) == IF n <= a THEN a - n ELSE a - n + Word

(***************************************************************************)
(* MmInitialize.  A memory map is a sequence of [base, length, usable].    *)
(***************************************************************************)
\* The first of the longest usable entries (the loop replaces on >).
Largest(map) ==
  LET usable == {i \in DOMAIN map : map[i].usable}
  IN  map[CHOOSE i \in usable :
            \A j \in usable : \/ map[j].length < map[i].length
                              \/ map[j].length = map[i].length /\ i <= j]

FirstAddress(map) == ALIGN_ADDR(Largest(map).base)
LastAddress(map) == ALIGN_ADDR(Largest(map).base + Largest(map).length)
AvailablePages(map) == (LastAddress(map) - FirstAddress(map)) \div PageSize

BitfieldEntries(pages) ==
  IF pages % 8 = 0 THEN pages \div 8 ELSE pages \div 8 + 1

\* Faulty variant: without the 3 << 12 slack.
ReserveCountNoSlack(pages) ==
  (BitfieldEntries(pages) + StatSize) \div PageSize

\* Pages MmInitialize reserves at the start of the region.
ReserveCount(pages) ==
  (BitfieldEntries(pages) + StatSize + 3 * PageSize) \div PageSize

\* Pages written by MmInitialize: the statistics, and the page-aligned bitmap.
MetadataPages(pages) ==
  0 .. ((ALIGN_ADDR(StatSize) + BitfieldEntries(pages) - 1) \div PageSize)

\* The bits past the end of the bitmap are whatever the RAM held; of them only
\* the bit with number total_available_pages is ever read.
StaleBits(pages) == IF pages % 8 = 0 THEN SUBSET {pages} ELSE {{}}

MmInitialize(map) ==
  LET pages == AvailablePages(map)
      taken == 0 .. ReserveCount(pages) - 1
  IN  /\ pc = "boot"
      /\ pc' = "idle"
      /\ first_available_page' = FirstAddress(map) \div PageSize
      /\ total_available_pages' = pages
      /\ metadata' = MetadataPages(pages)
      /\ \E stale \in StaleBits(pages) : bitfield' = taken \cup stale
      /\ free_memory' = Minus(pages, ReserveCount(pages))
      /\ locked_memory' = 0
      /\ reserved_memory' = ReserveCount(pages)
      /\ reserved' = taken
      /\ UNCHANGED <<scanning, locked, held>>

(***************************************************************************)
(* Reserving and locking: set or clear the bits, move the pages between    *)
(* the counters.  The plural operations are loops over the singular ones.  *)
(***************************************************************************)
Batch(page, pages) == page .. page + pages - 1

\* Pages of the region that nobody has.
Unowned == (0 .. total_available_pages - 1)
             \ (reserved \cup locked
                  \cup {f - first_available_page : f \in held})

MmReservePages(page, pages) ==
  /\ pc = "idle"
  /\ Batch(page, pages) \subseteq Unowned
  /\ bitfield' = bitfield \cup Batch(page, pages)
  /\ free_memory' = Minus(free_memory, pages)
  /\ reserved_memory' = Plus(reserved_memory, pages)
  /\ reserved' = reserved \cup Batch(page, pages)
  /\ UNCHANGED <<pc, region, locked_memory, scanning, locked, held>>

MmUnreservePages(page, pages) ==
  /\ pc = "idle"
  /\ Batch(page, pages) \subseteq reserved \ (0 .. ReserveCount(total_available_pages) - 1)
  /\ bitfield' = bitfield \ Batch(page, pages)
  /\ free_memory' = Plus(free_memory, pages)
  /\ reserved_memory' = Minus(reserved_memory, pages)
  /\ reserved' = reserved \ Batch(page, pages)
  /\ UNCHANGED <<pc, region, locked_memory, scanning, locked, held>>

MmLockPages(page, pages) ==
  /\ pc = "idle"
  /\ Batch(page, pages) \subseteq Unowned
  /\ bitfield' = bitfield \cup Batch(page, pages)
  /\ free_memory' = Minus(free_memory, pages)
  /\ locked_memory' = Plus(locked_memory, pages)
  /\ locked' = locked \cup Batch(page, pages)
  /\ UNCHANGED <<pc, region, reserved_memory, scanning, reserved, held>>

MmUnlockPages(page, pages) ==
  /\ pc = "idle"
  /\ Batch(page, pages) \subseteq locked
  /\ bitfield' = bitfield \ Batch(page, pages)
  /\ free_memory' = Plus(free_memory, pages)
  /\ locked_memory' = Minus(locked_memory, pages)
  /\ locked' = locked \ Batch(page, pages)
  /\ UNCHANGED <<pc, region, reserved_memory, scanning, reserved, held>>

(***************************************************************************)
(* MmRequestPage, one action per evaluation of its loop condition.         *)
(***************************************************************************)
\* Faulty variant: the scan is called complete where it starts.
ScanStartAtCursor == last_requested

\* first = last_requested - 1, unsigned.
ScanStart == Minus(last_requested, 1)

MmRequestPage ==
  /\ pc = "idle"
  /\ pc' = "scan"
  /\ first' = ScanStart
  /\ warned' = FALSE
  /\ UNCHANGED <<region, bitfield, counters, last_requested, reserved, locked, held>>

\* Faulty variant: the cursor is not reset at the end of the bitmap.
ScanWithoutWrap ==
  /\ pc = "scan"
  /\ last_requested \in bitfield
  /\ warned' = (warned \/ last_requested = first)
  /\ last_requested' = last_requested + 1
  /\ UNCHANGED <<pc, region, bitfield, counters, first, reserved, locked, held>>

\* Faulty variant: the cursor stops at the end of the bitmap.
ScanClamped ==
  /\ pc = "scan"
  /\ last_requested \in bitfield
  /\ warned' = (warned \/ last_requested = first)
  /\ last_requested' = IF last_requested >= total_available_pages
                         THEN last_requested ELSE last_requested + 1
  /\ UNCHANGED <<pc, region, bitfield, counters, first, reserved, locked, held>>

\* GET_PAGE_BIT(last_requested) == 1: wrap at the end, maybe report, step on.
ScanBusyPage ==
  LET here == IF last_requested >= total_available_pages THEN 0
                                                         ELSE last_requested
  IN  /\ pc = "scan"
      /\ last_requested \in bitfield
      /\ warned' = (warned \/ here = first)
      /\ last_requested' = here + 1
      /\ UNCHANGED <<pc, region, bitfield, counters, first, reserved, locked, held>>

\* Faulty variant: the bit of the page is not set.
TakePageUnmarked ==
  /\ pc = "scan"
  /\ last_requested \notin bitfield
  /\ pc' = "idle"
  /\ free_memory' = Minus(free_memory, 1)
  /\ locked_memory' = Plus(locked_memory, 1)
  /\ held' = held \cup {first_available_page + last_requested}
  /\ first' = 0 /\ warned' = FALSE
  /\ UNCHANGED <<region, bitfield, reserved_memory, last_requested, reserved, locked>>

\* GET_PAGE_BIT(last_requested) == 0: MmLockPage it and return its address.
TakePage ==
  /\ pc = "scan"
  /\ last_requested \notin bitfield
  /\ pc' = "idle"
  /\ bitfield' = bitfield \cup {last_requested}
  /\ free_memory' = Minus(free_memory, 1)
  /\ locked_memory' = Plus(locked_memory, 1)
  /\ held' = held \cup {first_available_page + last_requested}
  /\ first' = 0 /\ warned' = FALSE
  /\ UNCHANGED <<region, reserved_memory, last_requested, reserved, locked>>

\* Faulty variant: the absolute address is used as the page of the region.
FreePageAbsolute(frame) ==
  /\ pc = "idle"
  /\ frame \in held
  /\ bitfield' = bitfield \ {frame}
  /\ free_memory' = Plus(free_memory, 1)
  /\ locked_memory' = Minus(locked_memory, 1)
  /\ held' = held \ {frame}
  /\ UNCHANGED <<pc, region, reserved_memory, scanning, reserved, locked>>

\* Faulty variant: MmUnreservePage is called instead of MmUnlockPage.
FreePageAsReserved(frame) ==
  /\ pc = "idle"
  /\ frame \in held
  /\ bitfield' = bitfield \ {frame - first_available_page}
  /\ free_memory' = Plus(free_memory, 1)
  /\ reserved_memory' = Minus(reserved_memory, 1)
  /\ held' = held \ {frame}
  /\ UNCHANGED <<pc, region, locked_memory, scanning, reserved, locked>>

\* MmUnlockPage((uint64_t) addr - first_available_page_addr).
MmFreePage(frame) ==
  /\ pc = "idle"
  /\ frame \in held
  /\ bitfield' = bitfield \ {frame - first_available_page}
  /\ free_memory' = Plus(free_memory, 1)
  /\ locked_memory' = Minus(locked_memory, 1)
  /\ held' = held \ {frame}
  /\ UNCHANGED <<pc, region, reserved_memory, scanning, reserved, locked>>

(***************************************************************************)
(* The 64-bit counters and the cursor do not overflow for any region the   *)
(* machine can have.                                                       *)
(***************************************************************************)
ASSUME RegionAssumption ==
  \A map \in MemMaps :
    /\ AvailablePages(map) \in Nat \ {0}
    /\ 2 * AvailablePages(map) + 2 < Word
    /\ ReserveCount(AvailablePages(map)) < Word

-----------------------------------------------------------------------------
Init ==
  /\ pc = "boot"
  /\ first_available_page = 0
  /\ total_available_pages = 0
  /\ metadata = {}
  /\ bitfield = {}
  /\ free_memory = 0 /\ locked_memory = 0 /\ reserved_memory = 0
  /\ last_requested = 0
  /\ first = 0
  /\ warned = FALSE
  /\ reserved = {} /\ locked = {} /\ held = {}

Scan == ScanBusyPage \/ TakePage

Callers ==
  \/ MmRequestPage
  \/ \E frame \in held : MmFreePage(frame)
  \/ \E page \in 0 .. total_available_pages - 1, pages \in 1 .. MaxBatch :
       \/ MmReservePages(page, pages)
       \/ MmUnreservePages(page, pages)
       \/ MmLockPages(page, pages)
       \/ MmUnlockPages(page, pages)

Next ==
  \/ \E map \in MemMaps : MmInitialize(map)
  \/ Callers
  \/ Scan

\* The processor keeps executing the loop of MmRequestPage.
Fairness == WF_vars(Scan)

Spec == Init /\ [][Next]_vars
FairSpec == Spec /\ Fairness

-----------------------------------------------------------------------------
(***************************************************************************)
(* Properties.                                                             *)
(***************************************************************************)
Pages == 0 .. total_available_pages - 1
HeldPages == {f - first_available_page : f \in held}

\* The type of the allocator's state.
TypeOK ==
  /\ pc \in {"boot", "idle", "scan"}
  /\ first_available_page \in Nat
  /\ total_available_pages \in Nat
  /\ bitfield \in SUBSET Nat
  /\ free_memory \in 0 .. Word - 1
  /\ locked_memory \in 0 .. Word - 1
  /\ reserved_memory \in 0 .. Word - 1
  /\ last_requested \in 0 .. total_available_pages
  /\ first \in 0 .. Word - 1
  /\ warned \in BOOLEAN
  /\ metadata \in SUBSET Nat
  /\ reserved \in SUBSET Nat
  /\ locked \in SUBSET Nat
  /\ held \in SUBSET Nat

\* A request is answered with a page that no caller holds and that is neither
\* reserved nor locked, whatever was taken, freed and taken again before.
FreshFrame ==
  [][(pc = "scan" /\ pc' = "idle") =>
       \E f \in held' \ held :
         f - first_available_page \notin reserved \cup locked]_vars

\* The bitmap says of every page of the region whether somebody has it, also
\* after frames went through the absolute addresses of MmFreePage.
BitmapMatchesOwners ==
  pc # "boot" =>
    \A page \in Pages :
      page \in bitfield <=> page \in reserved \cup locked \cup HeldPages

\* The pages MemoryStatistics and the bitmap lie in stay marked and are never
\* given to a caller: the 3 << 12 slack MmInitialize adds is enough.
MetadataProtected ==
  /\ metadata \subseteq bitfield
  /\ metadata \cap (locked \cup HeldPages) = {}

\* No page has two owners.
OneOwner ==
  /\ reserved \cap locked = {}
  /\ reserved \cap HeldPages = {}
  /\ locked \cap HeldPages = {}

\* The three counters always describe the bitmap's owners (modulo the word
\* size): nothing is counted twice or lost by any sequence of calls.
CountersBalance ==
  pc # "boot" =>
    /\ reserved_memory = Cardinality(reserved)
    /\ locked_memory = Cardinality(locked) + Cardinality(held)
    /\ free_memory = Minus(Minus(total_available_pages, reserved_memory),
                           locked_memory)

\* "No free pages available!" is printed only when it is true: the scan has
\* been all the way round.
WarningIsTrue == warned => Pages \subseteq bitfield

(***************************************************************************)
(* The inductive invariant.  The owners' pages are marked (OwnersMarked    *)
(* also speaks of the bit after the last page, which BitmapMatchesOwners   *)
(* leaves open), nobody owns a page twice, and the scan has seen only      *)
(* marked pages between its start and the cursor, once or twice around.    *)
(***************************************************************************)
Booting ==
  /\ last_requested = 0
  /\ metadata = {} /\ bitfield = {} /\ warned = FALSE
  /\ reserved = {} /\ locked = {} /\ held = {}

OwnersMarked ==
  /\ reserved \cup locked \cup HeldPages \subseteq bitfield
  /\ held \subseteq first_available_page ..
                      first_available_page + total_available_pages
  /\ locked \subseteq Pages
  /\ \/ reserved \subseteq Pages
     \/ reserved = 0 .. ReserveCount(total_available_pages) - 1

RegionFits ==
  /\ total_available_pages > 0
  /\ 2 * total_available_pages + 2 < Word
  /\ ReserveCount(total_available_pages) < Word

MetadataReserved ==
  LET taken == 0 .. ReserveCount(total_available_pages) - 1
  IN  0 \in taken /\ metadata \subseteq taken /\ taken \subseteq reserved

ScanProgress ==
  LET start == Plus(first, 1)
      last == total_available_pages - 1
  IN  IF pc = "scan"
      THEN \/ /\ start <= last_requested
              /\ start .. last_requested - 1 \subseteq bitfield
           \/ /\ start .. last \subseteq bitfield
              /\ 1 .. last_requested - 1 \subseteq bitfield
      ELSE ~warned

IInv ==
  /\ TypeOK
  /\ WarningIsTrue
  /\ IF pc = "boot" THEN Booting
     ELSE /\ RegionFits
          /\ OwnersMarked
          /\ OneOwner
          /\ BitmapMatchesOwners
          /\ MetadataReserved
          /\ CountersBalance
          /\ ScanProgress

\* A request returns whenever some page of the region is free: the cursor
\* reaches it, although it skips page 0 when it wraps.
RequestReturns ==
  (pc = "scan" /\ Unowned # {}) ~> pc = "idle"

\* The bitmap, the cursor and the counters implement the page allocator: the
\* frames under management are those of the region and, since the scan reads
\* one bit too many, the frame after it.
Allocator == INSTANCE PageAllocator WITH
  frames <- IF pc = "boot" THEN {}
            ELSE first_available_page .. first_available_page + total_available_pages,
  out <- held,
  withheld <- {f \in first_available_page .. first_available_page + total_available_pages :
                 f - first_available_page \in bitfield} \ held

ImplementsAllocator == Allocator!Spec

\* pmm.c reports "No free pages available!" when a scan finds nothing, so no
\* caller is given a frame outside the region.
HandedOutInsideRegion ==
  held \subseteq
    first_available_page .. first_available_page + total_available_pages - 1
============================================================================

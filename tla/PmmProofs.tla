----------------------------- MODULE PmmProofs -----------------------------
(***************************************************************************)
(* Proofs about the physical page allocator: the invariant IInv of Pmm is  *)
(* inductive, it implies the safety properties the runs check, and Pmm     *)
(* implements PageAllocator.                                               *)
(***************************************************************************)
EXTENDS Pmm, ArithmeticLemmas, FiniteSetTheorems, TLAPS

(***************************************************************************)
(* The region MmInitialize chooses.                                        *)
(***************************************************************************)
\* Of finitely many positions with a length, one is the first of the longest.
LEMMA FirstLongest ==
  ASSUME NEW N \in Nat, NEW U, U \subseteq 1 .. N, U # {},
         NEW f, \A i \in U : f[i] \in Nat
  PROVE  \E i \in U : \A j \in U : f[j] < f[i] \/ (f[j] = f[i] /\ i <= j)
PROOF
  <1> DEFINE Best(i, n) == /\ i \in U /\ i <= n
                           /\ \A j \in U : j <= n => \/ f[j] < f[i]
                                                     \/ f[j] = f[i] /\ i <= j
             Bad == {n \in Nat : /\ \E j \in U : j <= n
                                 /\ ~ \E i \in U : Best(i, n)}
  <1>1. \A i \in U : i \in Nat /\ i > 0 /\ i <= N
    OBVIOUS
  <1>2. Bad = {}
    <2>1. SUFFICES ASSUME Bad # {} PROVE FALSE
      OBVIOUS
    <2>2. PICK n \in Bad : \A m \in Bad : n <= m
      <3> Bad \subseteq Nat
        OBVIOUS
      <3> HIDE DEF Bad
      <3> QED
        BY <2>1, LeastElement
    <2>3. n \in Nat /\ (\E j \in U : j <= n) /\ ~ \E i \in U : Best(i, n)
      OBVIOUS
    <2>4. n > 0 /\ n - 1 \in Nat
      BY <1>1, <2>3
    <2>5. n - 1 \notin Bad
      <3> n \in Nat /\ ~ (n <= n - 1)
        BY <2>3
      <3> HIDE DEF Bad
      <3> QED
        BY <2>2
    <2>6. CASE \E j \in U : j <= n - 1
      <3>1. PICK i \in U : Best(i, n - 1)
        BY <2>4, <2>5, <2>6
      <3>2. CASE n \in U /\ f[n] > f[i]
        <4>1. Best(n, n)
          BY <1>1, <2>3, <3>1, <3>2
        <4>2. QED
          BY <4>1, <2>3, <3>2
      <3>3. CASE ~ (n \in U /\ f[n] > f[i])
        <4>1. Best(i, n)
          BY <1>1, <2>3, <3>1, <3>3
        <4>2. QED
          BY <4>1, <2>3
      <3>4. QED
        BY <3>2, <3>3
    <2>7. CASE ~ \E j \in U : j <= n - 1
      <3>1. n \in U /\ Best(n, n)
        BY <1>1, <2>3, <2>7
      <3>2. QED
        BY <3>1, <2>3
    <2>8. QED
      BY <2>6, <2>7
  <1>3. PICK i \in U : Best(i, N)
    BY <1>1, <1>2
  <1>4. QED
    BY <1>1, <1>3

\* The loop over the memory map ends with an entry of the map.
LEMMA LargestIsAnEntry ==
  ASSUME NEW map \in MemMaps
  PROVE  Largest(map) \in [base : Nat, length : Nat, usable : BOOLEAN]
PROOF
  <1> DEFINE U == {i \in DOMAIN map : map[i].usable}
             f == [i \in DOMAIN map |-> map[i].length]
             Entry == [base : Nat, length : Nat, usable : BOOLEAN]
  <1>1. map \in Seq(Entry) /\ U # {}
    BY MemMapsAssumption
  <1>2. /\ DOMAIN map = 1 .. Len(map)
        /\ Len(map) \in Nat
        /\ \A i \in DOMAIN map : map[i] \in Entry
    <2> HIDE DEF Entry
    <2> QED
      BY <1>1
  <1>3. U \subseteq 1 .. Len(map) /\ \A i \in U : f[i] \in Nat
    BY <1>2
  <1>4. PICK i \in U : \A j \in U : f[j] < f[i] \/ (f[j] = f[i] /\ i <= j)
    <2> HIDE DEF U, f
    <2> QED
      BY <1>1, <1>2, <1>3, FirstLongest
  <1>5. \A j \in U : \/ map[j].length < map[i].length
                     \/ map[j].length = map[i].length /\ i <= j
    BY <1>4
  <1>6. Largest(map) \in {map[k] : k \in U}
    BY <1>5 DEF Largest
  <1>7. QED
    BY <1>2, <1>6

\* ALIGN_ADDR never shrinks, adds at most a page and stays a natural number.
LEMMA AlignAddrBounds ==
  ASSUME NEW x \in Nat
  PROVE  ALIGN_ADDR(x) \in Nat /\ x <= ALIGN_ADDR(x) /\ ALIGN_ADDR(x) <= x + PageSize
PROOF
  <1>1. PageSize \in Nat \ {0}
    BY PageSizeAssumption
  <1>2. LET a == ((x + PageSize) \div PageSize) * PageSize
        IN  a \in Nat /\ x <= a /\ a <= x + PageSize
    BY <1>1
  <1>3. QED
    BY <1>1, <1>2 DEF ALIGN_ADDR

\* The region's first page is a page number.
LEMMA FirstPageType ==
  ASSUME NEW map \in MemMaps
  PROVE  FirstAddress(map) \div PageSize \in Nat
PROOF
  <1>1. Largest(map).base \in Nat
    BY LargestIsAnEntry
  <1>2. FirstAddress(map) \in Nat
    BY <1>1, AlignAddrBounds DEF FirstAddress
  <1>3. QED
    BY <1>2, PageSizeAssumption

\* The byte count of the bitmap is a natural number.
LEMMA BitfieldEntriesType ==
  ASSUME NEW pages \in Nat
  PROVE  BitfieldEntries(pages) \in Nat
PROOF
  BY DEF BitfieldEntries

\* The pages reserved at the start cover the statistics and the bitmap.
LEMMA ReserveCoversMetadata ==
  ASSUME NEW pages \in Nat
  PROVE  /\ ReserveCount(pages) \in Nat /\ ReserveCount(pages) > 0
         /\ MetadataPages(pages) \subseteq 0 .. ReserveCount(pages) - 1
PROOF
  <1> DEFINE e == BitfieldEntries(pages)
             a == ALIGN_ADDR(StatSize) + e - 1
             b == e + StatSize + 3 * PageSize
  <1>1. e \in Nat /\ PageSize \in Nat \ {0} /\ StatSize \in Nat \ {0}
    BY BitfieldEntriesType, PageSizeAssumption, StatSizeAssumption
  <1>2. a \in Nat /\ a + PageSize <= b /\ b \in Nat
    BY <1>1, AlignAddrBounds
  <1> HIDE DEF a, b
  <1>3. \A x, y \in Nat, p \in Nat \ {0} : x + p <= y => x \div p < y \div p
    OBVIOUS
  <1>4. a \div PageSize \in Nat /\ b \div PageSize \in Nat
    BY <1>1, <1>2
  <1>5. a \div PageSize < b \div PageSize
    BY <1>1, <1>2, <1>3
  <1>6. ReserveCount(pages) = b \div PageSize /\ MetadataPages(pages) = 0 .. (a \div PageSize)
    BY DEF ReserveCount, MetadataPages, a, b
  <1>7. QED
    BY <1>4, <1>5, <1>6

(***************************************************************************)
(* Counting pages.                                                         *)
(***************************************************************************)
\* The length of an interval, in the form the arithmetic steps use.
LEMMA IntervalSize ==
  ASSUME NEW a \in Int, NEW b \in Int, a <= b + 1
  PROVE  IsFiniteSet(a .. b) /\ Cardinality(a .. b) = b - a + 1
PROOF
  <1>1. /\ IsFiniteSet(a .. b)
        /\ Cardinality(a .. b) = IF a > b THEN 0 ELSE b - a + 1
    BY FS_Interval
  <1>2. QED
    BY <1>1

\* A batch of the plural operations has as many pages as it says.
LEMMA BatchSize ==
  ASSUME NEW page \in Nat, NEW pages \in Nat \ {0}
  PROVE  /\ IsFiniteSet(Batch(page, pages))
         /\ Cardinality(Batch(page, pages)) = pages
         /\ Batch(page, pages) \subseteq Nat
         /\ page \in Batch(page, pages)
PROOF
  <1>1. page \in Int /\ page + pages - 1 \in Int /\ page <= (page + pages - 1) + 1
    OBVIOUS
  <1>2. /\ IsFiniteSet(page .. page + pages - 1)
        /\ Cardinality(page .. page + pages - 1) = (page + pages - 1) - page + 1
    BY <1>1, IntervalSize
  <1>3. QED
    BY <1>1, <1>2 DEF Batch

\* Taking pages nobody has adds up.
LEMMA CardinalityAdds ==
  ASSUME NEW S, NEW B, IsFiniteSet(S), IsFiniteSet(B), S \cap B = {}
  PROVE  /\ IsFiniteSet(S \cup B)
         /\ Cardinality(S \cup B) = Cardinality(S) + Cardinality(B)
PROOF
  <1>1. Cardinality(S \cap B) = 0
    BY FS_EmptySet
  <1>2. Cardinality(S) \in Nat /\ Cardinality(B) \in Nat
    BY FS_CardinalityType
  <1>3. /\ IsFiniteSet(S \cup B)
        /\ Cardinality(S \cup B)
             = Cardinality(S) + Cardinality(B) - Cardinality(S \cap B)
    BY FS_Union, Zenon
  <1>4. QED
    BY <1>1, <1>2, <1>3

\* Giving pages back subtracts.
LEMMA CardinalitySubtracts ==
  ASSUME NEW S, NEW B, IsFiniteSet(S), B \subseteq S
  PROVE  /\ IsFiniteSet(S \ B)
         /\ Cardinality(S \ B) = Cardinality(S) - Cardinality(B)
         /\ Cardinality(B) \in Nat /\ Cardinality(B) <= Cardinality(S)
PROOF
  <1>1. S \cap B = B
    OBVIOUS
  <1>2. IsFiniteSet(B) /\ Cardinality(B) <= Cardinality(S)
    BY FS_Subset
  <1>3. Cardinality(B) \in Nat
    BY <1>2, FS_CardinalityType
  <1>4. /\ IsFiniteSet(S \ B)
        /\ Cardinality(S \ B) = Cardinality(S) - Cardinality(S \cap B)
    BY FS_Difference, Zenon
  <1>5. QED
    BY <1>1, <1>2, <1>3, <1>4

\* The owners' sets are finite and small enough for the counters.
LEMMA OwnersFitCounters ==
  ASSUME NEW fap \in Nat, NEW total \in Nat, NEW R \in Nat,
         total > 0, 2 * total + 2 < Word, R < Word,
         NEW res, NEW lck, NEW hld,
         res \subseteq 0 .. total - 1 \/ res = 0 .. R - 1,
         lck \subseteq 0 .. total - 1,
         hld \subseteq fap .. fap + total
  PROVE  /\ IsFiniteSet(res) /\ IsFiniteSet(lck) /\ IsFiniteSet(hld)
         /\ Cardinality(res) \in 0 .. Word - 1
         /\ Cardinality(lck) \in Nat /\ Cardinality(hld) \in Nat
         /\ Cardinality(lck) + Cardinality(hld) < Word
PROOF
  <1>1. IsFiniteSet(0 .. total - 1) /\ Cardinality(0 .. total - 1) = total
    <2>1. 0 \in Int /\ total - 1 \in Int /\ 0 <= (total - 1) + 1
      OBVIOUS
    <2>2. /\ IsFiniteSet(0 .. total - 1)
          /\ Cardinality(0 .. total - 1) = (total - 1) - 0 + 1
      BY <2>1, IntervalSize, Zenon
    <2>3. QED
      BY <2>2
  <1>2. IsFiniteSet(0 .. R - 1) /\ Cardinality(0 .. R - 1) = R
    <2>1. 0 \in Int /\ R - 1 \in Int /\ 0 <= (R - 1) + 1
      OBVIOUS
    <2>2. /\ IsFiniteSet(0 .. R - 1)
          /\ Cardinality(0 .. R - 1) = (R - 1) - 0 + 1
      BY <2>1, IntervalSize, Zenon
    <2>3. QED
      BY <2>2
  <1>3. /\ IsFiniteSet(fap .. fap + total)
        /\ Cardinality(fap .. fap + total) = total + 1
    <2>1. fap \in Int /\ fap + total \in Int /\ fap <= (fap + total) + 1
      OBVIOUS
    <2>2. /\ IsFiniteSet(fap .. fap + total)
          /\ Cardinality(fap .. fap + total) = (fap + total) - fap + 1
      BY <2>1, IntervalSize, Zenon
    <2>3. QED
      BY <2>2
  <1>4. IsFiniteSet(lck) /\ Cardinality(lck) <= total /\ Cardinality(lck) \in Nat
    <2>1. IsFiniteSet(lck) /\ Cardinality(lck) <= Cardinality(0 .. total - 1)
      BY <1>1, FS_Subset
    <2>2. QED
      BY <1>1, <2>1, FS_CardinalityType
  <1>5. IsFiniteSet(hld) /\ Cardinality(hld) <= total + 1 /\ Cardinality(hld) \in Nat
    <2>1. IsFiniteSet(hld) /\ Cardinality(hld) <= Cardinality(fap .. fap + total)
      BY <1>3, FS_Subset
    <2>2. QED
      BY <1>3, <2>1, FS_CardinalityType
  <1>6. IsFiniteSet(res) /\ Cardinality(res) \in 0 .. Word - 1
    <2>1. CASE res \subseteq 0 .. total - 1
      <3>1. IsFiniteSet(res) /\ Cardinality(res) <= Cardinality(0 .. total - 1)
        BY <1>1, <2>1, FS_Subset
      <3>2. Cardinality(res) \in Nat
        BY <3>1, FS_CardinalityType
      <3>3. QED
        BY <1>1, <3>1, <3>2, WordAssumption
    <2>2. CASE res = 0 .. R - 1
      BY <1>2, <2>2, WordAssumption
    <2>3. QED
      BY <2>1, <2>2
  <1>7. QED
    BY <1>4, <1>5, <1>6, WordAssumption

\* The same, for the owners of a state that satisfies the invariant.
LEMMA OwnersFit ==
  ASSUME TypeOK, RegionFits, OwnersMarked
  PROVE  /\ IsFiniteSet(reserved) /\ IsFiniteSet(locked) /\ IsFiniteSet(held)
         /\ Cardinality(reserved) \in 0 .. Word - 1
         /\ Cardinality(locked) \in Nat /\ Cardinality(held) \in Nat
         /\ Cardinality(locked) + Cardinality(held) < Word
PROOF
  <1>1. ReserveCount(total_available_pages) \in Nat
    BY ReserveCoversMetadata DEF TypeOK
  <1>2. QED
    BY <1>1, OwnersFitCounters DEF TypeOK, RegionFits, OwnersMarked, Pages

(***************************************************************************)
(* The counters: moving n pages between two of them.                       *)
(***************************************************************************)
\* n pages leave free_memory for reserved_memory.
LEMMA CountReserve ==
  ASSUME NEW t \in 0 .. Word - 1, NEW r \in 0 .. Word - 1, NEW l \in 0 .. Word - 1,
         NEW n \in Nat, r + n < Word
  PROVE  /\ Minus(Minus(Minus(t, r), l), n) = Minus(Minus(t, r + n), l)
         /\ Plus(r, n) = r + n
         /\ Minus(Minus(t, r + n), l) \in 0 .. Word - 1
PROOF
  BY WordAssumption DEF Plus, Minus

\* n pages leave free_memory for locked_memory.
LEMMA CountLock ==
  ASSUME NEW t \in 0 .. Word - 1, NEW r \in 0 .. Word - 1, NEW l \in 0 .. Word - 1,
         NEW n \in Nat, l + n < Word
  PROVE  /\ Minus(Minus(Minus(t, r), l), n) = Minus(Minus(t, r), l + n)
         /\ Plus(l, n) = l + n
         /\ Minus(Minus(t, r), l + n) \in 0 .. Word - 1
PROOF
  BY WordAssumption DEF Plus, Minus

\* n pages return from reserved_memory.
LEMMA CountUnreserve ==
  ASSUME NEW t \in 0 .. Word - 1, NEW r \in 0 .. Word - 1, NEW l \in 0 .. Word - 1,
         NEW n \in Nat, n <= r
  PROVE  /\ Plus(Minus(Minus(t, r), l), n) = Minus(Minus(t, r - n), l)
         /\ Minus(r, n) = r - n
         /\ Minus(Minus(t, r - n), l) \in 0 .. Word - 1
PROOF
  BY WordAssumption DEF Plus, Minus

\* n pages return from locked_memory.
LEMMA CountUnlock ==
  ASSUME NEW t \in 0 .. Word - 1, NEW r \in 0 .. Word - 1, NEW l \in 0 .. Word - 1,
         NEW n \in Nat, n <= l
  PROVE  /\ Plus(Minus(Minus(t, r), l), n) = Minus(Minus(t, r), l - n)
         /\ Minus(l, n) = l - n
         /\ Minus(Minus(t, r), l - n) \in 0 .. Word - 1
PROOF
  BY WordAssumption DEF Plus, Minus

(***************************************************************************)
(* IInv holds initially and every action keeps it.                         *)
(***************************************************************************)
\* The state before MmInitialize satisfies the invariant.
LEMMA InitIInv == Init => IInv
PROOF
  <1> SUFFICES ASSUME Init PROVE IInv
    OBVIOUS
  <1>1. TypeOK
    <2>1. warned \in BOOLEAN
      BY Zenon DEF Init
    <2>2. QED
      BY <2>1, WordAssumption DEF Init, TypeOK
  <1>2. WarningIsTrue /\ Booting /\ pc = "boot"
    BY DEF Init, WarningIsTrue, Booting
  <1>3. QED
    BY <1>1, <1>2 DEF IInv

\* MmInitialize establishes the running part of the invariant.
LEMMA InitializeKeepsIInv ==
  ASSUME IInv, NEW map \in MemMaps, MmInitialize(map)
  PROVE  IInv'
PROOF
  <1> DEFINE pages == AvailablePages(map)
             count == ReserveCount(pages)
             taken == 0 .. count - 1
  <1>1. /\ pages \in Nat /\ pages > 0 /\ 2 * pages + 2 < Word
        /\ count \in Nat /\ count > 0 /\ count < Word
        /\ MetadataPages(pages) \subseteq taken
    BY RegionAssumption, ReserveCoversMetadata
  <1>2. FirstAddress(map) \div PageSize \in Nat
    BY FirstPageType
  <1> DEFINE fap == FirstAddress(map) \div PageSize
             meta == MetadataPages(pages)
  <1>3. PICK stale \in StaleBits(pages) : bitfield' = taken \cup stale
    BY DEF MmInitialize
  <1>4. stale \subseteq {pages}
    BY DEF StaleBits
  <1>5. /\ pc = "boot" /\ pc' = "idle" /\ first_available_page' = fap
        /\ total_available_pages' = pages /\ metadata' = meta
        /\ free_memory' = Minus(pages, count) /\ locked_memory' = 0
        /\ reserved_memory' = count /\ reserved' = taken
        /\ last_requested' = last_requested /\ first' = first /\ warned' = warned
        /\ locked' = locked /\ held' = held
    BY DEF MmInitialize, scanning
  <1>6. /\ last_requested = 0 /\ warned = FALSE /\ locked = {} /\ held = {}
        /\ first \in 0 .. Word - 1
    BY <1>5 DEF IInv, Booting, TypeOK
  <1>7. ReserveCount(total_available_pages') = count
    BY <1>5
  <1> HIDE DEF pages, count, fap, meta
  <1>8. IsFiniteSet(taken) /\ Cardinality(taken) = count
    <2>1. 0 \in Int /\ count - 1 \in Int /\ 0 <= (count - 1) + 1
      BY <1>1
    <2>2. /\ IsFiniteSet(0 .. count - 1)
          /\ Cardinality(0 .. count - 1) = (count - 1) - 0 + 1
      BY <2>1, IntervalSize, Zenon
    <2>3. QED
      BY <1>1, <2>2
  <1>9. TypeOK'
    <2>1. Minus(pages, count) \in 0 .. Word - 1
      BY <1>1, WordAssumption DEF Minus
    <2>2. warned' \in BOOLEAN
      BY <1>5, <1>6, Zenon
    <2>3. meta \subseteq Nat /\ fap \in Nat
      BY <1>1, <1>2 DEF fap, meta
    <2>4. QED
      BY <1>1, <1>3, <1>4, <1>5, <1>6, <2>1, <2>2, <2>3, WordAssumption DEF TypeOK
  <1>10. RegionFits' /\ WarningIsTrue'
    BY <1>1, <1>5, <1>6, <1>7 DEF RegionFits, WarningIsTrue
  <1>11. HeldPages' = {}
    BY <1>5, <1>6 DEF HeldPages
  <1>12. OwnersMarked'
    BY <1>1, <1>3, <1>5, <1>6, <1>7, <1>11 DEF OwnersMarked
  <1>13. OneOwner' /\ MetadataReserved'
    BY <1>1, <1>5, <1>6, <1>7, <1>11 DEF OneOwner, MetadataReserved, meta
  <1>14. BitmapMatchesOwners'
    BY <1>1, <1>3, <1>4, <1>5, <1>6, <1>11 DEF BitmapMatchesOwners, Pages
  <1>15. CountersBalance'
    <2>1. Cardinality({}) = 0
      BY FS_EmptySet
    <2>2. /\ Cardinality(reserved') = count /\ Cardinality(locked') = 0
          /\ Cardinality(held') = 0
      BY <1>5, <1>6, <1>8, <2>1
    <2>3. Minus(Minus(pages, count), 0) = Minus(pages, count)
      BY <1>1, WordAssumption DEF Minus
    <2>4. QED
      BY <1>5, <2>2, <2>3 DEF CountersBalance
  <1>16. ScanProgress'
    BY <1>5, <1>6 DEF ScanProgress
  <1>17. QED
    BY <1>5, <1>9, <1>10, <1>12, <1>13, <1>14, <1>15, <1>16 DEF IInv

\* What IInv says of a running allocator, in one place.
LEMMA Running ==
  ASSUME IInv, pc # "boot"
  PROVE  /\ TypeOK /\ WarningIsTrue /\ RegionFits /\ OwnersMarked /\ OneOwner
         /\ BitmapMatchesOwners /\ MetadataReserved /\ CountersBalance /\ ScanProgress
         /\ total_available_pages \in 0 .. Word - 1
         /\ ReserveCount(total_available_pages) \in Nat
PROOF
  <1>1. TypeOK /\ RegionFits
    BY DEF IInv
  <1>2. QED
    BY <1>1, ReserveCoversMetadata, WordAssumption DEF IInv, TypeOK, RegionFits

\* Reserving pages nobody has keeps the invariant.
LEMMA ReserveKeepsIInv ==
  ASSUME IInv, NEW page \in Nat, NEW pages \in Nat \ {0}, MmReservePages(page, pages)
  PROVE  IInv'
PROOF
  <1> DEFINE B == Batch(page, pages)
             total == total_available_pages
             R == ReserveCount(total_available_pages)
  <1>1. /\ pc = "idle" /\ pc' = "idle" /\ B \subseteq Unowned
        /\ bitfield' = bitfield \cup B /\ reserved' = reserved \cup B
        /\ free_memory' = Minus(free_memory, pages)
        /\ reserved_memory' = Plus(reserved_memory, pages)
        /\ first_available_page' = first_available_page
        /\ total_available_pages' = total_available_pages /\ metadata' = metadata
        /\ locked_memory' = locked_memory
        /\ last_requested' = last_requested /\ first' = first /\ warned' = warned
        /\ locked' = locked /\ held' = held
    BY DEF MmReservePages, region, scanning
  <1>2. /\ TypeOK /\ WarningIsTrue /\ RegionFits /\ OwnersMarked /\ OneOwner
        /\ BitmapMatchesOwners /\ MetadataReserved /\ CountersBalance /\ ScanProgress
        /\ total \in 0 .. Word - 1 /\ R \in Nat
    BY <1>1, Running
  <1>3. /\ IsFiniteSet(B) /\ Cardinality(B) = pages /\ B \subseteq Nat /\ page \in B
    BY BatchSize
  <1>4. /\ B \subseteq 0 .. total - 1 /\ B \cap reserved = {} /\ B \cap locked = {}
        /\ B \cap HeldPages = {}
    BY <1>1 DEF Unowned, HeldPages
  <1>5. HeldPages' = HeldPages /\ R' = R
    BY <1>1 DEF HeldPages
  <1> HIDE DEF B, R
  <1>6. reserved' \subseteq 0 .. total - 1
    <2>1. CASE reserved \subseteq 0 .. total - 1
      BY <1>1, <1>4, <2>1
    <2>2. CASE reserved = 0 .. R - 1
      BY <1>1, <1>2, <1>3, <1>4, <2>2
    <2>3. QED
      BY <1>2, <2>1, <2>2 DEF OwnersMarked, Pages, R
  <1>7. RegionFits' /\ OwnersMarked'
    BY <1>1, <1>2, <1>4, <1>5, <1>6 DEF RegionFits, OwnersMarked, Pages, R
  <1>8. OneOwner' /\ BitmapMatchesOwners' /\ MetadataReserved'
    BY <1>1, <1>2, <1>4, <1>5
      DEF OneOwner, BitmapMatchesOwners, Pages, MetadataReserved, R
  <1>9. WarningIsTrue' /\ ScanProgress'
    BY <1>1, <1>2 DEF WarningIsTrue, ScanProgress, Pages
  <1>10. /\ IsFiniteSet(reserved) /\ Cardinality(reserved) \in 0 .. Word - 1
    BY <1>2, OwnersFit
  <1>11. Cardinality(reserved') = Cardinality(reserved) + pages
    BY <1>1, <1>3, <1>4, <1>10, CardinalityAdds
  <1>12. Cardinality(reserved') < Word
    <2>1. IsFiniteSet(0 .. total - 1) /\ Cardinality(0 .. total - 1) = (total - 1) - 0 + 1
      BY <1>2, IntervalSize DEF TypeOK
    <2>2. Cardinality(reserved') <= Cardinality(0 .. total - 1)
      BY <1>6, <2>1, FS_Subset
    <2>3. QED
      BY <1>2, <1>10, <1>11, <2>1, <2>2, WordAssumption
  <1>13. /\ reserved_memory = Cardinality(reserved)
         /\ locked_memory = Cardinality(locked) + Cardinality(held)
         /\ free_memory = Minus(Minus(total, reserved_memory), locked_memory)
         /\ reserved_memory \in 0 .. Word - 1 /\ locked_memory \in 0 .. Word - 1
    BY <1>1, <1>2 DEF CountersBalance, TypeOK
  <1>14. /\ reserved_memory' = reserved_memory + pages
         /\ free_memory' = Minus(Minus(total, reserved_memory'), locked_memory)
         /\ free_memory' \in 0 .. Word - 1 /\ reserved_memory' \in 0 .. Word - 1
    <2>1. /\ pages \in Nat /\ reserved_memory + pages < Word
          /\ total \in 0 .. Word - 1 /\ reserved_memory \in 0 .. Word - 1
          /\ locked_memory \in 0 .. Word - 1
      BY <1>2, <1>11, <1>12, <1>13
    <2>2. /\ Minus(Minus(Minus(total, reserved_memory), locked_memory), pages)
               = Minus(Minus(total, reserved_memory + pages), locked_memory)
          /\ Plus(reserved_memory, pages) = reserved_memory + pages
          /\ Minus(Minus(total, reserved_memory + pages), locked_memory) \in 0 .. Word - 1
      BY <2>1, CountReserve
    <2>3. QED
      BY <1>1, <1>13, <2>1, <2>2, WordAssumption
  <1>15. CountersBalance'
    BY <1>1, <1>11, <1>13, <1>14 DEF CountersBalance
  <1>16. TypeOK'
    BY <1>1, <1>2, <1>3, <1>14 DEF TypeOK
  <1>17. QED
    BY <1>1, <1>7, <1>8, <1>9, <1>15, <1>16 DEF IInv

\* Returning reserved pages other than the allocator's own keeps the invariant.
LEMMA UnreserveKeepsIInv ==
  ASSUME IInv, NEW page \in Nat, NEW pages \in Nat \ {0}, MmUnreservePages(page, pages)
  PROVE  IInv'
PROOF
  <1> DEFINE B == Batch(page, pages)
             total == total_available_pages
             R == ReserveCount(total_available_pages)
  <1>1. /\ pc = "idle" /\ pc' = "idle" /\ B \subseteq reserved \ (0 .. R - 1)
        /\ bitfield' = bitfield \ B /\ reserved' = reserved \ B
        /\ free_memory' = Plus(free_memory, pages)
        /\ reserved_memory' = Minus(reserved_memory, pages)
        /\ first_available_page' = first_available_page
        /\ total_available_pages' = total_available_pages /\ metadata' = metadata
        /\ locked_memory' = locked_memory
        /\ last_requested' = last_requested /\ first' = first /\ warned' = warned
        /\ locked' = locked /\ held' = held
    BY DEF MmUnreservePages, region, scanning
  <1>2. /\ TypeOK /\ WarningIsTrue /\ RegionFits /\ OwnersMarked /\ OneOwner
        /\ BitmapMatchesOwners /\ MetadataReserved /\ CountersBalance /\ ScanProgress
        /\ total \in 0 .. Word - 1 /\ R \in Nat
    BY <1>1, Running
  <1>3. /\ IsFiniteSet(B) /\ Cardinality(B) = pages /\ B \subseteq Nat /\ page \in B
    BY BatchSize
  <1>4. B \cap locked = {} /\ B \cap HeldPages = {}
    BY <1>1, <1>2 DEF OneOwner
  <1>5. HeldPages' = HeldPages /\ R' = R
    BY <1>1 DEF HeldPages
  <1> HIDE DEF B, R
  <1>6. reserved \subseteq 0 .. total - 1
    BY <1>1, <1>2, <1>3 DEF OwnersMarked, Pages, R
  <1>7. RegionFits' /\ OwnersMarked'
    BY <1>1, <1>2, <1>4, <1>5, <1>6 DEF RegionFits, OwnersMarked, Pages, R
  <1>8. OneOwner' /\ BitmapMatchesOwners' /\ MetadataReserved'
    BY <1>1, <1>2, <1>4, <1>5
      DEF OneOwner, BitmapMatchesOwners, Pages, MetadataReserved, R
  <1>9. WarningIsTrue' /\ ScanProgress'
    BY <1>1, <1>2 DEF WarningIsTrue, ScanProgress, Pages
  <1>10. /\ IsFiniteSet(reserved) /\ Cardinality(reserved) \in 0 .. Word - 1
    BY <1>2, OwnersFit
  <1>11. /\ Cardinality(reserved') = Cardinality(reserved) - pages
         /\ pages <= Cardinality(reserved)
    BY <1>1, <1>3, <1>10, CardinalitySubtracts
  <1>12. /\ reserved_memory = Cardinality(reserved)
         /\ locked_memory = Cardinality(locked) + Cardinality(held)
         /\ free_memory = Minus(Minus(total, reserved_memory), locked_memory)
         /\ reserved_memory \in 0 .. Word - 1 /\ locked_memory \in 0 .. Word - 1
    BY <1>1, <1>2 DEF CountersBalance, TypeOK
  <1>13. /\ reserved_memory' = reserved_memory - pages
         /\ free_memory' = Minus(Minus(total, reserved_memory'), locked_memory)
         /\ free_memory' \in 0 .. Word - 1 /\ reserved_memory' \in 0 .. Word - 1
    <2>1. /\ pages \in Nat /\ pages <= reserved_memory
          /\ total \in 0 .. Word - 1 /\ reserved_memory \in 0 .. Word - 1
          /\ locked_memory \in 0 .. Word - 1
      BY <1>2, <1>11, <1>12
    <2>2. /\ Plus(Minus(Minus(total, reserved_memory), locked_memory), pages)
               = Minus(Minus(total, reserved_memory - pages), locked_memory)
          /\ Minus(reserved_memory, pages) = reserved_memory - pages
          /\ Minus(Minus(total, reserved_memory - pages), locked_memory) \in 0 .. Word - 1
      BY <2>1, CountUnreserve
    <2>3. QED
      BY <1>1, <1>12, <2>1, <2>2, WordAssumption
  <1>14. CountersBalance'
    BY <1>1, <1>11, <1>12, <1>13 DEF CountersBalance
  <1>15. TypeOK'
    BY <1>1, <1>2, <1>13 DEF TypeOK
  <1>16. QED
    BY <1>1, <1>7, <1>8, <1>9, <1>14, <1>15 DEF IInv

\* Locking pages nobody has keeps the invariant.
LEMMA LockKeepsIInv ==
  ASSUME IInv, NEW page \in Nat, NEW pages \in Nat \ {0}, MmLockPages(page, pages)
  PROVE  IInv'
PROOF
  <1> DEFINE B == Batch(page, pages)
             total == total_available_pages
             R == ReserveCount(total_available_pages)
  <1>1. /\ pc = "idle" /\ pc' = "idle" /\ B \subseteq Unowned
        /\ bitfield' = bitfield \cup B /\ locked' = locked \cup B
        /\ free_memory' = Minus(free_memory, pages)
        /\ locked_memory' = Plus(locked_memory, pages)
        /\ first_available_page' = first_available_page
        /\ total_available_pages' = total_available_pages /\ metadata' = metadata
        /\ reserved_memory' = reserved_memory
        /\ last_requested' = last_requested /\ first' = first /\ warned' = warned
        /\ reserved' = reserved /\ held' = held
    BY DEF MmLockPages, region, scanning
  <1>2. /\ TypeOK /\ WarningIsTrue /\ RegionFits /\ OwnersMarked /\ OneOwner
        /\ BitmapMatchesOwners /\ MetadataReserved /\ CountersBalance /\ ScanProgress
        /\ total \in 0 .. Word - 1 /\ R \in Nat
    BY <1>1, Running
  <1>3. /\ IsFiniteSet(B) /\ Cardinality(B) = pages /\ B \subseteq Nat /\ page \in B
    BY BatchSize
  <1>4. /\ B \subseteq 0 .. total - 1 /\ B \cap reserved = {} /\ B \cap locked = {}
        /\ B \cap HeldPages = {}
    BY <1>1 DEF Unowned, HeldPages
  <1>5. HeldPages' = HeldPages /\ R' = R
    BY <1>1 DEF HeldPages
  <1> HIDE DEF B, R
  <1>6. RegionFits' /\ OwnersMarked'
    BY <1>1, <1>2, <1>4, <1>5 DEF RegionFits, OwnersMarked, Pages, R
  <1>7. OneOwner' /\ BitmapMatchesOwners' /\ MetadataReserved'
    BY <1>1, <1>2, <1>4, <1>5
      DEF OneOwner, BitmapMatchesOwners, Pages, MetadataReserved, R
  <1>8. WarningIsTrue' /\ ScanProgress'
    BY <1>1, <1>2 DEF WarningIsTrue, ScanProgress, Pages
  <1>9. Cardinality(locked') + Cardinality(held') < Word
    <2>1. /\ locked' \subseteq 0 .. total - 1
          /\ held' \subseteq first_available_page .. first_available_page + total
      BY <1>1, <1>6 DEF OwnersMarked, Pages
    <2>2. QED
      BY <1>2, <2>1, OwnersFitCounters DEF TypeOK, RegionFits, OwnersMarked, Pages, R
  <1>10. /\ IsFiniteSet(locked) /\ Cardinality(locked) \in Nat /\ Cardinality(held) \in Nat
    BY <1>2, OwnersFit
  <1>11. Cardinality(locked') = Cardinality(locked) + pages
    BY <1>1, <1>3, <1>4, <1>10, CardinalityAdds
  <1>12. /\ reserved_memory = Cardinality(reserved)
         /\ locked_memory = Cardinality(locked) + Cardinality(held)
         /\ free_memory = Minus(Minus(total, reserved_memory), locked_memory)
         /\ reserved_memory \in 0 .. Word - 1 /\ locked_memory \in 0 .. Word - 1
    BY <1>1, <1>2 DEF CountersBalance, TypeOK
  <1>13. /\ locked_memory' = locked_memory + pages
         /\ free_memory' = Minus(Minus(total, reserved_memory), locked_memory')
         /\ free_memory' \in 0 .. Word - 1 /\ locked_memory' \in 0 .. Word - 1
    <2>1. /\ pages \in Nat /\ locked_memory + pages < Word
          /\ total \in 0 .. Word - 1 /\ reserved_memory \in 0 .. Word - 1
          /\ locked_memory \in 0 .. Word - 1
      BY <1>1, <1>2, <1>9, <1>10, <1>11, <1>12
    <2>2. /\ Minus(Minus(Minus(total, reserved_memory), locked_memory), pages)
               = Minus(Minus(total, reserved_memory), locked_memory + pages)
          /\ Plus(locked_memory, pages) = locked_memory + pages
          /\ Minus(Minus(total, reserved_memory), locked_memory + pages) \in 0 .. Word - 1
      BY <2>1, CountLock
    <2>3. QED
      BY <1>1, <1>12, <2>1, <2>2, WordAssumption
  <1>14. CountersBalance'
    BY <1>1, <1>10, <1>11, <1>12, <1>13 DEF CountersBalance
  <1>15. TypeOK'
    BY <1>1, <1>2, <1>3, <1>13 DEF TypeOK
  <1>16. QED
    BY <1>1, <1>6, <1>7, <1>8, <1>14, <1>15 DEF IInv

\* Unlocking locked pages keeps the invariant.
LEMMA UnlockKeepsIInv ==
  ASSUME IInv, NEW page \in Nat, NEW pages \in Nat \ {0}, MmUnlockPages(page, pages)
  PROVE  IInv'
PROOF
  <1> DEFINE B == Batch(page, pages)
             total == total_available_pages
             R == ReserveCount(total_available_pages)
  <1>1. /\ pc = "idle" /\ pc' = "idle" /\ B \subseteq locked
        /\ bitfield' = bitfield \ B /\ locked' = locked \ B
        /\ free_memory' = Plus(free_memory, pages)
        /\ locked_memory' = Minus(locked_memory, pages)
        /\ first_available_page' = first_available_page
        /\ total_available_pages' = total_available_pages /\ metadata' = metadata
        /\ reserved_memory' = reserved_memory
        /\ last_requested' = last_requested /\ first' = first /\ warned' = warned
        /\ reserved' = reserved /\ held' = held
    BY DEF MmUnlockPages, region, scanning
  <1>2. /\ TypeOK /\ WarningIsTrue /\ RegionFits /\ OwnersMarked /\ OneOwner
        /\ BitmapMatchesOwners /\ MetadataReserved /\ CountersBalance /\ ScanProgress
        /\ total \in 0 .. Word - 1 /\ R \in Nat
    BY <1>1, Running
  <1>3. /\ IsFiniteSet(B) /\ Cardinality(B) = pages /\ B \subseteq Nat /\ page \in B
    BY BatchSize
  <1>4. B \cap reserved = {} /\ B \cap HeldPages = {}
    BY <1>1, <1>2 DEF OneOwner
  <1>5. HeldPages' = HeldPages /\ R' = R
    BY <1>1 DEF HeldPages
  <1> HIDE DEF B, R
  <1>6. RegionFits' /\ OwnersMarked'
    BY <1>1, <1>2, <1>4, <1>5 DEF RegionFits, OwnersMarked, Pages, R
  <1>7. OneOwner' /\ BitmapMatchesOwners' /\ MetadataReserved'
    BY <1>1, <1>2, <1>4, <1>5
      DEF OneOwner, BitmapMatchesOwners, Pages, MetadataReserved, R
  <1>8. WarningIsTrue' /\ ScanProgress'
    BY <1>1, <1>2 DEF WarningIsTrue, ScanProgress, Pages
  <1>9. /\ IsFiniteSet(locked) /\ Cardinality(locked) \in Nat /\ Cardinality(held) \in Nat
    BY <1>2, OwnersFit
  <1>10. /\ Cardinality(locked') = Cardinality(locked) - pages
         /\ pages <= Cardinality(locked)
    BY <1>1, <1>3, <1>9, CardinalitySubtracts
  <1>11. /\ reserved_memory = Cardinality(reserved)
         /\ locked_memory = Cardinality(locked) + Cardinality(held)
         /\ free_memory = Minus(Minus(total, reserved_memory), locked_memory)
         /\ reserved_memory \in 0 .. Word - 1 /\ locked_memory \in 0 .. Word - 1
    BY <1>1, <1>2 DEF CountersBalance, TypeOK
  <1>12. /\ locked_memory' = locked_memory - pages
         /\ free_memory' = Minus(Minus(total, reserved_memory), locked_memory')
         /\ free_memory' \in 0 .. Word - 1 /\ locked_memory' \in 0 .. Word - 1
    <2>1. /\ pages \in Nat /\ pages <= locked_memory
          /\ total \in 0 .. Word - 1 /\ reserved_memory \in 0 .. Word - 1
          /\ locked_memory \in 0 .. Word - 1
      BY <1>2, <1>9, <1>10, <1>11
    <2>2. /\ Plus(Minus(Minus(total, reserved_memory), locked_memory), pages)
               = Minus(Minus(total, reserved_memory), locked_memory - pages)
          /\ Minus(locked_memory, pages) = locked_memory - pages
          /\ Minus(Minus(total, reserved_memory), locked_memory - pages) \in 0 .. Word - 1
      BY <2>1, CountUnlock
    <2>3. QED
      BY <1>1, <1>11, <2>1, <2>2, WordAssumption
  <1>13. CountersBalance'
    BY <1>1, <1>9, <1>10, <1>11, <1>12 DEF CountersBalance
  <1>14. TypeOK'
    BY <1>1, <1>2, <1>12 DEF TypeOK
  <1>15. QED
    BY <1>1, <1>6, <1>7, <1>8, <1>13, <1>14 DEF IInv

\* Freeing a frame that was handed out keeps the invariant.
LEMMA FreeKeepsIInv ==
  ASSUME IInv, NEW frame \in held, MmFreePage(frame)
  PROVE  IInv'
PROOF
  <1> DEFINE page == frame - first_available_page
             total == total_available_pages
             R == ReserveCount(total_available_pages)
  <1>1. /\ pc = "idle" /\ pc' = "idle"
        /\ bitfield' = bitfield \ {page} /\ held' = held \ {frame}
        /\ free_memory' = Plus(free_memory, 1)
        /\ locked_memory' = Minus(locked_memory, 1)
        /\ first_available_page' = first_available_page
        /\ total_available_pages' = total_available_pages /\ metadata' = metadata
        /\ reserved_memory' = reserved_memory
        /\ last_requested' = last_requested /\ first' = first /\ warned' = warned
        /\ reserved' = reserved /\ locked' = locked
    BY DEF MmFreePage, region, scanning
  <1>2. /\ TypeOK /\ WarningIsTrue /\ RegionFits /\ OwnersMarked /\ OneOwner
        /\ BitmapMatchesOwners /\ MetadataReserved /\ CountersBalance /\ ScanProgress
        /\ total \in 0 .. Word - 1 /\ R \in Nat
    BY <1>1, Running
  <1>3. page \in HeldPages /\ page \in Nat /\ frame = first_available_page + page
    BY <1>2 DEF HeldPages, TypeOK, OwnersMarked
  <1>4. page \notin reserved /\ page \notin locked
    BY <1>2, <1>3 DEF OneOwner
  <1>5. HeldPages' = HeldPages \ {page} /\ R' = R
    <2>1. \A f \in held : f \in Nat /\ first_available_page \in Nat
      BY <1>2 DEF TypeOK
    <2>2. QED
      BY <1>1, <1>3, <2>1 DEF HeldPages
  <1> HIDE DEF page, R
  <1>6. RegionFits' /\ OwnersMarked'
    BY <1>1, <1>2, <1>4, <1>5 DEF RegionFits, OwnersMarked, Pages, R
  <1>7. OneOwner' /\ BitmapMatchesOwners' /\ MetadataReserved'
    BY <1>1, <1>2, <1>4, <1>5
      DEF OneOwner, BitmapMatchesOwners, Pages, MetadataReserved, R
  <1>8. WarningIsTrue' /\ ScanProgress'
    BY <1>1, <1>2 DEF WarningIsTrue, ScanProgress, Pages
  <1>9. /\ IsFiniteSet(held) /\ Cardinality(locked) \in Nat /\ Cardinality(held) \in Nat
    BY <1>2, OwnersFit
  <1>10. Cardinality(held') = Cardinality(held) - 1 /\ Cardinality(held) > 0
    <2>1. IsFiniteSet(held \ {frame}) /\ Cardinality(held \ {frame}) = Cardinality(held) - 1
      BY <1>9, FS_RemoveElement
    <2>2. Cardinality(held \ {frame}) \in Nat
      BY <2>1, FS_CardinalityType
    <2>3. QED
      BY <1>1, <1>9, <2>1, <2>2
  <1>11. /\ reserved_memory = Cardinality(reserved)
         /\ locked_memory = Cardinality(locked) + Cardinality(held)
         /\ free_memory = Minus(Minus(total, reserved_memory), locked_memory)
         /\ reserved_memory \in 0 .. Word - 1 /\ locked_memory \in 0 .. Word - 1
    BY <1>1, <1>2 DEF CountersBalance, TypeOK
  <1>12. /\ locked_memory' = locked_memory - 1
         /\ free_memory' = Minus(Minus(total, reserved_memory), locked_memory')
         /\ free_memory' \in 0 .. Word - 1 /\ locked_memory' \in 0 .. Word - 1
    <2>1. /\ 1 \in Nat /\ 1 <= locked_memory
          /\ total \in 0 .. Word - 1 /\ reserved_memory \in 0 .. Word - 1
          /\ locked_memory \in 0 .. Word - 1
      BY <1>2, <1>9, <1>10, <1>11
    <2>2. /\ Plus(Minus(Minus(total, reserved_memory), locked_memory), 1)
               = Minus(Minus(total, reserved_memory), locked_memory - 1)
          /\ Minus(locked_memory, 1) = locked_memory - 1
          /\ Minus(Minus(total, reserved_memory), locked_memory - 1) \in 0 .. Word - 1
      BY <2>1, CountUnlock
    <2>3. QED
      BY <1>1, <1>11, <2>1, <2>2, WordAssumption
  <1>13. CountersBalance'
    BY <1>1, <1>9, <1>10, <1>11, <1>12 DEF CountersBalance
  <1>14. TypeOK'
    BY <1>1, <1>2, <1>12 DEF TypeOK
  <1>15. QED
    BY <1>1, <1>6, <1>7, <1>8, <1>13, <1>14 DEF IInv

\* Entering MmRequestPage keeps the invariant: the scan starts with nothing seen.
LEMMA RequestKeepsIInv ==
  ASSUME IInv, MmRequestPage
  PROVE  IInv'
PROOF
  <1>1. /\ pc = "idle" /\ pc' = "scan"
        /\ first' = Minus(last_requested, 1) /\ warned' = FALSE
        /\ bitfield' = bitfield /\ reserved' = reserved /\ held' = held
        /\ free_memory' = free_memory /\ locked_memory' = locked_memory
        /\ reserved_memory' = reserved_memory
        /\ first_available_page' = first_available_page
        /\ total_available_pages' = total_available_pages /\ metadata' = metadata
        /\ last_requested' = last_requested /\ locked' = locked
    BY DEF MmRequestPage, ScanStart, region, counters
  <1>2. /\ TypeOK /\ WarningIsTrue /\ RegionFits /\ OwnersMarked /\ OneOwner
        /\ BitmapMatchesOwners /\ MetadataReserved /\ CountersBalance /\ ScanProgress
        /\ total_available_pages \in 0 .. Word - 1
    BY <1>1, Running
  <1>3. first' \in 0 .. Word - 1 /\ Plus(first', 1) = last_requested
    BY <1>1, <1>2, WordAssumption DEF TypeOK, RegionFits, Plus, Minus
  <1>4. ScanProgress'
    <2>1. Plus(first', 1) .. last_requested - 1 = {}
      BY <1>2, <1>3 DEF TypeOK
    <2>2. Plus(first', 1) <= last_requested
      BY <1>2, <1>3 DEF TypeOK
    <2>3. QED
      BY <1>1, <2>1, <2>2 DEF ScanProgress, Plus
  <1>5. HeldPages' = HeldPages /\ Pages' = Pages
    BY <1>1 DEF HeldPages, Pages
  <1>6. /\ RegionFits' /\ OwnersMarked' /\ OneOwner' /\ BitmapMatchesOwners'
        /\ MetadataReserved' /\ CountersBalance' /\ WarningIsTrue'
    BY <1>1, <1>2, <1>5
      DEF RegionFits, OwnersMarked, OneOwner, BitmapMatchesOwners, MetadataReserved,
          CountersBalance, WarningIsTrue
  <1>7. TypeOK'
    <2>1. warned' \in BOOLEAN
      BY <1>1, Zenon
    <2>2. QED
      BY <1>1, <1>2, <1>3, <2>1 DEF TypeOK
  <1>8. QED
    BY <1>1, <1>4, <1>6, <1>7 DEF IInv

\* One step over a marked page keeps the invariant: the scan has seen one more
\* page, and if it reports, it has seen them all.
LEMMA ScanBusyKeepsIInv ==
  ASSUME IInv, ScanBusyPage
  PROVE  IInv'
PROOF
  <1> DEFINE here == IF last_requested >= total_available_pages THEN 0
                                                                ELSE last_requested
             total == total_available_pages
             start == Plus(first, 1)
  <1>1. /\ pc = "scan" /\ pc' = "scan" /\ last_requested \in bitfield
        /\ warned' = (warned \/ here = first)
        /\ last_requested' = here + 1
        /\ bitfield' = bitfield /\ reserved' = reserved /\ held' = held
        /\ free_memory' = free_memory /\ locked_memory' = locked_memory
        /\ reserved_memory' = reserved_memory
        /\ first_available_page' = first_available_page
        /\ total_available_pages' = total_available_pages /\ metadata' = metadata
        /\ first' = first /\ locked' = locked
    BY DEF ScanBusyPage, region, counters
  <1>2. /\ TypeOK /\ WarningIsTrue /\ RegionFits /\ OwnersMarked /\ OneOwner
        /\ BitmapMatchesOwners /\ MetadataReserved /\ CountersBalance /\ ScanProgress
        /\ total_available_pages \in 0 .. Word - 1
    BY <1>1, Running
  <1>3. 0 \in bitfield
    BY <1>2 DEF MetadataReserved, OwnersMarked
  <1>4. /\ last_requested \in 0 .. total /\ total \in Nat /\ total > 0
        /\ first \in 0 .. Word - 1 /\ 2 * total + 2 < Word
    BY <1>2 DEF TypeOK, RegionFits
  <1>5. start \in 0 .. Word - 1 /\ (first < Word - 1 => start = first + 1)
    BY <1>4, WordAssumption DEF Plus
  <1>6. \/ start <= last_requested /\ start .. last_requested - 1 \subseteq bitfield
        \/ start .. total - 1 \subseteq bitfield /\ 1 .. last_requested - 1 \subseteq bitfield
    BY <1>1, <1>2 DEF ScanProgress
  <1>7. last_requested' \in 0 .. total
    BY <1>1, <1>4
  <1> HIDE DEF start
  <1>8. \/ start <= here + 1 /\ start .. here \subseteq bitfield
        \/ start .. total - 1 \subseteq bitfield /\ 1 .. here \subseteq bitfield
    <2>1. CASE last_requested < total
      BY <1>1, <1>4, <1>5, <1>6, <2>1
    <2>2. CASE last_requested = total
      BY <1>1, <1>4, <1>5, <1>6, <2>2
    <2>3. QED
      BY <1>4, <2>1, <2>2
  <1>9. ScanProgress'
    <2>1. start' = start
      BY <1>1 DEF start, Plus
    <2>2. /\ here + 1 - 1 = here /\ last_requested' - 1 = here
      BY <1>1, <1>4
    <2>3. QED
      BY <1>1, <1>8, <2>1, <2>2 DEF ScanProgress, start
  <1>10. ASSUME here = first PROVE 0 .. total - 1 \subseteq bitfield
    <2>1. start = here + 1
      <3>1. here \in Nat /\ here < total
        BY <1>4
      <3>2. QED
        BY <1>4, <1>5, <1>10, <3>1, WordAssumption
    <2>2. here + 1 .. total - 1 \subseteq bitfield /\ 1 .. here \subseteq bitfield
      <3>1. CASE last_requested < total
        BY <1>1, <1>4, <1>6, <2>1, <3>1
      <3>2. CASE last_requested = total
        BY <1>1, <1>4, <1>6, <2>1, <3>2
      <3>3. QED
        BY <1>4, <3>1, <3>2
    <2>3. QED
      BY <1>3, <1>4, <2>2
  <1>11. WarningIsTrue'
    <2>1. CASE warned
      BY <1>1, <1>2, <2>1 DEF WarningIsTrue, Pages
    <2>2. CASE here = first
      BY <1>1, <1>10, <2>2 DEF WarningIsTrue, Pages
    <2>3. CASE ~ warned /\ here # first
      BY <1>1, <2>3 DEF WarningIsTrue
    <2>4. QED
      BY <2>1, <2>2, <2>3
  <1>12. HeldPages' = HeldPages /\ Pages' = Pages
    BY <1>1 DEF HeldPages, Pages
  <1>13. /\ RegionFits' /\ OwnersMarked' /\ OneOwner' /\ BitmapMatchesOwners'
         /\ MetadataReserved' /\ CountersBalance'
    BY <1>1, <1>2, <1>12
      DEF RegionFits, OwnersMarked, OneOwner, BitmapMatchesOwners, MetadataReserved,
          CountersBalance
  <1>14. TypeOK'
    <2>1. warned' \in BOOLEAN
      BY <1>1, Zenon
    <2>2. QED
      BY <1>1, <1>2, <1>7, <2>1 DEF TypeOK
  <1>15. QED
    BY <1>1, <1>9, <1>11, <1>13, <1>14 DEF IInv

\* Handing out the page under the cursor keeps the invariant.
LEMMA TakeKeepsIInv ==
  ASSUME IInv, TakePage
  PROVE  IInv'
PROOF
  <1> DEFINE total == total_available_pages
             frame == first_available_page + last_requested
  <1>1. /\ pc = "scan" /\ pc' = "idle" /\ last_requested \notin bitfield
        /\ bitfield' = bitfield \cup {last_requested}
        /\ free_memory' = Minus(free_memory, 1)
        /\ locked_memory' = Plus(locked_memory, 1)
        /\ held' = held \cup {frame}
        /\ first' = 0 /\ warned' = FALSE
        /\ reserved' = reserved /\ reserved_memory' = reserved_memory
        /\ first_available_page' = first_available_page
        /\ total_available_pages' = total_available_pages /\ metadata' = metadata
        /\ last_requested' = last_requested /\ locked' = locked
    BY DEF TakePage, region
  <1>2. /\ TypeOK /\ WarningIsTrue /\ RegionFits /\ OwnersMarked /\ OneOwner
        /\ BitmapMatchesOwners /\ MetadataReserved /\ CountersBalance /\ ScanProgress
        /\ total_available_pages \in 0 .. Word - 1
        /\ ReserveCount(total_available_pages) \in Nat
    BY <1>1, Running
  <1>3. /\ last_requested \in 0 .. total /\ total \in Nat /\ first_available_page \in Nat
        /\ frame \in Nat /\ frame - first_available_page = last_requested
    BY <1>2 DEF TypeOK
  <1>4. HeldPages' = HeldPages \cup {last_requested}
    BY <1>1, <1>3 DEF HeldPages
  <1>5. /\ last_requested \notin reserved /\ last_requested \notin locked
        /\ last_requested \notin HeldPages
    BY <1>1, <1>2 DEF OwnersMarked
  <1>6. frame \notin held
    BY <1>3, <1>5 DEF HeldPages
  <1> HIDE DEF frame
  <1>7. RegionFits' /\ OwnersMarked'
    <2>1. frame \in first_available_page .. first_available_page + total
      BY <1>3 DEF frame
    <2>2. QED
      BY <1>1, <1>2, <1>4, <2>1 DEF RegionFits, OwnersMarked, Pages
  <1>8. OneOwner' /\ BitmapMatchesOwners' /\ MetadataReserved'
    BY <1>1, <1>2, <1>4, <1>5
      DEF OneOwner, BitmapMatchesOwners, Pages, MetadataReserved
  <1>9. WarningIsTrue' /\ ScanProgress'
    BY <1>1 DEF WarningIsTrue, ScanProgress
  <1>10. /\ IsFiniteSet(held) /\ Cardinality(locked) \in Nat /\ Cardinality(held) \in Nat
    BY <1>2, OwnersFit
  <1>11. Cardinality(held') = Cardinality(held) + 1
    BY <1>1, <1>6, <1>10, FS_AddElement
  <1>12. Cardinality(locked') + Cardinality(held') < Word
    <2>1. /\ locked' \subseteq 0 .. total - 1
          /\ held' \subseteq first_available_page .. first_available_page + total
      BY <1>1, <1>7 DEF OwnersMarked, Pages
    <2>2. QED
      BY <1>2, <2>1, OwnersFitCounters DEF TypeOK, RegionFits, OwnersMarked, Pages
  <1>13. /\ reserved_memory = Cardinality(reserved)
         /\ locked_memory = Cardinality(locked) + Cardinality(held)
         /\ free_memory = Minus(Minus(total, reserved_memory), locked_memory)
         /\ reserved_memory \in 0 .. Word - 1 /\ locked_memory \in 0 .. Word - 1
    BY <1>1, <1>2 DEF CountersBalance, TypeOK
  <1>14. /\ locked_memory' = locked_memory + 1
         /\ free_memory' = Minus(Minus(total, reserved_memory), locked_memory')
         /\ free_memory' \in 0 .. Word - 1 /\ locked_memory' \in 0 .. Word - 1
    <2>1. /\ 1 \in Nat /\ locked_memory + 1 < Word
          /\ total \in 0 .. Word - 1 /\ reserved_memory \in 0 .. Word - 1
          /\ locked_memory \in 0 .. Word - 1
      BY <1>1, <1>2, <1>10, <1>11, <1>12, <1>13
    <2>2. /\ Minus(Minus(Minus(total, reserved_memory), locked_memory), 1)
               = Minus(Minus(total, reserved_memory), locked_memory + 1)
          /\ Plus(locked_memory, 1) = locked_memory + 1
          /\ Minus(Minus(total, reserved_memory), locked_memory + 1) \in 0 .. Word - 1
      BY <2>1, CountLock
    <2>3. QED
      BY <1>1, <1>13, <2>1, <2>2, WordAssumption
  <1>15. CountersBalance'
    BY <1>1, <1>10, <1>11, <1>13, <1>14 DEF CountersBalance
  <1>16. TypeOK'
    <2>1. warned' \in BOOLEAN
      BY <1>1, Zenon
    <2>2. QED
      BY <1>1, <1>2, <1>3, <1>14, <2>1, WordAssumption DEF TypeOK
  <1>17. QED
    BY <1>1, <1>7, <1>8, <1>9, <1>15, <1>16 DEF IInv

\* Every step of the allocator keeps the invariant.
LEMMA NextKeepsIInv == IInv /\ [Next]_vars => IInv'
PROOF
  <1> SUFFICES ASSUME IInv, [Next]_vars PROVE IInv'
    OBVIOUS
  <1>1. ASSUME NEW map \in MemMaps, MmInitialize(map) PROVE IInv'
    BY <1>1, InitializeKeepsIInv
  <1>2. CASE MmRequestPage
    BY <1>2, RequestKeepsIInv
  <1>3. ASSUME NEW frame \in held, MmFreePage(frame) PROVE IInv'
    BY <1>3, FreeKeepsIInv
  <1>4. ASSUME NEW page \in 0 .. total_available_pages - 1, NEW pages \in 1 .. MaxBatch,
               \/ MmReservePages(page, pages)
               \/ MmUnreservePages(page, pages)
               \/ MmLockPages(page, pages)
               \/ MmUnlockPages(page, pages)
        PROVE  IInv'
    <2>1. page \in Nat /\ pages \in Nat \ {0}
      BY MaxBatchAssumption DEF IInv, TypeOK
    <2>2. QED
      BY <1>4, <2>1, ReserveKeepsIInv, UnreserveKeepsIInv, LockKeepsIInv, UnlockKeepsIInv
  <1>5. CASE ScanBusyPage
    BY <1>5, ScanBusyKeepsIInv
  <1>6. CASE TakePage
    BY <1>6, TakeKeepsIInv
  <1>7. CASE UNCHANGED vars
    BY <1>7
      DEF vars, region, counters, scanning, IInv, TypeOK, WarningIsTrue, Pages, Booting,
          RegionFits, OwnersMarked, HeldPages, OneOwner, BitmapMatchesOwners,
          MetadataReserved, CountersBalance, ScanProgress
  <1>8. QED
    BY <1>1, <1>2, <1>3, <1>4, <1>5, <1>6, <1>7 DEF Next, Callers, Scan

(***************************************************************************)
(* The theorems.                                                           *)
(***************************************************************************)
\* The inductive invariant holds in every behaviour of pmm.c, for every page
\* size, memory map and batch size.
THEOREM Invariance == Spec => []IInv
PROOF
  <1>1. Init => IInv
    BY InitIInv
  <1>2. IInv /\ [Next]_vars => IInv'
    BY NextKeepsIInv
  <1>3. QED
    BY <1>1, <1>2, PTL DEF Spec

\* The allocator's state is always well typed; in particular the cursor
\* last_requested never leaves 0 .. total_available_pages.
THEOREM TypeCorrect == Spec => []TypeOK
PROOF
  <1>1. IInv => TypeOK
    BY DEF IInv
  <1>2. QED
    BY <1>1, Invariance, PTL

\* The bitmap says of every page of the region whether somebody has it.
THEOREM BitmapCorrect == Spec => []BitmapMatchesOwners
PROOF
  <1>1. IInv => BitmapMatchesOwners
    BY DEF IInv, BitmapMatchesOwners
  <1>2. QED
    BY <1>1, Invariance, PTL

\* The pages of the statistics and of the bitmap are never given away, whatever
\* the size of the region: the slack added by MmInitialize always suffices.
THEOREM MetadataSafe == Spec => []MetadataProtected
PROOF
  <1>1. IInv => MetadataProtected
    <2> SUFFICES ASSUME IInv PROVE MetadataProtected
      OBVIOUS
    <2>1. CASE pc = "boot"
      BY <2>1 DEF IInv, Booting, MetadataProtected
    <2>2. CASE pc # "boot"
      BY <2>2 DEF IInv, MetadataReserved, OwnersMarked, OneOwner, MetadataProtected
    <2>3. QED
      BY <2>1, <2>2
  <1>2. QED
    BY <1>1, Invariance, PTL

\* The three counters of MemoryStatistics always add up.
THEOREM CountersCorrect == Spec => []CountersBalance
PROOF
  <1>1. IInv => CountersBalance
    BY DEF IInv, CountersBalance
  <1>2. QED
    BY <1>1, Invariance, PTL

\* MmRequestPage complains about missing pages only when every page is taken.
THEOREM WarningCorrect == Spec => []WarningIsTrue
PROOF
  <1>1. IInv => WarningIsTrue
    BY DEF IInv
  <1>2. QED
    BY <1>1, Invariance, PTL

\* Every request is answered with a page that nobody has.
THEOREM RequestsAreFresh == Spec => FreshFrame
PROOF
  <1> DEFINE Fresh == (pc = "scan" /\ pc' = "idle") =>
                        \E f \in held' \ held :
                          f - first_available_page \notin reserved \cup locked
  <1>1. ASSUME IInv, [Next]_vars PROVE [Fresh]_vars
    <2> SUFFICES ASSUME pc = "scan", pc' = "idle" PROVE Fresh
      BY DEF Fresh
    <2>1. TakePage
      BY <1>1 DEF Next, Callers, Scan, MmInitialize, MmRequestPage, MmFreePage,
        MmReservePages, MmUnreservePages, MmLockPages, MmUnlockPages, ScanBusyPage, vars
    <2>2. /\ TypeOK /\ OwnersMarked
      BY <1>1, Running
    <2> DEFINE f == first_available_page + last_requested
    <2>3. f - first_available_page = last_requested
      BY <2>2 DEF TypeOK
    <2>4. /\ last_requested \notin bitfield /\ held' = held \cup {f}
      BY <2>1 DEF TakePage
    <2>5. f \notin held /\ last_requested \notin reserved \cup locked
      BY <2>2, <2>3, <2>4 DEF OwnersMarked, HeldPages
    <2> HIDE DEF f
    <2>6. QED
      BY <2>3, <2>4, <2>5
  <1>2. QED
    BY <1>1, Invariance, PTL DEF Spec, FreshFrame

(***************************************************************************)
(* Refinement: the bitmap allocator implements PageAllocator.              *)
(***************************************************************************)
\* The frames the scan can reach, and those of them that are marked but not
\* handed out.
Reach == first_available_page .. first_available_page + total_available_pages
SetAside == {f \in Reach : f - first_available_page \in bitfield} \ held

\* The abstract state, spelled out for the steps below.
AllocatorState == <<IF pc = "boot" THEN {} ELSE Reach, held, SetAside>>

\* The initial state maps to an initial state.
LEMMA InitMapsToInit == Init => Allocator!Init
PROOF
  BY DEF Init, Allocator!Init

\* A step that leaves the abstract state alone is a stuttering step.
LEMMA StutterMaps ==
  ASSUME UNCHANGED AllocatorState
  PROVE  UNCHANGED Allocator!vars
PROOF
  BY DEF AllocatorState, Reach, SetAside, Allocator!vars

\* Every step maps to a step of PageAllocator or to a stuttering step.
LEMMA StepMapsToStep ==
  IInv /\ [Next]_vars => [Allocator!Next]_(Allocator!vars)
PROOF
  <1> SUFFICES ASSUME IInv, [Next]_vars
               PROVE  Allocator!Next \/ UNCHANGED Allocator!vars
    OBVIOUS
  <1>1. ASSUME NEW map \in MemMaps, MmInitialize(map) PROVE Allocator!Start
    BY <1>1 DEF MmInitialize, Allocator!Start
  <1>2. CASE MmRequestPage
    <2>1. UNCHANGED AllocatorState
      BY <1>2 DEF MmRequestPage, region, AllocatorState, Reach, SetAside
    <2>2. QED
      BY <2>1, StutterMaps
  <1>3. CASE ScanBusyPage
    <2>1. UNCHANGED AllocatorState
      BY <1>3 DEF ScanBusyPage, region, AllocatorState, Reach, SetAside
    <2>2. QED
      BY <2>1, StutterMaps
  <1>4. CASE UNCHANGED vars
    <2>1. UNCHANGED AllocatorState
      BY <1>4 DEF vars, region, AllocatorState, Reach, SetAside
    <2>2. QED
      BY <2>1, StutterMaps
  <1>5. ASSUME NEW frame \in held, MmFreePage(frame) PROVE Allocator!Free
    <2>1. /\ pc = "idle" /\ pc' = "idle" /\ held' = held \ {frame}
          /\ bitfield' = bitfield \ {frame - first_available_page}
          /\ first_available_page' = first_available_page
          /\ total_available_pages' = total_available_pages
      BY <1>5 DEF MmFreePage, region
    <2>2. \A f \in Reach : f \in Nat /\ first_available_page \in Nat
      BY DEF IInv, TypeOK, Reach
    <2>3. frame \in Nat
      BY DEF IInv, TypeOK
    <2>4. Reach' = Reach /\ SetAside' = SetAside
      BY <2>1, <2>2, <2>3 DEF Reach, SetAside
    <2>5. QED
      BY <2>1, <2>4 DEF Allocator!Free, Reach, SetAside
  <1>6. CASE TakePage
    <2> DEFINE frame == first_available_page + last_requested
    <2>1. /\ pc = "scan" /\ pc' = "idle" /\ held' = held \cup {frame}
          /\ last_requested \notin bitfield
          /\ bitfield' = bitfield \cup {last_requested}
          /\ first_available_page' = first_available_page
          /\ total_available_pages' = total_available_pages
      BY <1>6 DEF TakePage, region
    <2>2. /\ first_available_page \in Nat
          /\ last_requested \in 0 .. total_available_pages
          /\ total_available_pages \in Nat
      BY DEF IInv, TypeOK
    <2>3. /\ frame \in Reach /\ frame - first_available_page = last_requested
          /\ \A f \in Reach : f - first_available_page = last_requested <=> f = frame
      BY <2>2 DEF Reach
    <2>4. frame \notin held
      BY <2>1, <2>3, Running DEF OwnersMarked, HeldPages
    <2>5. frame \notin SetAside
      BY <2>1, <2>3 DEF SetAside
    <2>6. Reach' = Reach /\ SetAside' = SetAside
      <3> HIDE DEF frame
      <3>1. Reach' = Reach
        BY <2>1 DEF Reach
      <3>2. QED
        BY <2>1, <2>3, <2>5, <3>1 DEF SetAside
    <2> HIDE DEF frame
    <2>7. frame \in Allocator!Available
      BY <2>1, <2>3, <2>4, <2>5 DEF Allocator!Available, Reach, SetAside
    <2>8. Allocator!Request!2
      BY <2>1, <2>6 DEF Allocator!Request, Reach, SetAside
    <2>9. QED
      BY <2>1, <2>7, <2>8 DEF Allocator!Request, Allocator!Next
  <1>7. ASSUME NEW page, NEW pages,
               MmReservePages(page, pages) \/ MmLockPages(page, pages)
        PROVE  Allocator!Withhold
    <2>1. /\ pc = "idle" /\ pc' = "idle" /\ held' = held
          /\ bitfield \subseteq bitfield'
          /\ first_available_page' = first_available_page
          /\ total_available_pages' = total_available_pages
      BY <1>7 DEF MmReservePages, MmLockPages, region
    <2>2. QED
      BY <2>1 DEF Allocator!Withhold, Allocator!Available
  <1>8. ASSUME NEW page, NEW pages,
               MmUnreservePages(page, pages) \/ MmUnlockPages(page, pages)
        PROVE  Allocator!Release
    <2>1. /\ pc = "idle" /\ pc' = "idle" /\ held' = held
          /\ bitfield' \subseteq bitfield
          /\ first_available_page' = first_available_page
          /\ total_available_pages' = total_available_pages
      BY <1>8 DEF MmUnreservePages, MmUnlockPages, region
    <2>2. QED
      BY <2>1 DEF Allocator!Release
  <1>9. QED
    BY <1>1, <1>2, <1>3, <1>4, <1>5, <1>6, <1>7, <1>8
      DEF Next, Callers, Scan, Allocator!Next

\* pmm.c implements the abstract page allocator: its bitmap, cursor and counters
\* never show, except that the frame after the region is managed too.
THEOREM PmmImplementsAllocator == Spec => ImplementsAllocator
PROOF
  <1>1. Init => Allocator!Init
    BY InitMapsToInit
  <1>2. IInv /\ [Next]_vars => [Allocator!Next]_(Allocator!vars)
    BY StepMapsToStep
  <1>3. QED
    BY <1>1, <1>2, Invariance, PTL DEF Spec, ImplementsAllocator, Allocator!Spec

============================================================================

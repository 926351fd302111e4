------------------------- MODULE LaiOpregionProofs -------------------------
(***************************************************************************)
(* Proofs about the fields of operation regions: for every width of a      *)
(* byte, every region and every set of fields the code supports, a read    *)
(* returns the bits of the field, a write puts the source into them, and   *)
(* the bits around them follow the update rule.                            *)
(***************************************************************************)
EXTENDS LaiOpregion, ArithmeticLemmas

(***************************************************************************)
(* Bits.                                                                   *)
(***************************************************************************)
LEMMA ShrIs ==
  ASSUME NEW v, v \subseteq Nat, NEW n \in Nat, NEW x
  PROVE  x \in Shr(v, n) <=> x \in Nat /\ x + n \in v
PROOF
  <1>1. ASSUME x \in Shr(v, n) PROVE x \in Nat /\ x + n \in v
    <2>1. PICK b \in {c \in v : c >= n} : x = b - n
      BY <1>1 DEF Shr
    <2>2. QED
      BY <2>1
  <1>2. ASSUME x \in Nat, x + n \in v PROVE x \in Shr(v, n)
    <2>1. x + n \in {c \in v : c >= n} /\ x = (x + n) - n
      BY <1>2
    <2>2. QED
      BY <2>1 DEF Shr
  <1>3. QED
    BY <1>1, <1>2

LEMMA ShlIs ==
  ASSUME NEW v, v \subseteq Nat, NEW n \in Nat, NEW x
  PROVE  x \in Shl(v, n) <=> x \in Nat /\ x - n \in v
PROOF
  <1>1. ASSUME x \in Shl(v, n) PROVE x \in Nat /\ x - n \in v
    <2>1. PICK b \in v : x = b + n
      BY <1>1 DEF Shl
    <2>2. QED
      BY <2>1
  <1>2. ASSUME x \in Nat, x - n \in v PROVE x \in Shl(v, n)
    <2>1. x = (x - n) + n
      BY <1>2
    <2>2. QED
      BY <1>2, <2>1 DEF Shl
  <1>3. QED
    BY <1>1, <1>2

(***************************************************************************)
(* The access width is one, two or four bytes.                             *)
(***************************************************************************)
LEMMA Widths ==
  ASSUME NEW f \in Fields
  PROVE  /\ lai_calculate_access_width(f) \in {RegionByte, 2 * RegionByte, 4 * RegionByte}
         /\ f.kind \in {"index", "buffer"} => lai_calculate_access_width(f) = RegionByte
PROOF
  <1>1. RegionByte \in Nat \ {0} /\ INT = 4 * RegionByte /\ INT \div 2 = 2 * RegionByte
    BY LaiOpregionAssumption
  <1>2. f.access \in AccessTypes /\ f.size \in Nat /\ (f.kind \in {"index", "buffer"} => f.access = "byte")
    BY LaiOpregionAssumption DEF Field
  <1>3. CASE f.access = "byte"
    <2>1. lai_calculate_access_width(f) = RegionByte
      BY <1>3, Zenon DEF lai_calculate_access_width
    <2>2. QED
      BY <2>1
  <1>4. CASE f.access = "half"
    <2>1. lai_calculate_access_width(f) = INT \div 2
      BY <1>4, Zenon DEF lai_calculate_access_width
    <2>2. QED
      BY <1>1, <1>2, <1>4, <2>1
  <1>5. CASE f.access = "full"
    <2>1. lai_calculate_access_width(f) = INT
      BY <1>5, Zenon DEF lai_calculate_access_width
    <2>2. QED
      BY <1>1, <1>2, <1>5, <2>1
  <1>6. CASE f.access = "any"
    <2> DEFINE all == {RegionByte, 2 * RegionByte, 4 * RegionByte}
               widest == IF f.space = "memory" THEN INT ELSE INT \div 2
               ok(w) == /\ w <= widest /\ (w >= f.size \/ w = widest)
                        /\ \A x \in all : x >= f.size => x >= w
    <2>1. lai_calculate_access_width(f) = CHOOSE w \in all : ok(w)
      BY <1>6, Zenon DEF lai_calculate_access_width
    <2>2. \E w \in all : ok(w)
      <3>1. widest \in {2 * RegionByte, 4 * RegionByte}
        BY <1>1
      <3> HIDE DEF widest
      <3>2. CASE f.size <= RegionByte
        <4>1. ok(RegionByte)
          BY <1>1, <1>2, <3>1, <3>2
        <4>2. QED
          BY <4>1
      <3>3. CASE f.size > RegionByte /\ f.size <= 2 * RegionByte
        <4>1. ok(2 * RegionByte)
          BY <1>1, <1>2, <3>1, <3>3
        <4>2. QED
          BY <4>1
      <3>4. CASE f.size > 2 * RegionByte
        <4>1. ok(widest)
          BY <1>1, <1>2, <3>1, <3>4
        <4>2. QED
          BY <3>1, <4>1
      <3>5. QED
        BY <1>1, <1>2, <3>2, <3>3, <3>4
    <2> HIDE DEF ok
    <2>3. (CHOOSE w \in all : ok(w)) \in all
      BY <2>2
    <2>4. QED
      BY <1>2, <1>6, <2>1, <2>3
  <1>7. QED
    BY <1>2, <1>3, <1>4, <1>5, <1>6 DEF AccessTypes

(***************************************************************************)
(* One access: the bits of the field that are in its unit.                 *)
(***************************************************************************)
IsAccess(A, o, n, p, r, u, m) ==
  /\ A \in Nat \ {0} /\ o \in Nat /\ n \in Nat /\ p \in Nat /\ p < n
  /\ p = 0 \/ (o + p) % A = 0
  /\ r = (o + p) % A /\ u = (o + p) - r /\ m = Min({n - p, A - r})

InsideUnit(A, o, n, p, r, u, m) ==
  /\ r \in 0..(A - 1) /\ u \in Nat /\ u = A * ((o + p) \div A)
  /\ m \in 1..A /\ r + m <= A /\ p + m <= n
  /\ p + m < n => u + A = o + (p + m) /\ (o + (p + m)) % A = 0
  /\ p + m = n => u + A = ((((o + (p + m)) - 1) \div A) + 1) * A

LEMMA AccessStep ==
  ASSUME NEW A, NEW o, NEW n, NEW p, NEW r, NEW u, NEW m, IsAccess(A, o, n, p, r, u, m)
  PROVE  InsideUnit(A, o, n, p, r, u, m)
PROOF
  <1> DEFINE b == o + p
             q == b \div A
  <1>a. A \in Nat \ {0} /\ o \in Nat /\ n \in Nat /\ p \in Nat /\ p < n /\ m = Min({n - p, A - r})
    BY DEF IsAccess
  <1>0. r = b % A /\ u = b - r
    BY DEF IsAccess
  <1>1. b \in Nat /\ r \in 0..(A - 1) /\ q \in Nat /\ b = A * q + r
    <2>1. b \in Nat
      BY <1>a
    <2> HIDE DEF b
    <2>2. QED
      BY <1>a, <1>0, <2>1, DivMod
  <1>2. u = A * q /\ u \in Nat
    BY <1>a, <1>0, <1>1
  <1>3. m \in {n - p, A - r} /\ m <= n - p /\ m <= A - r
    <2> DEFINE S == {n - p, A - r}
    <2>1. n - p \in Int /\ A - r \in Int
      BY <1>a, <1>1
    <2>2. \E x \in S : \A y \in S : x <= y
      BY <2>1
    <2>3. QED
      BY <1>a, <2>2 DEF Min
  <1> HIDE DEF b, q
  <1>4. m \in 1..A /\ r + m <= A /\ p + m <= n
    BY <1>a, <1>1, <1>3
  <1>5. ASSUME p + m < n
        PROVE  u + A = o + (p + m) /\ (o + (p + m)) % A = 0
    <2>1. m = A - r
      BY <1>a, <1>1, <1>3, <1>5
    <2>2. u + A = o + (p + m)
      <3>1. u = b - r /\ b = o + p
        BY <1>0 DEF b
      <3>2. QED
        BY <1>a, <1>1, <2>1, <3>1
    <2>3. u + A \in Nat /\ q + 1 \in Nat /\ u + A = A * (q + 1) + 0 /\ 0 \in 0..(A - 1)
      BY <1>a, <1>1, <1>2
    <2>4. (u + A) % A = 0
      BY <1>a, <2>3, DivUnique
    <2>5. QED
      BY <2>2, <2>4
  <1>6. ASSUME p + m = n
        PROVE  u + A = ((((o + (p + m)) - 1) \div A) + 1) * A
    <2> DEFINE s == r + m - 1
    <2>1. s \in 0..(A - 1) /\ (o + (p + m)) - 1 = A * q + s /\ (o + (p + m)) - 1 \in Nat
      BY <1>a, <1>1, <1>4, <1>6 DEF b
    <2> HIDE DEF s
    <2>2. ((o + (p + m)) - 1) \div A = q
      BY <1>a, <1>1, <2>1, DivUnique
    <2>3. QED
      BY <1>a, <1>1, <1>2, <2>2
  <1>7. QED
    BY <1>1, <1>2, <1>4, <1>5, <1>6 DEF b, q, InsideUnit

LEMMA FieldFacts ==
  ASSUME RegionIInv
  PROVE  /\ regionField \in Fields /\ regionField.offset \in Nat /\ regionField.size \in Nat \ {0}
         /\ regionField.offset + regionField.size + INT <= REGION
         /\ RegionByte \in Nat \ {0} /\ INT = 4 * RegionByte /\ REGION \in Nat
         /\ AccessSize \in {RegionByte, 2 * RegionByte, 4 * RegionByte}
         /\ AccessSize \in Nat \ {0} /\ AccessSize <= INT
         /\ regionField.kind \in {"index", "buffer"} => AccessSize = RegionByte
         /\ Target \in Banks
PROOF
  <1>1. regionField \in Fields
    BY DEF RegionIInv
  <1>2. /\ regionField \in Field /\ regionField.offset + regionField.size + INT <= REGION
        /\ RegionByte \in Nat \ {0} /\ INT = 4 * RegionByte /\ REGION \in Nat /\ 0 \in Banks
    BY <1>1, LaiOpregionAssumption
  <1>3. AccessSize \in {RegionByte, 2 * RegionByte, 4 * RegionByte}
    BY <1>1, Widths DEF AccessSize
  <1>4. regionField.kind \in {"index", "buffer"} => AccessSize = RegionByte
    BY <1>1, Widths DEF AccessSize
  <1>5. AccessSize \in Nat \ {0} /\ AccessSize <= INT
    BY <1>2, <1>3
  <1>6. /\ regionField.offset \in Nat /\ regionField.size \in Nat \ {0} /\ regionField.bank \in Banks
    BY <1>2 DEF Field
  <1>7. Target \in Banks
    BY <1>2, <1>6 DEF Target
  <1>8. QED
    BY <1>1, <1>2, <1>3, <1>4, <1>5, <1>6, <1>7

(* The state of a call that is not at its end, in the terms of AccessStep. *)
LEMMA Situation ==
  ASSUME Supported, RegionIInv, regionOp \in {"read", "write"}, progress < regionField.size
  PROVE  LET o == regionField.offset
             n == regionField.size
             u == RegionByte * offset
         IN  /\ progress \in Nat /\ offset \in Nat /\ u \in Nat
             /\ BitOffset \in 0..(AccessSize - 1) /\ u + BitOffset = o + progress /\ BitOffset = (o + progress) % AccessSize
             /\ u = AccessSize * ((o + progress) \div AccessSize)
             /\ AccessBits \in 1..AccessSize /\ BitOffset + AccessBits <= AccessSize /\ progress + AccessBits <= n
             /\ progress = 0 \/ BitOffset = 0
             /\ progress + AccessBits < n => u + AccessSize = o + (progress + AccessBits) /\ (o + (progress + AccessBits)) % AccessSize = 0
             /\ progress + AccessBits = n => u + AccessSize = ((((o + (progress + AccessBits)) - 1) \div AccessSize) + 1) * AccessSize
             /\ u + AccessSize <= REGION
             /\ RegionByte * (offset + AccessSize \div RegionByte) = u + AccessSize
             /\ offset + AccessSize \div RegionByte \in Nat
             /\ regionField.kind = "bank" => sel = regionField.bank
PROOF
  <1> DEFINE o == regionField.offset
             n == regionField.size
             u == RegionByte * offset
             r == (o + progress) % AccessSize
             c == AccessSize \div RegionByte
  <1>1. /\ o \in Nat /\ n \in Nat \ {0} /\ o + n + INT <= REGION /\ RegionByte \in Nat \ {0}
        /\ AccessSize \in Nat \ {0} /\ AccessSize <= INT /\ INT \in Nat /\ REGION \in Nat
        /\ AccessSize \in {RegionByte, 2 * RegionByte, 4 * RegionByte}
    BY FieldFacts
  <1>2. progress \in 0..n /\ offset \in Nat
    BY DEF RegionIInv, RegionTypeOK
  <1>3. /\ u = (o + progress) - r /\ (progress = 0 \/ r = 0)
        /\ regionField.kind = "bank" => sel = regionField.bank
    BY DEF RegionIInv, PositionSound
  <1>4. BitOffset = r /\ AccessBits = Min({n - progress, AccessSize - r})
    BY DEF BitOffset, AccessBits
  <1> DEFINE m == Min({n - progress, AccessSize - r})
  <1>5. /\ r \in 0..(AccessSize - 1) /\ u \in Nat /\ u = AccessSize * ((o + progress) \div AccessSize)
        /\ m \in 1..AccessSize /\ r + m <= AccessSize /\ progress + m <= n
        /\ progress + m < n => u + AccessSize = o + (progress + m) /\ (o + (progress + m)) % AccessSize = 0
        /\ progress + m = n => u + AccessSize = ((((o + (progress + m)) - 1) \div AccessSize) + 1) * AccessSize
    <2>1. /\ o \in Nat /\ n \in Nat /\ AccessSize \in Nat \ {0} /\ progress \in Nat /\ progress < n
          /\ progress = 0 \/ (o + progress) % AccessSize = 0
      BY <1>1, <1>2, <1>3
    <2>2. r = (o + progress) % AccessSize /\ u = (o + progress) - r /\ m = Min({n - progress, AccessSize - r})
      BY <1>3
    <2>3. IsAccess(AccessSize, o, n, progress, r, u, m)
      BY ONLY <2>1, <2>2 DEF IsAccess
    <2> HIDE DEF o, n, r, u, m
    <2>4. InsideUnit(AccessSize, o, n, progress, r, u, m)
      BY ONLY <2>3, AccessStep
    <2>5. QED
      BY ONLY <2>4 DEF InsideUnit
  <1>6. c \in {1, 2, 4} /\ AccessSize = c * RegionByte
    <2>1. /\ RegionByte \div RegionByte = 1 /\ (2 * RegionByte) \div RegionByte = 2 /\ (4 * RegionByte) \div RegionByte = 4
      BY <1>1
    <2>2. QED
      BY <1>1, <2>1
  <1> HIDE DEF c
  <1>7. RegionByte * (offset + c) = u + AccessSize /\ offset + c \in Nat
    BY <1>1, <1>2, <1>6
  <1> HIDE DEF u, m, r, o, n
  <1>8. u + AccessSize <= REGION /\ u + r = o + progress /\ progress \in Nat
    BY <1>1, <1>2, <1>3, <1>5
  <1>9. QED
    BY <1>2, <1>3, <1>4, <1>5, <1>7, <1>8 DEF u, m, r, c, o, n

(* The bits of the field in a unit are fewer than those of an integer, so  *)
(* the shift in Mask is defined.                                           *)
LEMMA MaskIs ==
  ASSUME Supported, RegionIInv, regionOp \in {"read", "write"}, progress < regionField.size
  PROVE  Mask(AccessBits) = 0..(AccessBits - 1)
PROOF
  <1> DEFINE k == regionField.offset + progress
  <1>1. /\ regionField \in Fields /\ regionField.offset \in Nat /\ regionField.size \in Nat
        /\ INT \in Nat \ {0} /\ AccessSize \in Nat \ {0} /\ AccessSize <= INT
    BY FieldFacts
  <1>2. /\ progress \in Nat /\ BitOffset \in 0..(AccessSize - 1) /\ BitOffset = k % AccessSize
        /\ AccessBits \in 1..AccessSize /\ BitOffset + AccessBits <= AccessSize
        /\ progress + AccessBits <= regionField.size
    BY Situation
  <1>3. AccessBits < INT
    <2>1. SUFFICES ASSUME AccessBits = INT PROVE FALSE
      BY <1>1, <1>2
    <2>2. AccessSize = INT /\ BitOffset = 0
      BY <1>1, <1>2, <2>1
    <2>3. k % INT = 0 /\ k \in regionField.offset..(regionField.offset + regionField.size - INT)
      BY <1>1, <1>2, <2>1, <2>2
    <2>4. lai_calculate_access_width(regionField) = INT
      BY <2>2 DEF AccessSize
    <2> HIDE DEF k
    <2>5. QED
      BY <1>1, <2>3, <2>4 DEF Supported
  <1>4. AccessBits % INT = AccessBits
    <2>1. AccessBits \in 0..(INT - 1)
      BY <1>1, <1>2, <1>3
    <2>2. QED
      BY <1>1, <2>1, DivSmall
  <1>5. QED
    BY <1>4 DEF Mask

LEMMA FactorsOrdered ==
  ASSUME NEW a \in Nat \ {0}, NEW b \in Nat, NEW c \in Nat, a * b < a * c
  PROVE  b < c
PROOF
  <1>1. SUFFICES ASSUME NEW d \in Nat, b = c + d PROVE FALSE
    <2>1. b < c \/ (b - c \in Nat /\ b = c + (b - c))
      OBVIOUS
    <2>2. QED
      BY <2>1
  <1>2. a * b = a * c + a * d /\ a * d \in Nat /\ a * c \in Nat
    BY <1>1
  <1>3. QED
    BY <1>2

(* A unit is where the field has it, in every kind of field.               *)
LEMMA UnitIs ==
  ASSUME Supported, RegionIInv, regionOp \in {"read", "write"}, progress < regionField.size
  PROVE  /\ regionField.kind # "index" => First(offset) = RegionByte * offset /\ Handled /\ Bank = Target
         /\ regionField.kind = "index" => Selected(offset) = offset /\ AccessSize = RegionByte /\ Target = 0
         /\ regionField.kind = "bank" => Selected(offset) = regionField.bank
PROOF
  <1>1. /\ regionField \in Fields /\ regionField.offset \in Nat /\ regionField.size \in Nat
        /\ RegionByte \in Nat \ {0}
        /\ regionField.kind = "index" => AccessSize = RegionByte
    BY FieldFacts
  <1>2. /\ progress \in Nat /\ offset \in Nat /\ RegionByte * offset <= regionField.offset + progress
        /\ regionField.kind = "bank" => sel = regionField.bank
    <2>1. /\ progress \in Nat /\ offset \in Nat /\ RegionByte * offset \in Nat /\ BitOffset \in 0..(AccessSize - 1)
          /\ RegionByte * offset + BitOffset = regionField.offset + progress
          /\ regionField.kind = "bank" => sel = regionField.bank
      BY Situation
    <2> DEFINE u == RegionByte * offset
    <2> HIDE DEF u
    <2>2. u <= regionField.offset + progress
      <3>1. u \in Nat /\ BitOffset \in Nat /\ u + BitOffset = regionField.offset + progress
        BY <2>1, FieldFacts DEF u
      <3>2. QED
        BY <1>1, <2>1, <3>1
    <2>3. QED
      BY <2>1, <2>2 DEF u
  <1>3. /\ regionField.space # "cmos" /\ INDEX \in Nat \ {0}
        /\ regionField.space = "memory" => HostPage = 1
        /\ regionField.kind = "index" => regionField.offset + regionField.size <= RegionByte * INDEX
    BY <1>1, LaiOpregionAssumption DEF Supported
  <1>4. ASSUME regionField.kind # "index"
        PROVE  First(offset) = RegionByte * offset /\ Handled /\ Bank = Target
    <2>1. regionField.space = "memory" => laihost_map(offset) = offset
      BY <1>2, <1>3 DEF laihost_map
    <2>2. QED
      BY <1>2, <1>3, <2>1 DEF First, Handled, Bank, Target
  <1>5. ASSUME regionField.kind = "index"
        PROVE  Selected(offset) = offset /\ AccessSize = RegionByte /\ Target = 0
    <2>1. RegionByte * offset < RegionByte * INDEX
      <3> DEFINE u == RegionByte * offset
                 v == RegionByte * INDEX
      <3>1. u \in Nat /\ v \in Nat /\ u <= regionField.offset + progress /\ regionField.offset + regionField.size <= v
        <4>1. RegionByte \in Nat /\ offset \in Nat /\ INDEX \in Nat
          BY <1>1, <1>2, <1>3
        <4>2. u \in Nat /\ v \in Nat
          BY ONLY <4>1
        <4>3. QED
          BY <1>2, <1>3, <1>5, <4>2
      <3> HIDE DEF u, v
      <3>2. u < v
        BY <1>1, <1>2, <3>1
      <3>3. QED
        BY <3>2 DEF u, v
    <2>2. offset < INDEX
      <3>1. RegionByte \in Nat \ {0} /\ offset \in Nat /\ INDEX \in Nat
        BY <1>1, <1>2, <1>3
      <3>2. QED
        BY ONLY <2>1, <3>1, FactorsOrdered
    <2>3. offset \in 0..(INDEX - 1)
      BY <1>2, <1>3, <2>2
    <2>4. offset % INDEX = offset
      BY <1>3, <2>3, DivSmall
    <2>5. QED
      BY <1>1, <1>5, <2>4 DEF Selected, Target
  <1>6. QED
    BY <1>2, <1>4, <1>5 DEF Selected

LEMMA ReadUnitIs ==
  ASSUME Supported, RegionIInv, regionOp \in {"read", "write"}, progress < regionField.size, NEW x
  PROVE  x \in ReadUnit(offset, AccessSize) <=> x \in 0..(AccessSize - 1) /\ x + RegionByte * offset \in files[Target]
PROOF
  <1> DEFINE u == RegionByte * offset
  <1>1. u \in Nat /\ AccessSize \in Nat
    BY Situation, FieldFacts
  <1>2. files[Target] \subseteq Nat
    BY FieldFacts DEF RegionIInv, RegionTypeOK
  <1>3. ReadUnit(offset, AccessSize) = Shr(files[Target], u) \cap 0..(AccessSize - 1)
    <2>1. CASE regionField.kind = "index"
      BY <2>1, UnitIs DEF ReadUnit
    <2>2. CASE regionField.kind # "index"
      BY <2>2, UnitIs DEF ReadUnit, lai_perform_read
    <2>3. QED
      BY <2>1, <2>2
  <1> HIDE DEF u
  <1>4. x \in Shr(files[Target], u) <=> x \in Nat /\ x + u \in files[Target]
    BY <1>1, <1>2, ShrIs
  <1>5. QED
    BY <1>1, <1>3, <1>4 DEF u

LEMMA WriteUnitIs ==
  ASSUME Supported, RegionIInv, regionOp \in {"read", "write"}, progress < regionField.size, NEW value
  PROVE  WriteUnit(offset, AccessSize, value) =
           [files EXCEPT ![Target] = (@ \ ((RegionByte * offset)..(RegionByte * offset + AccessSize - 1)))
                                       \cup Shl(value \cap 0..(AccessSize - 1), RegionByte * offset)]
PROOF
  <1>1. CASE regionField.kind = "index"
    BY <1>1, UnitIs DEF WriteUnit
  <1>2. CASE regionField.kind # "index"
    BY <1>2, UnitIs DEF WriteUnit, lai_perform_write
  <1>3. QED
    BY <1>1, <1>2

(***************************************************************************)
(* What every access does: it moves to the next unit.                      *)
(***************************************************************************)
LEMMA PositionNext ==
  ASSUME Supported, RegionIInv, regionOp \in {"read", "write"}, progress < regionField.size,
         progress' = progress + AccessBits, offset' = offset + AccessSize \div RegionByte,
         regionField' = regionField, regionField.kind = "bank" => sel' = regionField.bank
  PROVE  /\ PositionSound' /\ progress' \in 0..regionField.size /\ offset' \in Nat
         /\ RegionByte * offset' <= REGION /\ RegionByte * offset' = RegionByte * offset + AccessSize
PROOF
  <1> DEFINE o == regionField.offset
             n == regionField.size
             u == RegionByte * offset
             A == AccessSize
             m == AccessBits
  <1>1. /\ progress \in Nat /\ u \in Nat /\ o \in Nat /\ n \in Nat /\ A \in Nat \ {0}
        /\ m \in 1..A /\ progress + m <= n
        /\ progress + m < n => u + A = o + (progress + m) /\ (o + (progress + m)) % A = 0
        /\ progress + m = n => u + A = ((((o + (progress + m)) - 1) \div A) + 1) * A
        /\ u + A <= REGION
        /\ RegionByte * (offset + A \div RegionByte) = u + A
        /\ offset + A \div RegionByte \in Nat
    BY Situation, FieldFacts
  <1>2. A' = A /\ regionField' = regionField
    BY DEF AccessSize
  <1>3. RegionByte * offset' = u + A /\ offset' \in Nat /\ progress' = progress + m
    BY <1>1
  <1>4. PositionSound'
    <2>1. CASE progress + m < n
      <3>1. progress' < n /\ (o + progress') % A = 0 /\ RegionByte * offset' = (o + progress') - ((o + progress') % A)
        <4> HIDE DEF o, n, u, A, m
        <4>1. u + A = o + progress' /\ (o + progress') % A = 0 /\ progress' < n
          BY <1>1, <1>3, <2>1
        <4>2. o + progress' \in Nat
          BY <1>1, <1>3
        <4>3. QED
          BY <1>3, <4>1, <4>2
      <3>2. QED
        BY <1>2, <3>1 DEF PositionSound
    <2>2. CASE progress + m = n
      <3>1. ~(progress' < n) /\ RegionByte * offset' = ((((o + progress') - 1) \div A) + 1) * A
        <4> HIDE DEF o, n, u, A, m
        <4>1. QED
          BY <1>1, <1>3, <2>2
      <3>2. /\ regionField'.kind = "bank" => sel' = regionField'.bank
            /\ ~(progress' < regionField'.size)
            /\ RegionByte * offset' = ((((regionField'.offset + progress') - 1) \div AccessSize') + 1) * AccessSize'
        BY ONLY <1>2, <3>1, regionField.kind = "bank" => sel' = regionField.bank
      <3>3. QED
        BY ONLY <3>2 DEF PositionSound
    <2>3. QED
      <3> HIDE DEF o, n, u, A, m
      <3>1. QED
        BY <1>1, <2>1, <2>2
  <1>5. progress' \in 0..n
    <2> HIDE DEF o, n, u, A, m
    <2>1. QED
      BY <1>1, <1>3
  <1>6. QED
    BY <1>1, <1>3, <1>4, <1>5

(* A read that adds the field's bits of the unit.                          *)
LEMMA ReadKeeps ==
  ASSUME Supported, RegionIInv, regionOp = "read", progress < regionField.size,
         progress' = progress + AccessBits, UNCHANGED <<regionField, files, before>>,
         \A x : x \in buffer' <=> \/ x \in buffer
                                  \/ x \in progress..(progress + AccessBits - 1) /\ x + regionField.offset \in files[Target]
  PROVE  ReadSoFar' /\ buffer' \subseteq 0..(regionField.size - 1)
PROOF
  <1> DEFINE o == regionField.offset
             n == regionField.size
             m == AccessBits
             p == progress
             T == before[Target]
             have(k) == T \cap (o..(o + k - 1))
  <1>1. p \in Nat /\ o \in Nat /\ n \in Nat /\ m \in Nat /\ p + m <= n
    <2>1. AccessBits \in 1..AccessSize /\ AccessSize \in Nat
      BY Situation, FieldFacts
    <2>2. AccessBits \in Nat
      BY <2>1
    <2>3. progress \in Nat /\ progress + AccessBits <= regionField.size
      BY Situation
    <2>4. QED
      BY <2>2, <2>3, FieldFacts
  <1>2. files = before /\ buffer = Shr(have(p), o)
    BY DEF RegionIInv, ReadSoFar
  <1>3. T \subseteq Nat
    BY FieldFacts DEF RegionIInv
  <1>4. Target' = Target
    BY DEF Target
  <1> HIDE DEF o, n, m, p, T
  <1>5. \A x : x \in buffer' <=> x \in buffer \/ (x \in p..(p + m - 1) /\ x + o \in T)
    BY <1>2 DEF o, m, p, T
  <1>6. \A k \in Nat : have(k) \subseteq Nat /\ \A x : x \in Shr(have(k), o) <=> x \in Nat /\ x + o \in have(k)
    <2> TAKE k \in Nat
    <2>1. have(k) \subseteq Nat
      BY <1>3
    <2> HIDE DEF have
    <2>2. QED
      BY <1>1, <2>1, ShrIs
  <1>7. \A k \in Nat : \A x : x \in Shr(have(k), o) <=> x \in 0..(k - 1) /\ x + o \in T
    <2> TAKE k \in Nat
    <2> TAKE x
    <2>1. x \in Shr(have(k), o) <=> x \in Nat /\ x + o \in have(k)
      BY <1>6
    <2>2. ASSUME x \in Nat PROVE x + o \in o..(o + k - 1) <=> x \in 0..(k - 1)
      BY <1>1, <2>2
    <2>3. QED
      BY <2>1, <2>2
  <1> HIDE DEF have
  <1>8. ASSUME NEW x PROVE x \in buffer' <=> x \in Shr(have(p + m), o)
    <2>1. x \in buffer <=> x \in 0..(p - 1) /\ x + o \in T
      BY <1>1, <1>2, <1>7
    <2>2. x \in Shr(have(p + m), o) <=> x \in 0..((p + m) - 1) /\ x + o \in T
      <3> DEFINE k == p + m
      <3>1. k \in Nat
        BY <1>1
      <3> HIDE DEF k
      <3>2. x \in Shr(have(k), o) <=> x \in 0..(k - 1) /\ x + o \in T
        BY <1>7, <3>1
      <3>3. QED
        BY <3>2 DEF k
    <2>4. x \in 0..((p + m) - 1) <=> x \in 0..(p - 1) \/ x \in p..(p + m - 1)
      BY <1>1
    <2>5. QED
      BY <1>5, <2>1, <2>2, <2>4
  <1>9. buffer' = Shr(have(p + m), o)
    BY <1>8
  <1>10. ReadSoFar'
    <2>1. buffer' = Shr(before[Target] \cap (regionField.offset..(regionField.offset + progress' - 1)), regionField.offset)
      BY <1>9 DEF have, p, m, T, o
    <2>2. QED
      BY <1>2, <1>4, <2>1 DEF ReadSoFar
  <1>11. buffer' \subseteq 0..(n - 1)
    <2> DEFINE k == p + m
    <2>1. k \in Nat /\ k <= n
      BY <1>1
    <2> HIDE DEF k
    <2>2. ASSUME NEW x \in buffer' PROVE x \in 0..(n - 1)
      <3>1. x \in 0..(k - 1)
        <4>1. x \in Shr(have(k), o)
          BY <1>9, <2>2 DEF k
        <4>2. QED
          BY <1>7, <2>1, <4>1
      <3>2. QED
        BY <1>1, <2>1, <3>1
    <2>3. QED
      BY <2>2
  <1>12. QED
    BY <1>10, <1>11 DEF n

(* A write that puts the source into the field's bits of the unit, and     *)
(* the update rule around them.                                            *)
LEMMA WriteKeeps ==
  ASSUME Supported, RegionIInv, regionOp = "write", progress < regionField.size,
         progress' = progress + AccessBits, RegionByte * offset' = RegionByte * offset + AccessSize,
         UNCHANGED <<regionField, source, before>>,
         \A b \in Banks \ {Target} : files'[b] = files[b],
         \A x \in 0..(REGION - 1) :
           x \in files'[Target] <=>
             IF x \in (regionField.offset + progress)..(regionField.offset + progress + AccessBits - 1)
             THEN x - regionField.offset \in source.bits
             ELSE IF x \in (RegionByte * offset)..(RegionByte * offset + AccessSize - 1) /\ regionField.rule # "preserve"
             THEN regionField.rule = "ones"
             ELSE x \in files[Target]
  PROVE  WrittenSoFar'
PROOF
  <1> DEFINE o == regionField.offset
             n == regionField.size
             m == AccessBits
             p == progress
             A == AccessSize
             r == BitOffset
             u == RegionByte * offset
             first == o - (o % A)
  <1>1. /\ p \in Nat /\ o \in Nat /\ n \in Nat /\ A \in Nat \ {0} /\ m \in 1..A /\ p + m <= n /\ u \in Nat
        /\ r \in 0..(A - 1) /\ r = (o + p) % A /\ u + r = o + p /\ (p = 0 \/ r = 0) /\ r + m <= A
        /\ p + m < n => u + A = o + (p + m)
    BY Situation, FieldFacts
  <1>2. /\ source \in Sources
        /\ \A b \in Banks \ {Target} : files[b] = before[b]
        /\ \A x \in 0..(REGION - 1) :
             (x \in files[Target]) =
               IF x \in o..(o + p - 1) THEN x - o \in source.bits
               ELSE IF x \in first..(u - 1) THEN ByRule(x)
               ELSE x \in before[Target]
    BY DEF RegionIInv, WrittenSoFar
  <1>3. Target' = Target /\ AccessSize' = AccessSize /\ \A x : ByRule(x)' = ByRule(x)
    BY DEF Target, AccessSize, ByRule
  <1>4. first \in Nat /\ first <= o /\ (p = 0 => u = first)
    <2>1. o % A \in 0..(A - 1) /\ o - (o % A) \in Nat
      <3> HIDE DEF o, A
      <3>1. /\ o \div A \in Nat /\ o % A \in 0..(A - 1) /\ o = A * (o \div A) + (o % A)
        BY <1>1, DivMod
      <3> DEFINE q == A * (o \div A)
                 s == o % A
      <3>2. q \in Nat /\ s \in 0..(A - 1) /\ o = q + s
        BY <1>1, <3>1
      <3> HIDE DEF q, s
      <3>3. s \in 0..(A - 1) /\ o - s \in Nat
        BY <1>1, <3>2
      <3>4. QED
        BY <3>3 DEF s
    <2> HIDE DEF o, A, r, u, p
    <2>2. p = 0 => r = o % A
      <3>1. o + 0 = o
        BY <1>1
      <3>2. QED
        BY <1>1, <3>1
    <2>3. QED
      BY <1>1, <2>1, <2>2
  <1> HIDE DEF o, n, m, p, A, r, u, first
  <1>5. ASSUME NEW x \in 0..(REGION - 1)
        PROVE  (x \in files'[Target]) =
                 IF x \in o..(o + (p + m) - 1) THEN x - o \in source.bits
                 ELSE IF x \in first..((u + A) - 1) THEN ByRule(x)
                 ELSE x \in before[Target]
    <2>1. x \in files'[Target] <=>
             IF x \in (o + p)..(o + p + m - 1) THEN x - o \in source.bits
             ELSE IF x \in u..(u + A - 1) /\ regionField.rule # "preserve" THEN regionField.rule = "ones"
             ELSE x \in files[Target]
      BY DEF o, p, m, u, A
    <2>2. (x \in files[Target]) =
               IF x \in o..(o + p - 1) THEN x - o \in source.bits
               ELSE IF x \in first..(u - 1) THEN ByRule(x)
               ELSE x \in before[Target]
      BY <1>2
    <2>3. ByRule(x) = IF regionField.rule = "preserve" THEN x \in before[Target] ELSE regionField.rule = "ones"
      BY DEF ByRule
    <2>4. CASE x \in (o + p)..(o + p + m - 1)
      <3>1. x \in o..(o + (p + m) - 1)
        BY <1>1, <2>4
      <3>2. QED
        BY <2>1, <2>4, <3>1
    <2>5. CASE x \in o..(o + p - 1)
      <3>1. x \in o..(o + (p + m) - 1) /\ x \notin (o + p)..(o + p + m - 1) /\ x \notin u..(u + A - 1)
        BY <1>1, <2>5
      <3>2. QED
        BY <2>1, <2>2, <2>5, <3>1
    <2>6. CASE x \notin o..(o + (p + m) - 1)
      <3>1. x \notin o..(o + p - 1) /\ x \notin (o + p)..(o + p + m - 1)
        BY <1>1, <2>6
      <3>2. CASE x \in u..(u + A - 1)
        <4>1. x \in first..((u + A) - 1) /\ x \notin first..(u - 1)
          BY <1>1, <1>4, <3>2
        <4>2. QED
          BY <2>1, <2>2, <2>3, <2>6, <3>1, <3>2, <4>1
      <3>3. CASE x \notin u..(u + A - 1)
        <4>1. x \in first..((u + A) - 1) <=> x \in first..(u - 1)
          BY <1>1, <1>4, <3>3
        <4>2. QED
          BY <2>1, <2>2, <2>6, <3>1, <3>3, <4>1
      <3>4. QED
        BY <3>2, <3>3
    <2>7. x \in o..(o + (p + m) - 1) => x \in o..(o + p - 1) \/ x \in (o + p)..(o + p + m - 1)
      BY <1>1
    <2>8. QED
      BY <2>4, <2>5, <2>6, <2>7
  <1>6. /\ \A b \in Banks \ {Target'} : files'[b] = before'[b]
        /\ source' \in Sources
    BY <1>2, <1>3
  <1>7. \A x \in 0..(REGION - 1) :
           (x \in files'[Target']) =
             IF x \in regionField'.offset..(regionField'.offset + progress' - 1) THEN x - regionField'.offset \in source'.bits
             ELSE IF x \in (regionField'.offset - (regionField'.offset % AccessSize'))..(RegionByte * offset' - 1) THEN ByRule(x)'
             ELSE x \in before'[Target']
    BY <1>3, <1>5 DEF o, p, m, u, A, first
  <1>8. QED
    BY <1>6, <1>7 DEF WrittenSoFar

(***************************************************************************)
(* One lemma per action.                                                   *)
(***************************************************************************)
LEMMA RegionInitSound == RegionInit => RegionIInv
PROOF
  <1> SUFFICES ASSUME RegionInit PROVE RegionIInv
    OBVIOUS
  <1>1. regionField \in Fields /\ regionField \in Field /\ REGION \in Nat /\ RegionByte \in Nat
    BY LaiOpregionAssumption DEF RegionInit
  <1>2. files \in [Banks -> SUBSET (0..(REGION - 1))]
    <2>1. PICK c \in Contents : files = [b \in Banks |-> IF b = 0 THEN c ELSE (0..(REGION - 1)) \ c]
      BY DEF RegionInit
    <2>2. c \subseteq 0..(REGION - 1)
      BY LaiOpregionAssumption
    <2>3. QED
      BY <2>1, <2>2
  <1>3. /\ regionOp = "idle" /\ progress = 0 /\ offset = 0 /\ buffer = {} /\ before = files
    BY DEF RegionInit
  <1>4. regionField.size \in Nat
    BY <1>1 DEF Field
  <1>5. RegionTypeOK
    BY <1>1, <1>2, <1>3, <1>4 DEF RegionTypeOK
  <1>6. PositionSound /\ ReadSoFar /\ WrittenSoFar
    BY <1>3 DEF PositionSound, ReadSoFar, WrittenSoFar
  <1>7. QED
    BY <1>1, <1>2, <1>3, <1>5, <1>6 DEF RegionIInv

LEMMA BeginSound ==
  ASSUME RegionIInv, NEW kind \in {"read", "write"}, NEW s, kind = "write" => s \in Sources, Begin(kind, s)
  PROVE  RegionIInv'
PROOF
  <1> DEFINE o == regionField.offset
             n == regionField.size
             A == AccessSize
             first == o - (o % A)
  <1>1. /\ regionField \in Fields /\ o \in Nat /\ n \in Nat \ {0} /\ RegionByte \in Nat \ {0} /\ REGION \in Nat
        /\ A \in {RegionByte, 2 * RegionByte, 4 * RegionByte} /\ A \in Nat \ {0} /\ o + n + INT <= REGION /\ INT \in Nat
    BY FieldFacts
  <1>2. /\ regionOp' = kind /\ source' = s /\ buffer' = {} /\ before' = files /\ progress' = 0
        /\ offset' = first \div RegionByte
        /\ sel' = IF regionField.kind = "bank" THEN regionField.bank ELSE sel
        /\ regionField' = regionField /\ files' = files
    BY DEF Begin
  <1>3. files \in [Banks -> SUBSET (0..(REGION - 1))] /\ regionField \in Field
    BY DEF RegionIInv, RegionTypeOK
  <1>4. AccessSize' = AccessSize /\ Target' = Target
    BY <1>2 DEF AccessSize, Target
  <1>5. offset' \in Nat /\ RegionByte * offset' = first /\ first \in Nat /\ first <= o
    <2> DEFINE q == o \div A
               r == o % A
    <2> HIDE DEF o, A
    <2>1. q \in Nat /\ r \in 0..(A - 1) /\ o = A * q + r
      BY <1>1, DivMod
    <2> HIDE DEF q, r
    <2>2. first = A * q /\ first \in Nat /\ first <= o
      <3>1. first = o - r
        BY DEF r
      <3> HIDE DEF first
      <3> DEFINE v == A * q
      <3>2. v \in Nat /\ o = v + r
        BY <1>1, <2>1
      <3> HIDE DEF v
      <3>3. first = v /\ first \in Nat /\ first <= o
        BY <1>1, <2>1, <3>1, <3>2
      <3>4. QED
        BY <3>3 DEF v
    <2>3. \E d \in Nat : first = RegionByte * d + 0
      <3>1. q \in Nat /\ 2 * q \in Nat /\ 4 * q \in Nat
        BY <2>1
      <3>2. CASE A = RegionByte
        <4>1. first = RegionByte * q + 0
          BY <1>1, <2>1, <2>2, <3>2
        <4>2. QED
          BY <3>1, <4>1
      <3>3. CASE A = 2 * RegionByte
        <4>1. first = RegionByte * (2 * q) + 0
          BY <1>1, <2>1, <2>2, <3>3
        <4>2. QED
          BY <3>1, <4>1
      <3>4. CASE A = 4 * RegionByte
        <4>1. first = RegionByte * (4 * q) + 0
          BY <1>1, <2>1, <2>2, <3>4
        <4>2. QED
          BY <3>1, <4>1
      <3>5. QED
        BY <1>1, <3>2, <3>3, <3>4
    <2> HIDE DEF first
    <2>4. PICK d \in Nat : first = RegionByte * d + 0
      BY <2>3
    <2>5. first \div RegionByte = d
      <3>1. first \in Nat /\ 0 \in 0..(RegionByte - 1)
        BY <1>1, <2>2
      <3>2. QED
        BY <1>1, <2>4, <3>1, DivUnique
    <2>6. QED
      BY <1>1, <1>2, <2>2, <2>4, <2>5
  <1>6. RegionTypeOK'
    <2>1. RegionByte * offset' <= REGION
      <3> HIDE DEF first, o, n, A
      <3>1. first <= REGION
        <4>1. o \in Nat /\ n \in Nat /\ INT \in Nat /\ REGION \in Nat /\ o + n + INT <= REGION /\ first \in Nat /\ first <= o
          BY <1>1, <1>5
        <4>2. QED
          BY ONLY <4>1
      <3>2. QED
        BY <1>5, <3>1
    <2>2. QED
      BY <1>1, <1>2, <1>3, <2>1 DEF RegionTypeOK
  <1>7. PositionSound'
    <2>1. o + 0 = o
      BY <1>1
    <2>2. /\ progress' < regionField'.size /\ progress' = 0
          /\ RegionByte * offset' = (regionField'.offset + progress') - ((regionField'.offset + progress') % AccessSize')
          /\ regionField'.kind = "bank" => sel' = regionField'.bank
      BY <1>1, <1>2, <1>4, <1>5, <2>1
    <2>3. QED
      BY ONLY <2>2 DEF PositionSound
  <1>8. ReadSoFar'
    <2>1. o..(o + 0 - 1) = {}
      BY <1>1
    <2>2. Shr(files[Target] \cap (o..(o + 0 - 1)), o) = {}
      BY <2>1 DEF Shr
    <2>3. QED
      BY <1>2, <1>4, <2>2 DEF ReadSoFar
  <1>9. WrittenSoFar'
    <2>1. \A x \in 0..(REGION - 1) : x \notin o..(o + 0 - 1) /\ x \notin first..(RegionByte * offset' - 1)
      <3> HIDE DEF first, o, n, A
      <3>1. o \in Nat /\ first \in Nat
        BY <1>1, <1>5
      <3>2. \A x \in 0..(REGION - 1) : x \notin o..(o + 0 - 1) /\ x \notin first..(first - 1)
        BY ONLY <3>1, LaiOpregionAssumption
      <3>3. QED
        BY <1>5, <3>2
    <2>2. \A x \in 0..(REGION - 1) :
            x \notin regionField'.offset..(regionField'.offset + progress' - 1)
            /\ x \notin (regionField'.offset - (regionField'.offset % AccessSize'))..(RegionByte * offset' - 1)
      BY <1>2, <1>4, <2>1
    <2>3. QED
      BY <1>2, <1>4, <2>2 DEF WrittenSoFar
  <1>10. QED
    BY <1>1, <1>2, <1>3, <1>5, <1>6, <1>7, <1>8, <1>9 DEF RegionIInv

(* The parts of the invariant that an access has to keep.                  *)
LEMMA AccessSound ==
  ASSUME Supported, RegionIInv, regionOp \in {"read", "write"}, progress < regionField.size,
         progress' = progress + AccessBits, offset' = offset + AccessSize \div RegionByte,
         UNCHANGED <<regionField, regionOp, before>>, regionField.kind = "bank" => sel' = regionField.bank,
         files' \in [Banks -> SUBSET (0..(REGION - 1))], buffer' \subseteq 0..(regionField.size - 1),
         ReadSoFar', WrittenSoFar'
  PROVE  RegionIInv'
PROOF
  <1>1. /\ PositionSound' /\ progress' \in 0..regionField.size /\ offset' \in Nat
        /\ RegionByte * offset' <= REGION
    BY PositionNext
  <1>2. RegionTypeOK'
    BY <1>1 DEF RegionIInv, RegionTypeOK
  <1>3. QED
    BY <1>1, <1>2 DEF RegionIInv

LEMMA ReadFieldSound ==
  ASSUME Supported, RegionIInv, lai_read_field_internal
  PROVE  RegionIInv'
PROOF
  <1> DEFINE u == RegionByte * offset
             r == BitOffset
             m == AccessBits
             p == progress
             o == regionField.offset
             value == Shr(ReadUnit(offset, AccessSize), r) \cap Mask(m)
  <1>1. /\ regionField.kind # "buffer" /\ regionOp = "read" /\ progress < regionField.size
        /\ buffer' = buffer \cup Shl(value \cap 0..(m - 1), p) /\ sel' = Selected(offset)
        /\ progress' = p + m /\ offset' = offset + AccessSize \div RegionByte
        /\ UNCHANGED <<regionField, files, regionOp, source, before>>
    BY DEF lai_read_field_internal, lai_buffer_put_at
  <1>2. /\ u \in Nat /\ p \in Nat /\ r \in 0..(AccessSize - 1) /\ u + r = o + p /\ m \in 1..AccessSize /\ r + m <= AccessSize
        /\ AccessSize \in Nat /\ o \in Nat
    BY <1>1, Situation, FieldFacts
  <1>3. Mask(m) = 0..(m - 1)
    BY <1>1, MaskIs
  <1>4. \A x : x \in ReadUnit(offset, AccessSize) <=> x \in 0..(AccessSize - 1) /\ x + u \in files[Target]
    BY <1>1, ReadUnitIs
  <1>5. regionField.kind = "bank" => sel' = regionField.bank
    BY <1>1, UnitIs
  <1> DEFINE unit == ReadUnit(offset, AccessSize)
  <1>6. r \in Nat /\ m \in Nat /\ unit \subseteq Nat
    BY <1>2, <1>4
  <1> HIDE DEF u, r, m, p, o, unit
  <1>7. \A x : x \in Shr(unit, r) <=> x \in Nat /\ x + r \in unit
    BY <1>6, ShrIs
  <1> DEFINE low == value \cap 0..(m - 1)
  <1>8. \A x : x \in low <=> x \in 0..(m - 1) /\ x + r \in unit
    <2>1. low = Shr(unit, r) \cap 0..(m - 1)
      BY <1>3 DEF unit
    <2>2. \A x \in 0..(m - 1) : x \in Nat
      BY <1>6
    <2> HIDE DEF low
    <2>3. QED
      BY <1>7, <2>1, <2>2
  <1>9. low \subseteq Nat
    BY <1>6, <1>8
  <1>10. buffer' = buffer \cup Shl(low, p)
    BY <1>1
  <1> HIDE DEF low, value
  <1>11. \A x : x \in Shl(low, p) <=> x \in Nat /\ x - p \in low
    BY <1>2, <1>9, ShlIs
  <1>12. ASSUME NEW x
         PROVE  x \in buffer' <=> x \in buffer \/ (x \in p..(p + m - 1) /\ x + o \in files[Target])
    <2>1. x \in buffer' <=> x \in buffer \/ (x \in Nat /\ x - p \in low)
      BY <1>10, <1>11
    <2>2. ASSUME x \in Nat
          PROVE  x - p \in low <=> x \in p..(p + m - 1) /\ x + o \in files[Target]
      <3>1. x - p \in 0..(m - 1) <=> x \in p..(p + m - 1)
        BY <1>2, <1>6, <2>2
      <3>2. ASSUME x - p \in 0..(m - 1)
            PROVE  (x - p) + r \in unit <=> x + o \in files[Target]
        <4>1. (x - p) + r \in 0..(AccessSize - 1)
          BY <1>2, <1>6, <3>2
        <4>2. ((x - p) + r) + u = x + o
          BY <1>2, <1>6, <2>2
        <4>3. QED
          BY <1>4, <4>1, <4>2 DEF unit
      <3>3. QED
        BY <1>8, <3>1, <3>2
    <2>3. x \in p..(p + m - 1) => x \in Nat
      BY <1>2, <1>6
    <2>4. QED
      BY <2>1, <2>2, <2>3
  <1>13. ReadSoFar' /\ buffer' \subseteq 0..(regionField.size - 1)
    BY <1>1, <1>12, ReadKeeps DEF p, m, o
  <1>14. WrittenSoFar'
    BY <1>1 DEF WrittenSoFar
  <1>15. files' \in [Banks -> SUBSET (0..(REGION - 1))]
    BY <1>1 DEF RegionIInv, RegionTypeOK
  <1>16. QED
    BY <1>1, <1>5, <1>13, <1>14, <1>15, AccessSound DEF p, m

(* The value a write gives a unit: the bits of the source inside the       *)
(* field, the update rule around it.                                       *)
LEMMA AroundIs ==
  ASSUME Supported, RegionIInv, regionOp = "write", progress < regionField.size, NEW x \in 0..(AccessSize - 1)
  PROVE  x \in Around <=>
           IF regionField.rule = "preserve" THEN x + RegionByte * offset \in files[Target] ELSE regionField.rule = "ones"
PROOF
  <1>1. regionField.rule \in Rules
    BY FieldFacts, LaiOpregionAssumption DEF Field
  <1>2. CASE regionField.rule = "preserve"
    <2>1. Around = ReadUnit(offset, AccessSize)
      BY <1>2, Zenon DEF Around
    <2>2. QED
      BY <1>2, <2>1, ReadUnitIs
  <1>3. CASE regionField.rule = "ones"
    <2>1. Around = 0..(INT - 1)
      BY <1>3, Zenon DEF Around
    <2>2. x \in 0..(INT - 1)
      BY FieldFacts
    <2>3. QED
      BY <1>3, <2>1, <2>2
  <1>4. CASE regionField.rule = "zeroes"
    <2>1. Around = {}
      BY <1>4, Zenon DEF Around
    <2>2. QED
      BY <1>4, <2>1
  <1>5. QED
    BY <1>1, <1>2, <1>3, <1>4 DEF Rules

LEMMA SourceFacts ==
  ASSUME Supported, RegionIInv, regionOp = "write"
  PROVE  /\ source.len \in Nat /\ source.bits \subseteq Nat
         /\ \A past \in SUBSET (source.len..(regionField.size - 1)) : past = {}
PROOF
  <1>1. source \in Sources /\ regionField \in Fields /\ regionField.size \in Nat
    BY FieldFacts DEF RegionIInv, WrittenSoFar
  <1>2. source.len \in Nat /\ regionField.size <= source.len /\ source.bits \subseteq 0..(source.len - 1)
    BY <1>1, LaiOpregionAssumption DEF Supported
  <1>3. source.len..(regionField.size - 1) = {}
    BY <1>1, <1>2
  <1>4. QED
    BY <1>2, <1>3

LEMMA WriteFieldSound ==
  ASSUME Supported, RegionIInv, lai_write_field_internal
  PROVE  RegionIInv'
PROOF
  <1> DEFINE u == RegionByte * offset
             r == BitOffset
             m == AccessBits
             p == progress
             o == regionField.offset
             A == AccessSize
             mask == Shl(Mask(m), r)
             new == Shl(lai_buffer_get_at(source.bits, p, m), r)
             value == (Around \ mask) \cup (new \cap mask)
  <1>1. /\ regionField.kind # "buffer" /\ regionOp = "write" /\ progress < regionField.size
        /\ sel' = Selected(offset)
        /\ progress' = p + m /\ offset' = offset + A \div RegionByte
        /\ UNCHANGED <<regionField, regionOp, source, buffer, before>>
    BY DEF lai_write_field_internal
  <1>2. source.bits \subseteq Nat /\ files' = WriteUnit(offset, A, value)
    <2>1. PICK past \in SUBSET (source.len..(regionField.size - 1)) :
            files' = WriteUnit(offset, A, (Around \ mask) \cup (Shl(lai_buffer_get_at(source.bits \cup past, p, m), r) \cap mask))
      BY DEF lai_write_field_internal
    <2>2. past = {} /\ source.bits \subseteq Nat
      BY <1>1, SourceFacts
    <2>3. source.bits \cup past = source.bits
      BY <2>2
    <2>4. QED
      BY <2>1, <2>2, <2>3
  <1>3. /\ u \in Nat /\ p \in Nat /\ r \in 0..(A - 1) /\ u + r = o + p /\ m \in 1..A /\ r + m <= A
        /\ A \in Nat /\ o \in Nat /\ u + A <= REGION /\ REGION \in Nat /\ Target \in Banks
    BY <1>1, Situation, FieldFacts
  <1>4. RegionByte * offset' = u + A
    <2>1. regionField.kind = "bank" => sel' = regionField.bank
      BY <1>1, UnitIs
    <2>2. QED
      BY <1>1, <2>1, PositionNext
  <1>5. files' = [files EXCEPT ![Target] = (@ \ (u..(u + A - 1))) \cup Shl(value \cap 0..(A - 1), u)]
    BY <1>1, <1>2, WriteUnitIs
  <1>6. files \in [Banks -> SUBSET (0..(REGION - 1))]
    BY DEF RegionIInv, RegionTypeOK
  <1>7. \A x \in 0..(A - 1) :
          x \in Around <=> IF regionField.rule = "preserve" THEN x + u \in files[Target] ELSE regionField.rule = "ones"
    BY <1>1, AroundIs
  <1>8. Mask(m) = 0..(m - 1)
    BY <1>1, MaskIs
  <1>9. r \in Nat /\ m \in Nat
    BY <1>3
  <1> HIDE DEF u, r, m, p, o, A
  <1>10. \A x : x \in mask <=> x \in r..(r + m - 1)
    <2>1. 0..(m - 1) \subseteq Nat
      BY <1>9
    <2>2. \A x : x \in Shl(0..(m - 1), r) <=> x \in Nat /\ x - r \in 0..(m - 1)
      BY <1>9, <2>1, ShlIs
    <2>3. \A x : x \in Nat /\ x - r \in 0..(m - 1) <=> x \in r..(r + m - 1)
      BY <1>9
    <2>4. QED
      BY <1>8, <2>2, <2>3
  <1> DEFINE get == lai_buffer_get_at(source.bits, p, m)
  <1>11. get \subseteq Nat /\ \A x \in 0..(m - 1) : x \in get <=> x + p \in source.bits
    <2>1. \A x : x \in Shr(source.bits, p) <=> x \in Nat /\ x + p \in source.bits
      BY <1>2, <1>3, ShrIs
    <2>2. \A x \in 0..(m - 1) : x \in Nat
      BY <1>9
    <2>3. QED
      BY <2>1, <2>2 DEF lai_buffer_get_at
  <1> HIDE DEF get, mask
  <1>12. \A x : x \in new <=> x \in Nat /\ x - r \in get
    <2>1. new = Shl(get, r)
      BY DEF get
    <2>2. QED
      BY <1>9, <1>11, <2>1, ShlIs
  <1> HIDE DEF new
  <1>13. ASSUME NEW x \in 0..(A - 1)
         PROVE  x \in value <=> IF x \in r..(r + m - 1) THEN (x - r) + p \in source.bits ELSE x \in Around
    <2>1. x \in value <=> IF x \in r..(r + m - 1) THEN x \in new ELSE x \in Around
      BY <1>10
    <2>2. ASSUME x \in r..(r + m - 1) PROVE x \in new <=> (x - r) + p \in source.bits
      <3>1. x \in Nat /\ x - r \in 0..(m - 1)
        BY <1>3, <1>9, <2>2
      <3>2. QED
        BY <1>11, <1>12, <3>1
    <2>3. QED
      BY <2>1, <2>2
  <1> HIDE DEF value
  <1> DEFINE unit == value \cap 0..(A - 1)
             T == files[Target]
  <1>14. files'[Target] = (T \ (u..(u + A - 1))) \cup Shl(unit, u) /\ \A b \in Banks \ {Target} : files'[b] = files[b]
    BY <1>3, <1>5, <1>6
  <1>15. \A x : x \in Shl(unit, u) <=> x \in u..(u + A - 1) /\ x - u \in value
    <2>1. unit \subseteq Nat
      BY <1>3
    <2> HIDE DEF unit
    <2>2. \A x : x \in Shl(unit, u) <=> x \in Nat /\ x - u \in unit
      BY <1>3, <2>1, ShlIs
    <2>3. \A x : x \in Nat /\ x - u \in 0..(A - 1) <=> x \in u..(u + A - 1)
      BY <1>3
    <2>4. QED
      BY <2>2, <2>3 DEF unit
  <1>16. \A x : x \in files'[Target] <=> IF x \in u..(u + A - 1) THEN x - u \in value ELSE x \in T
    BY <1>14, <1>15
  <1>17. \A x \in 0..(REGION - 1) :
           x \in files'[Target] <=>
             IF x \in (o + p)..(o + p + m - 1) THEN x - o \in source.bits
             ELSE IF x \in u..(u + A - 1) /\ regionField.rule # "preserve" THEN regionField.rule = "ones"
             ELSE x \in T
    <2> TAKE x \in 0..(REGION - 1)
    <2>1. x \in (o + p)..(o + p + m - 1) => x \in u..(u + A - 1)
      BY <1>3, <1>9
    <2>2. CASE x \in u..(u + A - 1)
      <3> DEFINE y == x - u
      <3>1. y \in 0..(A - 1) /\ (y \in r..(r + m - 1) <=> x \in (o + p)..(o + p + m - 1)) /\ (y - r) + p = x - o /\ y + u = x
        BY <1>3, <1>9, <2>2
      <3>2. x \in files'[Target] <=> y \in value
        BY <1>16, <2>2
      <3> HIDE DEF y
      <3>3. y \in value <=> IF x \in (o + p)..(o + p + m - 1) THEN x - o \in source.bits ELSE y \in Around
        BY <1>13, <3>1
      <3>4. y \in Around <=> IF regionField.rule = "preserve" THEN x \in T ELSE regionField.rule = "ones"
        BY <1>7, <3>1
      <3>5. QED
        BY <2>2, <3>2, <3>3, <3>4
    <2>3. CASE x \notin u..(u + A - 1)
      BY <1>16, <2>1, <2>3
    <2>4. QED
      BY <2>2, <2>3
  <1>18. files' \in [Banks -> SUBSET (0..(REGION - 1))]
    <2>1. files'[Target] \subseteq 0..(REGION - 1)
      <3>1. T \subseteq 0..(REGION - 1)
        BY <1>3, <1>6
      <3>2. u..(u + A - 1) \subseteq 0..(REGION - 1)
        BY <1>3
      <3>3. QED
        BY <1>16, <3>1, <3>2
    <2>2. QED
      BY <1>5, <1>6, <1>14, <2>1
  <1>19. WrittenSoFar'
    BY <1>1, <1>4, <1>14, <1>17, WriteKeeps DEF u, A, p, m, o
  <1>20. ReadSoFar'
    BY <1>1 DEF ReadSoFar
  <1>21. buffer' \subseteq 0..(regionField.size - 1)
    BY <1>1 DEF RegionIInv, RegionTypeOK
  <1>22. regionField.kind = "bank" => sel' = regionField.bank
    BY <1>1, UnitIs
  <1>23. QED
    BY <1>1, <1>18, <1>19, <1>20, <1>21, <1>22, AccessSound DEF p, m, A

(* A field of a buffer is accessed in bytes and starts at one.             *)
LEMMA BufferFacts ==
  ASSUME Supported, RegionIInv, regionOp \in {"read", "write"}, progress < regionField.size, regionField.kind = "buffer"
  PROVE  /\ AccessSize = RegionByte /\ AccessSize \div RegionByte = 1 /\ BitOffset = 0
         /\ Target = 0 /\ regionField.rule = "preserve"
PROOF
  <1>1. AccessSize = RegionByte /\ RegionByte \in Nat \ {0} /\ regionField \in Fields /\ regionField.offset \in Nat
    BY FieldFacts
  <1>2. regionField.offset % RegionByte = 0 /\ regionField.rule = "preserve"
    BY <1>1 DEF Supported
  <1>3. BitOffset = 0
    <2>1. progress = 0 \/ BitOffset = 0
      BY Situation
    <2>2. regionField.offset + 0 = regionField.offset
      BY <1>1
    <2>3. progress = 0 => BitOffset = 0
      BY <1>1, <1>2, <2>2 DEF BitOffset
    <2>4. QED
      BY <2>1, <2>3
  <1>4. QED
    BY <1>1, <1>2, <1>3 DEF Target

LEMMA ReadBufferSound ==
  ASSUME Supported, RegionIInv, lai_read_buffer
  PROVE  RegionIInv'
PROOF
  <1> DEFINE u == RegionByte * offset
             m == AccessBits
             p == progress
             o == regionField.offset
             low == Shr(files[0], u) \cap 0..(m - 1)
  <1>1. /\ regionField.kind = "buffer" /\ regionOp = "read" /\ progress < regionField.size
        /\ buffer' = buffer \cup Shl(low, p)
        /\ progress' = p + m /\ offset' = offset + 1
        /\ UNCHANGED <<regionField, files, sel, regionOp, source, before>>
    BY DEF lai_read_buffer
  <1>2. /\ AccessSize \div RegionByte = 1 /\ BitOffset = 0 /\ Target = 0
    BY <1>1, BufferFacts
  <1>3. /\ u \in Nat /\ p \in Nat /\ u = o + p /\ m \in Nat /\ o \in Nat /\ files[0] \subseteq Nat
    <2>1. /\ u \in Nat /\ p \in Nat /\ u + 0 = o + p /\ m \in 1..AccessSize /\ AccessSize \in Nat /\ o \in Nat
      BY <1>1, <1>2, Situation, FieldFacts
    <2>2. files[0] \subseteq Nat
      BY <1>2, FieldFacts DEF RegionIInv, RegionTypeOK
    <2> HIDE DEF u, m, p, o
    <2>3. QED
      BY <2>1, <2>2
  <1> HIDE DEF u, m, p, o
  <1>4. \A x : x \in low <=> x \in 0..(m - 1) /\ x + u \in files[0]
    <2>1. \A x : x \in Shr(files[0], u) <=> x \in Nat /\ x + u \in files[0]
      BY <1>3, ShrIs
    <2>2. \A x \in 0..(m - 1) : x \in Nat
      BY <1>3
    <2>3. QED
      BY <2>1, <2>2
  <1>5. low \subseteq Nat
    BY <1>3
  <1> HIDE DEF low
  <1>6. \A x : x \in Shl(low, p) <=> x \in Nat /\ x - p \in low
    BY <1>3, <1>5, ShlIs
  <1>7. ASSUME NEW x
        PROVE  x \in buffer' <=> x \in buffer \/ (x \in p..(p + m - 1) /\ x + o \in files[0])
    <2>1. x \in buffer' <=> x \in buffer \/ (x \in Nat /\ x - p \in 0..(m - 1) /\ (x - p) + u \in files[0])
      BY <1>1, <1>4, <1>6
    <2>2. x \in Nat /\ x - p \in 0..(m - 1) <=> x \in p..(p + m - 1)
      BY <1>3
    <2>3. x \in p..(p + m - 1) => (x - p) + u = x + o
      BY <1>3
    <2>4. QED
      BY <2>1, <2>2, <2>3
  <1>8. ReadSoFar' /\ buffer' \subseteq 0..(regionField.size - 1)
    BY <1>1, <1>2, <1>7, ReadKeeps DEF p, m, o
  <1>9. WrittenSoFar'
    BY <1>1 DEF WrittenSoFar
  <1>10. files' \in [Banks -> SUBSET (0..(REGION - 1))]
    BY <1>1 DEF RegionIInv, RegionTypeOK
  <1>11. QED
    BY <1>1, <1>2, <1>8, <1>9, <1>10, AccessSound DEF p, m

LEMMA WriteBufferSound ==
  ASSUME Supported, RegionIInv, lai_write_buffer
  PROVE  RegionIInv'
PROOF
  <1> DEFINE u == RegionByte * offset
             m == AccessBits
             p == progress
             o == regionField.offset
             A == AccessSize
             own == Shl(0..(m - 1), u + BitOffset)
             new == Shl(Shr(source.bits, p), u + BitOffset)
             T == files[0]
  <1>1. /\ regionField.kind = "buffer" /\ regionOp = "write" /\ progress < regionField.size
        /\ files' = [files EXCEPT ![0] = (@ \ own) \cup (new \cap own)]
        /\ progress' = p + m /\ offset' = offset + 1
        /\ UNCHANGED <<regionField, sel, regionOp, source, buffer, before>>
    BY DEF lai_write_buffer
  <1>2. /\ A \div RegionByte = 1 /\ BitOffset = 0 /\ Target = 0 /\ regionField.rule = "preserve"
    BY <1>1, BufferFacts
  <1>3. /\ u \in Nat /\ p \in Nat /\ u = o + p /\ m \in Nat /\ m <= A /\ o \in Nat /\ A \in Nat /\ u + A <= REGION /\ REGION \in Nat
        /\ 0 \in Banks
    <2>1. /\ u \in Nat /\ p \in Nat /\ u + 0 = o + p /\ m \in 1..A /\ A \in Nat /\ o \in Nat /\ u + A <= REGION /\ REGION \in Nat
      BY <1>1, <1>2, Situation, FieldFacts
    <2>2. 0 \in Banks
      BY LaiOpregionAssumption
    <2> HIDE DEF u, m, p, o, A
    <2>3. QED
      BY <2>1, <2>2
  <1>4. RegionByte * offset' = u + A
    <2>1. regionField.kind # "bank"
      BY <1>1
    <2>2. QED
      BY <1>1, <1>2, <2>1, PositionNext
  <1>5. files \in [Banks -> SUBSET (0..(REGION - 1))] /\ source.bits \subseteq Nat
    BY <1>1, SourceFacts DEF RegionIInv, RegionTypeOK
  <1> HIDE DEF u, m, p, o, A
  <1>6. u + BitOffset = u
    BY <1>2, <1>3
  <1>7. \A x : x \in own <=> x \in u..(u + m - 1)
    <2>1. 0..(m - 1) \subseteq Nat
      BY <1>3
    <2>2. \A x : x \in Shl(0..(m - 1), u) <=> x \in Nat /\ x - u \in 0..(m - 1)
      BY <1>3, <2>1, ShlIs
    <2>3. \A x : x \in Nat /\ x - u \in 0..(m - 1) <=> x \in u..(u + m - 1)
      BY <1>3
    <2>4. QED
      BY <1>6, <2>2, <2>3
  <1> DEFINE rest == Shr(source.bits, p)
  <1>8. \A x : x \in rest <=> x \in Nat /\ x + p \in source.bits
    BY <1>3, <1>5, ShrIs
  <1>9. rest \subseteq Nat
    BY <1>8
  <1>10. new = Shl(rest, u)
    BY <1>6
  <1> HIDE DEF rest, new, own
  <1>11. \A x : x \in new <=> x \in Nat /\ x - u \in rest
    BY <1>3, <1>9, <1>10, ShlIs
  <1>12. files'[0] = (T \ own) \cup (new \cap own) /\ \A b \in Banks \ {0} : files'[b] = files[b]
    BY <1>1, <1>3, <1>5
  <1>13. \A x : x \in files'[0] <=> IF x \in (o + p)..(o + p + m - 1) THEN x - o \in source.bits ELSE x \in T
    <2> TAKE x
    <2>1. x \in (o + p)..(o + p + m - 1) <=> x \in u..(u + m - 1)
      BY <1>3
    <2>2. ASSUME x \in u..(u + m - 1)
          PROVE  x \in new <=> x - o \in source.bits
      <3>1. x \in Nat /\ x - u \in Nat /\ (x - u) + p = x - o
        BY <1>3, <2>2
      <3>2. QED
        BY <1>8, <1>11, <3>1
    <2>3. QED
      BY <1>7, <1>12, <2>1, <2>2
  <1>14. files' \in [Banks -> SUBSET (0..(REGION - 1))]
    <2>1. files'[0] \subseteq 0..(REGION - 1)
      <3>1. T \subseteq 0..(REGION - 1)
        BY <1>3, <1>5
      <3>2. u..(u + m - 1) \subseteq 0..(REGION - 1)
        BY <1>3
      <3>3. QED
        BY <1>7, <1>12, <3>1, <3>2
    <2>2. QED
      BY <1>1, <1>5, <1>12, <2>1
  <1>15. WrittenSoFar'
    BY <1>1, <1>2, <1>4, <1>12, <1>13, WriteKeeps DEF u, A, p, m, o
  <1>16. ReadSoFar'
    BY <1>1 DEF ReadSoFar
  <1>17. buffer' \subseteq 0..(regionField.size - 1)
    BY <1>1 DEF RegionIInv, RegionTypeOK
  <1>18. QED
    BY <1>1, <1>2, <1>14, <1>15, <1>16, <1>17, AccessSound DEF p, m, A

LEMMA PanicSound ==
  ASSUME RegionIInv, lai_panic
  PROVE  RegionIInv'
PROOF
  <1>1. regionOp' = "panic" /\ UNCHANGED <<regionField, files, sel, progress, offset, source, buffer, before>>
    BY DEF lai_panic
  <1>2. RegionTypeOK'
    BY <1>1 DEF RegionIInv, RegionTypeOK
  <1>3. PositionSound' /\ ReadSoFar' /\ WrittenSoFar'
    BY <1>1 DEF PositionSound, ReadSoFar, WrittenSoFar
  <1>4. QED
    BY <1>1, <1>2, <1>3 DEF RegionIInv

LEMMA FinishSound ==
  ASSUME RegionIInv, Finish
  PROVE  RegionIInv'
PROOF
  <1>1. /\ regionOp' = "idle" /\ progress' = 0 /\ offset' = 0 /\ buffer' = {} /\ before' = files
        /\ regionField' = regionField /\ files' = files
    BY DEF Finish
  <1>2. RegionTypeOK'
    <2>1. RegionByte * 0 <= REGION /\ 0 \in 0..regionField.size
      BY FieldFacts
    <2>2. QED
      BY <1>1, <2>1 DEF RegionIInv, RegionTypeOK
  <1>3. PositionSound' /\ ReadSoFar' /\ WrittenSoFar'
    BY <1>1 DEF PositionSound, ReadSoFar, WrittenSoFar
  <1>4. QED
    BY <1>1, <1>2, <1>3 DEF RegionIInv, RegionTypeOK

LEMMA RegionStep ==
  ASSUME Supported
  PROVE  RegionIInv /\ [RegionNext]_regionVars => RegionIInv'
PROOF
  <1> SUFFICES ASSUME RegionIInv, [RegionNext]_regionVars PROVE RegionIInv'
    OBVIOUS
  <1>1. CASE lai_read_opregion
    <2>1. Begin("read", [bits |-> {}, len |-> 0])
      BY <1>1 DEF lai_read_opregion
    <2>2. QED
      BY <2>1, BeginSound
  <1>2. CASE lai_write_opregion
    <2>1. PICK s \in Sources : Begin("write", s)
      BY <1>2 DEF lai_write_opregion
    <2>2. QED
      BY <2>1, BeginSound
  <1>3. CASE lai_read_field_internal
    BY <1>3, ReadFieldSound
  <1>4. CASE lai_write_field_internal
    BY <1>4, WriteFieldSound
  <1>5. CASE lai_read_buffer
    BY <1>5, ReadBufferSound
  <1>6. CASE lai_write_buffer
    BY <1>6, WriteBufferSound
  <1>7. CASE lai_panic
    BY <1>7, PanicSound
  <1>8. CASE Finish
    BY <1>8, FinishSound
  <1>9. CASE UNCHANGED regionVars
    BY <1>9 DEF regionVars, RegionIInv, RegionTypeOK, PositionSound, ReadSoFar, WrittenSoFar, ByRule, Target, AccessSize
  <1>10. QED
    BY <1>1, <1>2, <1>3, <1>4, <1>5, <1>6, <1>7, <1>8, <1>9 DEF RegionNext

(***************************************************************************)
(* The end of a call.                                                      *)
(***************************************************************************)
LEMMA ReadsWhatIsThere ==
  ASSUME RegionIInv
  PROVE  ReadsField
PROOF
  <1> SUFFICES ASSUME Done("read") PROVE buffer = Shr(before[Target] \cap Own, regionField.offset)
    BY DEF ReadsField
  <1>1. regionOp = "read" /\ progress = regionField.size
    BY FieldFacts DEF Done, RegionIInv, RegionTypeOK
  <1>2. QED
    BY <1>1 DEF RegionIInv, ReadSoFar, Own

(* The bits of the region when a write is done.                            *)
LEMMA WrittenBits ==
  ASSUME RegionIInv, Done("write")
  PROVE  \A x : x \in files[Target] <=>
           IF x \in Own THEN x - regionField.offset \in source.bits
           ELSE IF x \in RestOfUnits THEN ByRule(x)
           ELSE x \in before[Target]
PROOF
  <1> DEFINE o == regionField.offset
             n == regionField.size
             A == AccessSize
             lo == o - (o % A)
             hi == RegionByte * offset
  <1>1. /\ o \in Nat /\ n \in Nat \ {0} /\ A \in Nat \ {0} /\ INT \in Nat /\ REGION \in Nat /\ o + n + INT <= REGION
        /\ Target \in Banks
    BY FieldFacts
  <1>2. regionOp = "write" /\ progress = n
    BY FieldFacts DEF Done, RegionIInv, RegionTypeOK
  <1>3. hi = ((((o + n) - 1) \div A) + 1) * A /\ hi <= REGION
    BY <1>1, <1>2 DEF RegionIInv, PositionSound, RegionTypeOK
  <1>4. \A x \in 0..(REGION - 1) :
          (x \in files[Target]) =
            IF x \in o..(o + n - 1) THEN x - o \in source.bits
            ELSE IF x \in lo..(hi - 1) THEN ByRule(x)
            ELSE x \in before[Target]
    BY <1>2 DEF RegionIInv, WrittenSoFar
  <1>5. files[Target] \subseteq 0..(REGION - 1) /\ before[Target] \subseteq 0..(REGION - 1)
    BY <1>1 DEF RegionIInv, RegionTypeOK
  <1>6. lo = (o \div A) * A /\ lo \in Nat
    <2> DEFINE q == o \div A
               s == o % A
               v == A * q
    <2> HIDE DEF o, A
    <2>1. q \in Nat /\ s \in 0..(A - 1) /\ o = A * q + s
      BY <1>1, DivMod
    <2> HIDE DEF q, s
    <2>2. v \in Nat /\ q * A = v /\ o = v + s
      BY <1>1, <2>1
    <2> HIDE DEF v
    <2>3. o - s = v
      BY <1>1, <2>1, <2>2
    <2>4. QED
      BY <2>2, <2>3 DEF q, s
  <1>7. RestOfUnits = (lo..(hi - 1)) \ Own /\ Own = o..(o + n - 1)
    <2>1. (o + n) - 1 = o + n - 1
      BY <1>1
    <2>2. hi = (((o + n - 1) \div A) + 1) * A
      BY <1>3, <2>1
    <2>3. QED
      BY <1>6, <2>2 DEF RestOfUnits, Own
  <1> HIDE DEF o, n, A, lo, hi
  <1>8. o..(o + n - 1) \subseteq 0..(REGION - 1)
    BY <1>1
  <1>9. lo..(hi - 1) \subseteq 0..(REGION - 1)
    <2>1. hi \in Int
      BY <1>3, FieldFacts DEF hi, RegionIInv
    <2>2. QED
      BY <1>1, <1>3, <1>6, <2>1
  <1>10. QED
    BY <1>4, <1>5, <1>7, <1>8, <1>9 DEF o

LEMMA WritesTheSource ==
  ASSUME Supported, RegionIInv
  PROVE  WritesField
PROOF
  <1> DEFINE o == regionField.offset
             n == regionField.size
             kept == source.bits \cap 0..(n - 1)
  <1> SUFFICES ASSUME Done("write") PROVE files[Target] \cap Own = Shl(kept, o)
    BY DEF WritesField
  <1>1. o \in Nat /\ n \in Nat
    BY FieldFacts
  <1>2. source.bits \subseteq Nat
    BY SourceFacts DEF Done
  <1>3. \A x \in Own : x \in files[Target] <=> x - o \in source.bits
    BY WrittenBits
  <1>4. Own = o..(o + n - 1)
    BY DEF Own
  <1> HIDE DEF o, n
  <1>5. \A x : x \in Shl(kept, o) <=> x \in Nat /\ x - o \in kept
    <2>1. kept \subseteq Nat
      BY <1>2
    <2> HIDE DEF kept
    <2>2. QED
      BY <1>1, <2>1, ShlIs
  <1>6. \A x : x \in Nat /\ x - o \in 0..(n - 1) <=> x \in o..(o + n - 1)
    BY <1>1
  <1>7. \A x : x \in Shl(kept, o) <=> x \in Own /\ x - o \in source.bits
    BY <1>4, <1>5, <1>6
  <1> HIDE DEF kept
  <1>8. QED
    BY <1>3, <1>7

LEMMA LeavesTheRest ==
  ASSUME RegionIInv
  PROVE  OutsideByRule
PROOF
  <1> DEFINE both == Own \cup RestOfUnits
             want == CASE regionField.rule = "preserve" -> before[Target] \cap RestOfUnits
                       [] regionField.rule = "ones" -> RestOfUnits
                       [] regionField.rule = "zeroes" -> {}
  <1> SUFFICES ASSUME Done("write")
               PROVE  /\ \A b \in Banks \ {Target} : files[b] = before[b]
                      /\ files[Target] \ both = before[Target] \ both
                      /\ files[Target] \cap RestOfUnits = want
    BY Zenon DEF OutsideByRule
  <1>1. \A b \in Banks \ {Target} : files[b] = before[b]
    BY DEF Done, RegionIInv, WrittenSoFar
  <1>2. files[Target] \ both = before[Target] \ both
    BY WrittenBits
  <1>3. files[Target] \cap RestOfUnits = {x \in RestOfUnits : ByRule(x)}
    <2>1. \A x \in RestOfUnits : x \notin Own
      BY DEF RestOfUnits
    <2>2. QED
      BY <2>1, WrittenBits
  <1>4. {x \in RestOfUnits : ByRule(x)} = want
    <2>1. regionField.rule \in Rules
      BY FieldFacts, LaiOpregionAssumption DEF Field
    <2>2. CASE regionField.rule = "preserve"
      <3>1. want = before[Target] \cap RestOfUnits
        BY <2>2, Zenon
      <3> HIDE DEF want
      <3>2. QED
        BY <2>2, <3>1 DEF ByRule
    <2>3. CASE regionField.rule = "ones"
      <3>1. want = RestOfUnits
        BY <2>3, Zenon
      <3> HIDE DEF want
      <3>2. QED
        BY <2>3, <3>1 DEF ByRule
    <2>4. CASE regionField.rule = "zeroes"
      <3>1. want = {}
        BY <2>4, Zenon
      <3> HIDE DEF want
      <3>2. QED
        BY <2>4, <3>1 DEF ByRule
    <2> HIDE DEF want
    <2>5. QED
      BY <2>1, <2>2, <2>3, <2>4 DEF Rules
  <1> HIDE DEF want, both
  <1>5. QED
    BY <1>1, <1>2, <1>3, <1>4

(***************************************************************************)
(* The theorems.                                                           *)
(***************************************************************************)
(* The inductive invariant holds in every state: the unit that is accessed *)
(* is the one of the next bit, and the bits up to it have been moved.      *)
THEOREM RegionInvariance ==
  ASSUME Supported
  PROVE  RegionSpec => []RegionIInv
PROOF
  <1>1. RegionInit => RegionIInv
    BY RegionInitSound
  <1>2. RegionIInv /\ [RegionNext]_regionVars => RegionIInv'
    BY RegionStep
  <1>3. QED
    BY <1>1, <1>2, PTL DEF RegionSpec

(* Accesses to fields are correct (lai_read_field_internal and             *)
(* lai_write_field_internal of core/opregion.c, lai_read_buffer and        *)
(* lai_write_buffer of core/exec-operand.c): for every width of a byte,    *)
(* every region and every set of fields the code supports, a read returns  *)
(* the bits of the field, a write puts the source into them, and the bits  *)
(* around the field follow its update rule, whatever its offset, size,     *)
(* access width, bank or index.                                            *)
THEOREM FieldsAreCorrect ==
  ASSUME Supported
  PROVE  RegionSpec => []FieldsCorrect
PROOF
  <1>1. RegionIInv => FieldsCorrect
    <2> SUFFICES ASSUME RegionIInv PROVE FieldsCorrect
      OBVIOUS
    <2>1. RegionTypeOK
      BY DEF RegionIInv
    <2>2. QED
      BY <2>1, ReadsWhatIsThere, WritesTheSource, LeavesTheRest DEF FieldsCorrect
  <1>2. QED
    BY <1>1, RegionInvariance, PTL
=============================================================================

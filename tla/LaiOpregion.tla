---------------------------- MODULE LaiOpregion ----------------------------
(***************************************************************************)
(* Fields of operation regions (cpu/lai/core/opregion.c): a field of any   *)
(* offset and size is read and written in units of its access width, with  *)
(* the bits of a unit around the field kept, set or cleared by its update  *)
(* rule; a bank field first selects its bank, an index field selects each  *)
(* unit.  A field of a buffer (cpu/lai/core/exec-operand.c) is accessed    *)
(* byte by byte; the region is then the buffer.                            *)
(*                                                                         *)
(* Values and memory are sets of the positions of the bits that are set.   *)
(* One step is one access to the region.                                   *)
(***************************************************************************)
EXTENDS Integers, FiniteSetsExt

CONSTANTS
  RegionByte,         \* 8: bits of a byte
  INT,          \* 64: bits of an integer, the widest access
  REGION,       \* bits of the region
  Banks,        \* the values of the bank register, with 0
  Fields,       \* the fields there are
  Contents,     \* what the region may hold
  Sources,      \* what is written: [bits, len]
  INDEX,        \* the range of the index register
  HostPage      \* laihost_map returns the start of a page of this many bytes

AccessTypes == {"any", "byte", "half", "full"}
Rules == {"preserve", "ones", "zeroes"}
Spaces == {"memory", "io", "cmos", "override", "none"}
Field == [kind : {"field", "bank", "index", "buffer"}, space : Spaces, offset : Nat, size : Nat \ {0},
          access : AccessTypes, rule : Rules, bank : Banks]

(* The data register of an index field has a byte, and so has its access;  *)
(* a field of a buffer fits an integer.                                    *)
ASSUME LaiOpregionAssumption ==
  /\ RegionByte \in Nat \ {0} /\ INT = 4 * RegionByte /\ REGION \in Nat /\ {INDEX, HostPage} \subseteq Nat \ {0}
  /\ 0 \in Banks /\ Contents \subseteq SUBSET (0..(REGION - 1))
  /\ \A f \in Fields : f \in Field /\ f.offset + f.size + INT <= REGION /\ (f.kind \in {"index", "buffer"} => f.access = "byte")
  /\ \A f \in Fields : f.kind = "buffer" => f.size <= INT
  /\ \A s \in Sources : s.bits \subseteq 0..(s.len - 1)

VARIABLES
  regionField,        \* the field that is accessed
  files,        \* the region, per bank
  sel,          \* the bank or index register
  regionOp,           \* "idle", "read", "write", "panic"
  progress,
  offset,       \* of the unit, in bytes
  source,
  buffer,       \* the destination of a read
  before        \* the region when the call began

regionVars == <<regionField, files, sel, regionOp, progress, offset, source, buffer, before>>

-----------------------------------------------------------------------------
(***************************************************************************)
(* Bits.                                                                   *)
(***************************************************************************)
Shr(v, n) == {b - n : b \in {c \in v : c >= n}}
Shl(v, n) == {b + n : b \in v}

(* (1 << n) - 1.  A shift by the width of the integer is undefined; x86    *)
(* takes the count modulo that width, and the mask is empty.               *)
Mask(n) == 0..((n % INT) - 1)

(* The next power of two, of at least a byte and at most what the space    *)
(* allows.                                                                 *)
lai_calculate_access_width(f) ==
  CASE f.access = "byte" -> RegionByte
    [] f.access = "half" -> INT \div 2
    [] f.access = "full" -> INT
    [] f.access = "any" ->
         LET widest == IF f.space = "memory" THEN INT ELSE INT \div 2
         IN  CHOOSE w \in {RegionByte, 2 * RegionByte, 4 * RegionByte} :
               /\ w <= widest /\ (w >= f.size \/ w = widest)
               /\ \A x \in {RegionByte, 2 * RegionByte, 4 * RegionByte} : x >= f.size => x >= w

AccessSize == lai_calculate_access_width(regionField)

(* Bits put into, and taken from, a buffer at a bit offset.                *)
lai_buffer_put_at(buf, value, bit_offset, num_bits) == buf \cup Shl(value \cap 0..(num_bits - 1), bit_offset)
lai_buffer_get_at(buf, bit_offset, num_bits) == Shr(buf, bit_offset) \cap 0..(num_bits - 1)

-----------------------------------------------------------------------------
(***************************************************************************)
(* One access to the region.                                               *)
(***************************************************************************)
(* Where laihost_map takes an access to memory.                            *)
laihost_map(address) == address - (address % HostPage)

(* The bit of the region where an access at byte off begins, and the bank  *)
(* that answers.                                                           *)
First(off) == RegionByte * (IF regionField.space = "memory" THEN laihost_map(off) ELSE off)
Bank == IF regionField.kind = "bank" THEN sel ELSE 0

(* An address space that is not handled reads as 0 and ignores writes.     *)
Handled == regionField.space # "cmos"

(* Ports, and the configuration space, which is accessed alike, have no    *)
(* access of the width of an integer.                                      *)
Accessible == regionField.space = "io" => AccessSize < INT

lai_perform_read(off, width) ==
  IF Handled THEN Shr(files[Bank], First(off)) \cap 0..(width - 1) ELSE {}

lai_perform_write(off, width, value) ==
  IF Handled
  THEN [files EXCEPT ![Bank] = (@ \ (First(off)..(First(off) + width - 1))) \cup Shl(value \cap 0..(width - 1), First(off))]
  ELSE files

(* lai_perform_indexfield_read and lai_perform_indexfield_write: the index *)
(* register is written first, and the data register shows the byte that it *)
(* names.                                                                  *)
Selected(off) == IF regionField.kind = "index" THEN off % INDEX ELSE sel
ReadUnit(off, width) ==
  IF regionField.kind = "index" THEN Shr(files[0], RegionByte * Selected(off)) \cap 0..(RegionByte - 1) ELSE lai_perform_read(off, width)
WriteUnit(off, width, value) ==
  IF regionField.kind = "index"
  THEN LET first == RegionByte * Selected(off)
       IN  [files EXCEPT ![0] = (@ \ (first..(first + RegionByte - 1))) \cup Shl(value \cap 0..(RegionByte - 1), first)]
  ELSE lai_perform_write(off, width, value)

(* The part of the unit at progress that belongs to the field.             *)
BitOffset == (regionField.offset + progress) % AccessSize
AccessBits == Min({regionField.size - progress, AccessSize - BitOffset})

-----------------------------------------------------------------------------
RegionInit ==
  /\ regionField \in Fields
  /\ \E c \in Contents : files = [b \in Banks |-> IF b = 0 THEN c ELSE (0..(REGION - 1)) \ c]
  /\ sel = 0 /\ regionOp = "idle" /\ progress = 0 /\ offset = 0
  /\ source = [bits |-> {}, len |-> 0] /\ buffer = {}
  /\ before = files

(* The first unit, and the bank register for a bank field.                 *)
Begin(kind, s) ==
  /\ regionOp = "idle"
  /\ regionOp' = kind /\ source' = s /\ buffer' = {} /\ before' = files
  /\ progress' = 0 /\ offset' = (regionField.offset - (regionField.offset % AccessSize)) \div RegionByte
  /\ sel' = IF regionField.kind = "bank" THEN regionField.bank ELSE sel
  /\ UNCHANGED <<regionField, files>>

lai_read_opregion == Begin("read", [bits |-> {}, len |-> 0])
lai_write_opregion == \E s \in Sources : Begin("write", s)

lai_read_field_internal ==
  /\ regionField.kind # "buffer" /\ regionOp = "read" /\ progress < regionField.size /\ Accessible
  /\ LET value == Shr(ReadUnit(offset, AccessSize), BitOffset) \cap Mask(AccessBits)
     IN  buffer' = lai_buffer_put_at(buffer, value, progress, AccessBits)
  /\ sel' = Selected(offset)
  /\ progress' = progress + AccessBits /\ offset' = offset + AccessSize \div RegionByte
  /\ UNCHANGED <<regionField, files, regionOp, source, before>>

(* What a unit has around the field before the field's bits are put in.    *)
(* Mutant: the unit is not read before it is written.                      *)
KeepsNothing == CASE regionField.rule = "preserve" -> {} [] regionField.rule = "ones" -> 0..(INT - 1) [] regionField.rule = "zeroes" -> {}
Around ==
  CASE regionField.rule = "preserve" -> ReadUnit(offset, AccessSize)
    [] regionField.rule = "ones" -> 0..(INT - 1)
    [] regionField.rule = "zeroes" -> {}

(* A source that is shorter than the field is read past its end.           *)
lai_write_field_internal ==
  /\ regionField.kind # "buffer" /\ regionOp = "write" /\ progress < regionField.size /\ Accessible
  /\ \E past \in SUBSET (source.len..(regionField.size - 1)) :
       LET mask == Shl(Mask(AccessBits), BitOffset)
           new == Shl(lai_buffer_get_at(source.bits \cup past, progress, AccessBits), BitOffset)
       IN  files' = WriteUnit(offset, AccessSize, (Around \ mask) \cup (new \cap mask))
  /\ sel' = Selected(offset)
  /\ progress' = progress + AccessBits /\ offset' = offset + AccessSize \div RegionByte
  /\ UNCHANGED <<regionField, regionOp, source, buffer, before>>

(***************************************************************************)
(* Fields of buffers: the byte at progress.                                *)
(***************************************************************************)
(* The bits are taken from the bottom of the byte, wherever the field is.  *)
lai_read_buffer ==
  /\ regionField.kind = "buffer" /\ regionOp = "read" /\ progress < regionField.size
  /\ LET m == AccessBits
     IN  /\ buffer' = buffer \cup Shl(Shr(files[0], RegionByte * offset) \cap 0..(m - 1), progress)
         /\ progress' = progress + m
  /\ offset' = offset + 1
  /\ UNCHANGED <<regionField, files, sel, regionOp, source, before>>

lai_write_buffer ==
  /\ regionField.kind = "buffer" /\ regionOp = "write" /\ progress < regionField.size
  /\ LET own == Shl(0..(AccessBits - 1), RegionByte * offset + BitOffset)
         new == Shl(Shr(source.bits, progress), RegionByte * offset + BitOffset)
     IN  files' = [files EXCEPT ![0] = (@ \ own) \cup (new \cap own)]
  /\ progress' = progress + AccessBits /\ offset' = offset + 1
  /\ UNCHANGED <<regionField, sel, regionOp, source, buffer, before>>

(* "invalid access size".                                                  *)
lai_panic ==
  /\ regionOp \in {"read", "write"} /\ progress < regionField.size /\ ~Accessible
  /\ regionOp' = "panic"
  /\ UNCHANGED <<regionField, files, sel, progress, offset, source, buffer, before>>

Finish ==
  /\ regionOp \in {"read", "write"} /\ progress >= regionField.size
  /\ regionOp' = "idle" /\ progress' = 0 /\ offset' = 0
  /\ source' = [bits |-> {}, len |-> 0] /\ buffer' = {} /\ before' = files
  /\ UNCHANGED <<regionField, files, sel>>

RegionNext ==
  \/ lai_read_opregion \/ lai_write_opregion
  \/ lai_read_field_internal \/ lai_write_field_internal
  \/ lai_read_buffer \/ lai_write_buffer
  \/ lai_panic \/ Finish

RegionSpec == RegionInit /\ [][RegionNext]_regionVars

-----------------------------------------------------------------------------
(***************************************************************************)
(* What a field is: the bits [offset, offset + size) of its region.        *)
(***************************************************************************)
Target == IF regionField.kind = "bank" THEN regionField.bank ELSE 0
Own == regionField.offset..(regionField.offset + regionField.size - 1)
Done(kind) == regionOp = kind /\ progress >= regionField.size

RegionTypeOK ==
  /\ regionField \in Field /\ files \in [Banks -> SUBSET (0..(REGION - 1))]
  /\ regionOp \in {"idle", "read", "write", "panic"} /\ progress \in 0..regionField.size
  /\ RegionByte * offset <= REGION /\ buffer \subseteq 0..(regionField.size - 1)

(* A read returns the field's bits, whatever its offset, size, access      *)
(* width, bank or index.                                                   *)
ReadsField == Done("read") => buffer = Shr(before[Target] \cap Own, regionField.offset)

(* A write puts the source into the field's bits.                          *)
WritesField == Done("write") => files[Target] \cap Own = Shl(source.bits \cap 0..(regionField.size - 1), regionField.offset)

(* A write touches nothing outside the field but the rest of the units it  *)
(* writes, which the update rule keeps, sets or clears.                    *)
RestOfUnits ==
  LET a == AccessSize IN (((regionField.offset \div a) * a)..((((regionField.offset + regionField.size - 1) \div a) + 1) * a - 1)) \ Own
OutsideByRule ==
  Done("write") =>
    /\ \A b \in Banks \ {Target} : files[b] = before[b]
    /\ files[Target] \ (Own \cup RestOfUnits) = before[Target] \ (Own \cup RestOfUnits)
    /\ files[Target] \cap RestOfUnits =
         CASE regionField.rule = "preserve" -> before[Target] \cap RestOfUnits
           [] regionField.rule = "ones" -> RestOfUnits
           [] regionField.rule = "zeroes" -> {}

(* Accesses to fields are correct: a read of a field returns its bits, a   *)
(* write puts the source into them, and what is outside follows the update *)
(* rule, whatever the offset, size, access width, bank or index.           *)
FieldsCorrect == RegionTypeOK /\ ReadsField /\ WritesField /\ OutsideByRule

-----------------------------------------------------------------------------
(***************************************************************************)
(* What the code is right for: a host that maps memory where it was asked  *)
(* to, spaces that have a case, no unit of the width of an integer inside  *)
(* a field (its mask would be empty), index registers that can name every  *)
(* unit, fields of buffers that start at a byte, and sources as long as    *)
(* the field.                                                              *)
(***************************************************************************)
Supported ==
  /\ \A f \in Fields :
       /\ f.space # "cmos"
       /\ f.space = "memory" => HostPage = 1
       /\ lai_calculate_access_width(f) = INT =>
            \A k \in f.offset..(f.offset + f.size - INT) : k % INT # 0
       /\ f.kind = "index" => f.offset + f.size <= RegionByte * INDEX
       /\ f.kind = "buffer" => f.offset % RegionByte = 0 /\ f.rule = "preserve"
  /\ \A s \in Sources : s.len \in Nat /\ \A f \in Fields : f.size <= s.len

(***************************************************************************)
(* The inductive invariant.  The access begins at the unit of the next bit *)
(* of the field, and after the first access that bit begins a unit; at the *)
(* end it is behind the last unit.                                         *)
(***************************************************************************)
PositionSound ==
  regionOp \in {"read", "write"} =>
    LET bit == regionField.offset + progress
    IN  /\ regionField.kind = "bank" => sel = regionField.bank
        /\ IF progress < regionField.size
           THEN RegionByte * offset = bit - (bit % AccessSize) /\ (progress = 0 \/ bit % AccessSize = 0)
           ELSE RegionByte * offset = (((bit - 1) \div AccessSize) + 1) * AccessSize

(* The bits of the field up to progress are in the buffer.                 *)
ReadSoFar ==
  regionOp = "read" =>
    /\ files = before
    /\ buffer = Shr(before[Target] \cap (regionField.offset..(regionField.offset + progress - 1)), regionField.offset)

(* They have the bits of the source; around them, what was written follows *)
(* the update rule; the rest is as it was.                                 *)
ByRule(x) == IF regionField.rule = "preserve" THEN x \in before[Target] ELSE regionField.rule = "ones"
WrittenSoFar ==
  regionOp = "write" =>
    /\ source \in Sources
    /\ \A b \in Banks \ {Target} : files[b] = before[b]
    /\ \A x \in 0..(REGION - 1) :
         (x \in files[Target]) =
           IF x \in regionField.offset..(regionField.offset + progress - 1) THEN x - regionField.offset \in source.bits
           ELSE IF x \in (regionField.offset - (regionField.offset % AccessSize))..(RegionByte * offset - 1) THEN ByRule(x)
           ELSE x \in before[Target]

RegionIInv ==
  /\ RegionTypeOK /\ regionField \in Fields /\ offset \in Nat /\ before \in [Banks -> SUBSET (0..(REGION - 1))]
  /\ PositionSound /\ ReadSoFar /\ WrittenSoFar
=============================================================================

------------------------------ MODULE LaiOps ------------------------------
(***************************************************************************)
(* What the operators of AML compute, from lai_exec_reduce_op              *)
(* (lai/core/exec.c).  Integers are unsigned of Width bits (64 in the      *)
(* code), buffers are sequences of bytes, strings sequences of characters  *)
(* without their terminating zero.                                         *)
(***************************************************************************)
EXTENDS Integers, Sequences, FiniteSetsExt, SequencesExt

CONSTANT Width   \* bits of an AML integer, a multiple of 4

ASSUME WidthAssumption == Width \in Nat \ {0} /\ Width % 4 = 0

Word == 2 ^ Width
Ones == Word - 1
Bit(x, i) == (x \div 2 ^ i) % 2
FromBits(b) == MapThenSumSet(LAMBDA i : IF b[i] THEN 2 ^ i ELSE 0, 0..(Width - 1))

(***************************************************************************)
(* Operators with two integer operands and a target.  Shift counts are     *)
(* taken modulo the width, as the processor does (beyond the width the C   *)
(* shift is undefined).  A zero divisor traps: the operators are only      *)
(* applied where Defined.                                                  *)
(***************************************************************************)
BinaryOps == {"ADD_OP", "SUBTRACT_OP", "MOD_OP", "MULTIPLY_OP", "AND_OP", "OR_OP", "XOR_OP",
              "NAND_OP", "NOR_OP", "SHL_OP", "SHR_OP"}
Defined(op, a, b) == op \in {"MOD_OP", "DIVIDE_OP"} => b # 0
Binary(op, a, b) ==
  CASE op = "ADD_OP"      -> (a + b) % Word
    [] op = "SUBTRACT_OP" -> (a - b) % Word
    [] op = "MOD_OP"      -> a % b
    [] op = "MULTIPLY_OP" -> (a * b) % Word
    [] op = "AND_OP"      -> FromBits([i \in 0..(Width - 1) |-> Bit(a, i) = 1 /\ Bit(b, i) = 1])
    [] op = "OR_OP"       -> FromBits([i \in 0..(Width - 1) |-> Bit(a, i) = 1 \/ Bit(b, i) = 1])
    [] op = "XOR_OP"      -> FromBits([i \in 0..(Width - 1) |-> Bit(a, i) # Bit(b, i)])
    [] op = "NAND_OP"     -> FromBits([i \in 0..(Width - 1) |-> ~(Bit(a, i) = 1 /\ Bit(b, i) = 1)])
    [] op = "NOR_OP"      -> FromBits([i \in 0..(Width - 1) |-> ~(Bit(a, i) = 1 \/ Bit(b, i) = 1)])
    [] op = "SHL_OP"      -> (a * 2 ^ (b % Width)) % Word
    [] op = "SHR_OP"      -> a \div 2 ^ (b % Width)

(***************************************************************************)
(* Logical operators have no target.  LNot, LAnd and LOr give the C truth  *)
(* values, the comparisons all ones.                                       *)
(***************************************************************************)
CompareOps == {"LEQUAL_OP", "LLESS_OP", "LGREATER_OP"}
Truth(p) == IF p THEN 1 ELSE 0
Logical(op, a, b) ==
  CASE op = "LAND_OP"     -> Truth(a # 0 /\ b # 0)
    [] op = "LOR_OP"      -> Truth(a # 0 \/ b # 0)
    [] op = "LEQUAL_OP"   -> IF a = b THEN Ones ELSE 0
    [] op = "LLESS_OP"    -> IF a < b THEN Ones ELSE 0
    [] op = "LGREATER_OP" -> IF a > b THEN Ones ELSE 0

(***************************************************************************)
(* The loops that look for the outermost set bit.                          *)
(***************************************************************************)
FindSetLeftBit(x) ==
  LET msb[n \in 0..Width] == IF x \div 2 ^ n = 0 THEN n ELSE msb[n + 1] IN msb[0]

FindSetRightBit(x) ==
  LET lsb[n \in 0..Width] == IF (x * 2 ^ n) % Word = 0 THEN n ELSE lsb[n + 1]
  IN  IF lsb[0] = 0 THEN 0 ELSE Width + 1 - lsb[0]

(***************************************************************************)
(* FromBCD adds nibble * 10^i, also for nibbles above 9.  ToBCD shifts the *)
(* result by a nibble for each decimal digit, lowest digit first.          *)
(***************************************************************************)
FromBcd(x) ==
  LET upTo[i \in 0..(Width \div 4)] ==
        IF i = 0 THEN 0 ELSE (upTo[i - 1] + ((x \div 16 ^ (i - 1)) % 16) * 10 ^ (i - 1)) % Word
  IN  upTo[Width \div 4]

MaxDigits == 20
ToBcd(x) ==
  LET after[i \in 0..MaxDigits] ==
        IF i = 0 THEN [o |-> x, r |-> 0]
        ELSE LET s == after[i - 1]
             IN  IF i > 1 /\ s.o = 0 THEN s
                 ELSE [o |-> s.o \div 10, r |-> (s.r * 16 + (s.o % 10)) % Word]
  IN  after[MaxDigits].r

(* The operators with one integer operand.                                 *)
UnaryOps == {"NOT_OP", "FINDSETLEFTBIT_OP", "FINDSETRIGHTBIT_OP", "FROM_BCD_OP", "TO_BCD_OP"}
Unary(op, a) ==
  CASE op = "NOT_OP"             -> Ones - a
    [] op = "FINDSETLEFTBIT_OP"  -> FindSetLeftBit(a)
    [] op = "FINDSETRIGHTBIT_OP" -> FindSetRightBit(a)
    [] op = "FROM_BCD_OP"        -> FromBcd(a)
    [] op = "TO_BCD_OP"          -> ToBcd(a)
=============================================================================

----------------------------- MODULE LaiConvert -----------------------------
(***************************************************************************)
(* Conversions and comparisons of AML values (cpu/lai/core/object.c, the   *)
(* operators of exec.c that use them, and the number formats they take     *)
(* from vsnprintf.c): integers, strings and buffers into one another, by   *)
(* the operators To... and by a store into an object of another type, and  *)
(* Concat, Mid, ConcatRes, the comparisons and Match.                      *)
(*                                                                         *)
(* The bases are parameters, so that all values of a short integer can be  *)
(* looked at: a byte is two digits of base HEX, an integer BYTES bytes.    *)
(* One step is one operator; it takes the value loaded before.             *)
(***************************************************************************)
EXTENDS LaiOps

CONSTANTS
  HEX,          \* 16
  DEC,          \* 10
  BYTES,        \* 8: bytes of an integer
  Values,       \* operands
  Others        \* second operands

BYTE == HEX * HEX

(* Characters in the order of their codes; digits from DEC on are letters, *)
(* the bracket is that of "[Package Object]".  The end tag of a resource   *)
(* template is a byte.                                                     *)
NUL == 0
SPACE == 1
COMMA == 2
Char(d) == 3 + d
BRACKET == 3 + HEX
LETTER_X == 4 + HEX
END_TAG == BYTE - 2

IsDigit(c, base) == c \in 3..(2 + base)
DigitOf(c) == c - 3

Integer(n) == [t |-> "int", n |-> n]
String(s) == [t |-> "str", v |-> s]
Buffer(b) == [t |-> "buf", v |-> b]
Package == [t |-> "pkg"]
Error == [t |-> "error"]

IsValue(x) ==
  \/ x.t = "int" /\ x.n \in 0..Ones
  \/ x.t = "str" /\ \A i \in 1..Len(x.v) : x.v[i] \in 1..(BYTE - 1)
  \/ x.t = "buf" /\ \A i \in 1..Len(x.v) : x.v[i] \in 0..(BYTE - 1)
  \/ x = Package

ASSUME LaiConvertAssumption ==
  /\ DEC \in Nat /\ HEX \in Nat /\ 1 < DEC /\ DEC < HEX /\ LETTER_X < END_TAG
  /\ Word = BYTE ^ BYTES /\ BYTES % 2 = 0 /\ BYTE < DEC ^ 3
  /\ \A x \in Values \cup Others : IsValue(x)

VARIABLES
  value,        \* what was loaded, or the result of the last operator
  from,         \* what it was before that
  op,           \* the operator
  arg           \* its other operands

convVars == <<value, from, op, arg>>

-----------------------------------------------------------------------------
(***************************************************************************)
(* Bytes, strings and numbers.                                             *)
(***************************************************************************)
(* Up to the first NUL.                                                    *)
CString(s) == LET ends == {i \in 1..Len(s) : s[i] = NUL} IN IF ends = {} THEN s ELSE SubSeq(s, 1, Min(ends) - 1)
Zeros(n) == [i \in 1..n |-> 0]

(* The bytes of an integer, least significant first.                       *)
LittleEndian(i) == [k \in 1..BYTES |-> (i \div BYTE ^ (k - 1)) % BYTE]
FromBytes(b) == MapThenSumSet(LAMBDA k : b[k] * BYTE ^ (k - 1), 1..Len(b))

(* num_fmt: at least padding digits, at most len.                          *)
Count(i, base) == CHOOSE k \in 1..(Width + 1) : i < base ^ k /\ (k = 1 \/ base ^ (k - 1) <= i)
num_fmt(i, base, padding, len) ==
  LET c == Min({Count(i, base), len})
      w == Max({c, padding})
  IN  [k \in 1..w |-> IF w - k < c THEN Char((i \div base ^ (w - k)) % base) ELSE Char(0)]

(* The formats that are used: %llu, %X (half an integer), %016lX, %02d and *)
(* %02X.                                                                   *)
Decimal(i) == num_fmt(i, DEC, 0, Width + 1)
HalfHex(i) == num_fmt(i % HEX ^ BYTES, HEX, 0, BYTES)
FullHex(i) == num_fmt(i, HEX, 2 * BYTES, 2 * BYTES)
TwoDecimal(b) == num_fmt(b, DEC, 2, Width + 1)
TwoHex(b) == num_fmt(b, HEX, 2, BYTES)

Flatten(ss) == FoldLeft(LAMBDA acc, s : acc \o s, <<>>, ss)
Without(s, n) == SubSeq(s, 1, Len(s) - n)

-----------------------------------------------------------------------------
(***************************************************************************)
(* lai_obj_to_*: a new object, or Error.                                   *)
(***************************************************************************)
lai_obj_to_buffer(x) ==
  CASE x.t = "int" -> Buffer(LittleEndian(x.n))
    [] x.t = "buf" -> x
    [] x.t = "str" -> Buffer(IF x.v = <<>> THEN <<>> ELSE Append(x.v, NUL))
    [] OTHER -> Error

(* Of a buffer the characters before the NUL, at most size of them.        *)
lai_obj_to_string(x, size) ==
  IF x.t = "buf" THEN LET s == CString(x.v) IN String(SubSeq(s, 1, Min({size, Len(s)}))) ELSE Error

(* Two characters of each byte, whatever the format gave.  An empty buffer *)
(* gives an empty string (and a NUL stored in front of it).                *)
lai_obj_to_decimal_string(x) ==
  CASE x.t = "int" -> String(Decimal(x.n))
    [] x.t = "buf" -> String(Without(Flatten([i \in 1..Len(x.v) |-> SubSeq(TwoDecimal(x.v[i]), 1, 2) \o <<COMMA>>]), 1))
    [] x.t = "str" -> x
    [] OTHER -> Error

lai_obj_to_hex_string(x) ==
  CASE x.t = "int" -> String(HalfHex(x.n))
    [] x.t = "buf" -> String(Without(Flatten([i \in 1..Len(x.v) |-> <<Char(0), LETTER_X>> \o TwoHex(x.v[i]) \o <<COMMA>>]), 1))
    [] x.t = "str" -> x
    [] OTHER -> Error

(* Digits to a number.                                                     *)
Number(s, base) == FoldLeft(LAMBDA n, c : (n * base + DigitOf(c)) % Word, 0, s)
IsHex(s) == Len(s) >= 2 /\ s[1] = Char(0) /\ s[2] = LETTER_X
AllDigits(s, base) == \A i \in 1..Len(s) : IsDigit(s[i], base)
lai_obj_to_integer(x) ==
  CASE x.t = "buf" /\ Len(x.v) >= BYTES -> Integer(FromBytes(SubSeq(x.v, 1, BYTES)))
    [] x.t = "str" /\ IsHex(x.v) /\ AllDigits(SubSeq(x.v, 3, Len(x.v)), HEX) -> Integer(Number(SubSeq(x.v, 3, Len(x.v)), HEX))
    [] x.t = "str" /\ ~IsHex(x.v) /\ AllDigits(x.v, DEC) -> Integer(Number(x.v, DEC))
    [] x.t = "int" -> x
    [] OTHER -> Error

(***************************************************************************)
(* lai_mutate_*: a store into an object of another type.                   *)
(***************************************************************************)
Resized(b, n) == SubSeq(b, 1, Min({n, Len(b)})) \o Zeros(n - Min({n, Len(b)}))
lai_mutate_buffer(n, x) ==
  CASE x.t = "buf" -> Buffer(Resized(x.v, n))
    [] x.t = "int" -> Buffer(Resized(LittleEndian(x.n), n))
    [] x.t = "str" -> Buffer(Resized(Append(x.v, NUL), n))
    [] OTHER -> Error

(* Bytes are separated by spaces here.                                     *)
lai_mutate_string(x) ==
  CASE x.t = "str" -> x
    [] x.t = "int" -> String(FullHex(x.n))
    [] x.t = "buf" -> String(Flatten([i \in 1..Len(x.v) |-> (IF i = 1 THEN <<>> ELSE <<SPACE>>) \o <<Char(0), LETTER_X>> \o TwoHex(x.v[i])]))
    [] OTHER -> Error

(* As many digits as there are, no prefix.                                 *)
Leading(s) == LET stop == {i \in 1..Len(s) : ~IsDigit(s[i], HEX)} IN SubSeq(s, 1, Min({Len(s), 2 * BYTES} \cup {i - 1 : i \in stop}))
lai_mutate_integer(x) ==
  CASE x.t = "int" -> x
    [] x.t = "str" -> Integer(Number(Leading(x.v), HEX))
    [] x.t = "buf" -> Integer(FromBytes(SubSeq(x.v, 1, Min({BYTES, Len(x.v)}))))
    [] OTHER -> Error

(***************************************************************************)
(* Comparison.                                                             *)
(***************************************************************************)
(* memcmp of the part both have.                                           *)
memcmp(a, b) ==
  LET n == Min({Len(a), Len(b)})
      differ == {i \in 1..n : a[i] # b[i]}
  IN  IF differ = {} THEN 0 ELSE IF a[Min(differ)] < b[Min(differ)] THEN -1 ELSE 1

MatchOps == {"MTR", "MEQ", "MLE", "MLT", "MGE", "MGT"}

(* The second object becomes one of the first one's type.  The mutant of   *)
(* Less leaves the lengths out.                                            *)
LessPrefix(a, b) == memcmp(a, b) < 0
Less(a, b) == IF memcmp(a, b) = 0 THEN Len(a) < Len(b) ELSE memcmp(a, b) < 0
Greater(a, b) == IF memcmp(a, b) = 0 THEN Len(a) > Len(b) ELSE memcmp(a, b) > 0
Compared(m, lt, eq, gt) ==
  CASE m = "MTR" -> TRUE [] m = "MEQ" -> eq [] m = "MLE" -> ~gt [] m = "MLT" -> lt [] m = "MGE" -> ~lt [] m = "MGT" -> gt
lai_obj_exec_match_op(m, x, y) ==
  LET z == CASE x.t = "int" -> lai_obj_to_integer(y) [] x.t = "buf" -> lai_obj_to_buffer(y)
             [] x.t = "str" -> lai_obj_to_hex_string(y) [] OTHER -> Error
  IN  IF z = Error THEN Error
      ELSE IF x.t = "int" THEN [t |-> "bool", v |-> Compared(m, x.n < z.n, x.n = z.n, x.n > z.n)]
      ELSE [t |-> "bool", v |-> Compared(m, Less(x.v, z.v), memcmp(x.v, z.v) = 0 /\ Len(x.v) = Len(z.v), Greater(x.v, z.v))]

-----------------------------------------------------------------------------
(***************************************************************************)
(* The operators.  ToX panics on Error, the others return it.              *)
(***************************************************************************)
TypeName == <<BRACKET, BRACKET>>        \* "[Package Object]"
Named(x) == IF x = Package THEN String(TypeName) ELSE x

(* Of the second buffer as many bytes are copied as the first one has.     *)
Joined(a, b) == a \o Resized(SubSeq(b, 1, Min({Len(a), Len(b)})), Len(b))
CONCAT_OP(x, y) ==
  LET a == Named(x)  b == Named(y)
  IN  CASE a.t = "int" -> Buffer(LittleEndian(a.n) \o LittleEndian(lai_mutate_integer(b).n))
        [] a.t = "buf" -> Buffer(Joined(a.v, CASE b.t = "str" -> lai_mutate_buffer(Len(b.v) + 1, b).v
                                               [] b.t = "int" -> lai_mutate_buffer(BYTES, b).v [] OTHER -> b.v))
        [] a.t = "str" -> String(a.v \o lai_mutate_string(b).v)

(* The sum of index and length is a word.                                  *)
MidLength(len, n, sz) == IF n >= len THEN 0 ELSE IF (n + sz) % Word > len THEN len - n ELSE sz

(* memcpy of more than there is gives what is behind it.                   *)
MID_OP(x, n, sz) ==
  LET l == MidLength(Len(x.v), n, sz)
  IN  [x EXCEPT !.v = IF l = 0 THEN <<>> ELSE [i \in 1..l |-> IF n + i <= Len(x.v) THEN x.v[n + i] ELSE BRACKET]]

(* The templates without their end tags (two bytes), and a new one.        *)
Untagged(b) == IF b = <<>> THEN <<>> ELSE Without(b, 2)
SumBytes(b) == FoldLeft(LAMBDA n, c : (n + c) % BYTE, 0, b)
Checksum(b) == (BYTE - SumBytes(b)) % BYTE
CONCATRES_OP(x, y) ==
  LET body == Untagged(x.v) \o Untagged(y.v) \o <<END_TAG>>
  IN  IF Len(x.v) = 1 \/ Len(y.v) = 1 THEN Error ELSE Buffer(Append(body, Checksum(body)))

(* The first element from start on that both conditions hold for, all ones *)
(* if there is none.                                                       *)
Both(a, b) == a /\ b
MATCH_OP(p, m1, x, m2, y, start) ==
  LET a(i) == lai_obj_exec_match_op(m1, p[i], x)
      b(i) == lai_obj_exec_match_op(m2, p[i], y)
      fails == {i \in (start + 1)..Len(p) : a(i) = Error \/ b(i) = Error}
      found == {i \in ((start + 1)..Len(p)) \ fails : Both(a(i).v, b(i).v)}
      first == Min(found \cup fails)
  IN  IF found \cup fails = {} THEN Integer(Ones) ELSE IF first \in fails THEN Error ELSE Integer(first - 1)

-----------------------------------------------------------------------------
ConvInit == value \in Values /\ from = value /\ op = "load" /\ arg = <<>>

(* The operator applied to what was loaded.                                *)
Apply(name, args, result) ==
  /\ op = "load"
  /\ op' = name /\ arg' = args /\ value' = result /\ from' = value

(* The next operator takes the operand again.                              *)
Load == op # "load" /\ value' = from /\ op' = "load" /\ arg' = <<>> /\ UNCHANGED from

ToBuffer == Apply("buffer", <<>>, lai_obj_to_buffer(value))
ToDecimalString == Apply("decimal", <<>>, lai_obj_to_decimal_string(value))
ToHexString == Apply("hex", <<>>, lai_obj_to_hex_string(value))
ToInteger == Apply("integer", <<>>, lai_obj_to_integer(value))
ToStringOp == \E size \in 0..3 \cup {Ones} : Apply("string", <<size>>, lai_obj_to_string(value, size))

(* Store(value, x) with a buffer of n bytes, a string or an integer in x.  *)
StoreBuffer == \E n \in 0..(BYTES + 1) : Apply("store buffer", <<n>>, lai_mutate_buffer(n, value))
StoreString == Apply("store string", <<>>, lai_mutate_string(value))
StoreInteger == Apply("store integer", <<>>, lai_mutate_integer(value))

Concat == \E y \in Others : Apply("concat", <<y>>, CONCAT_OP(value, y))
Mid ==
  /\ value.t \in {"str", "buf"}
  /\ \E n \in 0..4, sz \in 0..4 \cup {Ones} : Apply("mid", <<n, sz>>, MID_OP(value, n, sz))
ConcatRes == value.t = "buf" /\ \E y \in Others : y.t = "buf" /\ Apply("concatres", <<y>>, CONCATRES_OP(value, y))

(* LEqual, LLess and LGreater.                                             *)
AllOnes(c) == IF c = Error THEN Error ELSE Integer(IF c.v THEN Ones ELSE 0)
Compare ==
  \E m \in {"MEQ", "MLT", "MGT"}, y \in Others : Apply("compare", <<m, y>>, AllOnes(lai_obj_exec_match_op(m, value, y)))

(* Match in a package of the value between two others.                     *)
Elements(x, y) == <<y, x, y>>
Match ==
  /\ value \in Others
  /\ \E m1, m2 \in MatchOps, y \in Others, start \in 0..3 :
       Apply("match", <<m1, m2, y, start>>, MATCH_OP(Elements(value, y), m1, y, m2, value, start))

ConvNext ==
  \/ Load \/ ToBuffer \/ ToDecimalString \/ ToHexString \/ ToInteger \/ ToStringOp
  \/ StoreBuffer \/ StoreString \/ StoreInteger \/ Concat \/ Mid \/ ConcatRes \/ Compare \/ Match

ConvSpec == ConvInit /\ [][ConvNext]_convVars

-----------------------------------------------------------------------------
(* A result is an error or a value: strings have no NUL and integers fit   *)
(* their width.                                                            *)
ConvTypeOK == value = Error \/ IsValue(value)

(* Numbers are written the way they are read: an integer comes back from   *)
(* its decimal string, from the string a store makes and from its bytes    *)
(* (num_fmt, lai_obj_to_integer, lai_mutate_integer).                      *)
IntegersReadBack ==
  from.t = "int" =>
    /\ op = "decimal" => lai_obj_to_integer(value) = from
    /\ op = "store string" => lai_mutate_integer(value) = from
    /\ op = "buffer" => lai_obj_to_integer(value) = from
    /\ op = "store buffer" => lai_mutate_integer(value) = Integer(from.n % BYTE ^ arg[1])

(* The hexadecimal string of a buffer has every byte of it, and a string   *)
(* comes back from its buffer (lai_obj_to_hex_string, lai_obj_to_string).  *)
BytesReadBack ==
  /\ op = "hex" /\ from.t = "buf" =>
       \A i \in 1..Len(from.v) : lai_obj_to_integer(String(SubSeq(value.v, 5 * i - 4, 5 * i - 1))) = Integer(from.v[i])
  /\ op = "buffer" /\ from.t = "str" => lai_obj_to_string(value, Ones) = from

(* Integers are compared as numbers, strings and buffers as words in a     *)
(* dictionary, a prefix before the longer one (lai_obj_exec_match_op).     *)
Before(x, y) ==
  IF x.t = "int" THEN x.n < y.n
  ELSE LET a == x.v  b == y.v
       IN  \E n \in 0..Len(a) : /\ n < Len(b) /\ SubSeq(a, 1, n) = SubSeq(b, 1, n)
                                /\ n < Len(a) => a[n + 1] < b[n + 1]
Holds(m, x, y) == Compared(m, Before(x, y), x = y, Before(y, x))
Comparable(x, y) == x.t = y.t /\ x.t # "pkg"
Ordered ==
  op = "compare" /\ Comparable(from, arg[2]) =>
    value = Integer(IF Holds(arg[1], from, arg[2]) THEN Ones ELSE 0)

(* Match gives the first index from the start on at which both comparisons *)
(* hold in that order, all ones if there is none (MATCH_OP).               *)
MatchFirst ==
  op = "match" /\ Comparable(from, arg[3]) =>
    LET e == Elements(from, arg[3])
        hits == {i \in arg[4]..2 : Holds(arg[1], e[i + 1], arg[3]) /\ Holds(arg[2], e[i + 1], from)}
    IN  value = Integer(IF hits = {} THEN Ones ELSE Min(hits))

(* Two templates make one: it ends with an end tag and its bytes add up to *)
(* 0 (CONCATRES_OP).                                                       *)
TemplateSound ==
  op = "concatres" /\ value # Error => value.v[Len(value.v) - 1] = END_TAG /\ SumBytes(value.v) = 0

(* The part from index n on, at most sz long (MID_OP), as long as n + sz   *)
(* is a word.                                                              *)
Part(x, n, sz) == [x EXCEPT !.v = SubSeq(x.v, n + 1, Min({n + sz, Len(x.v)}))]
MidInside == op = "mid" /\ arg[1] + arg[2] < Word => value = Part(from, arg[1], arg[2])

(***************************************************************************)
(* Conversions, comparisons and searches are correct: numbers and bytes    *)
(* come back from their strings and buffers, comparisons are those of the  *)
(* order, Match, Mid and ConcatenateResTemplate give what their references *)
(* define.                                                                 *)
(***************************************************************************)
ConversionsCorrect ==
  ConvTypeOK /\ IntegersReadBack /\ BytesReadBack /\ Ordered /\ MatchFirst /\ TemplateSound /\ MidInside
=============================================================================

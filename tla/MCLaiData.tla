----------------------------- MODULE MCLaiData -----------------------------
(***************************************************************************)
(* The data of the interpreter on small instances: fields of regions and   *)
(* buffers, objects with their references, and conversions.  As in         *)
(* MCDrivers one of them runs in each behaviour (part); the others stay in *)
(* an initial state of theirs.                                             *)
(***************************************************************************)
EXTENDS LaiOpregion, LaiRefs, LaiConvert

VARIABLE part

vars == <<part, regionVars, refVars, convVars>>

-----------------------------------------------------------------------------
(* Fields with bytes of two bits and integers of eight.  No unit of a      *)
(* field is as wide as an integer.                                         *)
Make(kind, space, access, rule, o, n, bank) ==
  [kind |-> kind, space |-> space, offset |-> o, size |-> n, access |-> access, rule |-> rule, bank |-> bank]
Narrow(f) ==
  ~ (/\ lai_calculate_access_width(f) = INT /\ f.size + (f.offset % INT) >= INT
     /\ f.offset % INT = 0 \/ (f.offset + f.size) \div INT > (f.offset \div INT) + 1)

MCFields ==
  {f \in {Make("field", space, access, rule, o, n, 0) : space \in {"io", "memory"}, access \in AccessTypes, rule \in Rules, o \in 0..5, n \in {1, 3, 4, 8, 10}} : Narrow(f)}
    \cup {Make("bank", "override", access, "preserve", o, n, bank) : access \in {"any", "byte"}, o \in {0, 3}, n \in {1, 5, 9}, bank \in Banks}
    \cup {Make("index", "io", "byte", rule, o, n, 0) : rule \in Rules, o \in {0, 3}, n \in {1, 2, 5, 9}}
    \cup {Make("buffer", "none", "byte", "preserve", o, n, 0) : o \in {0, 2, 4}, n \in 1..INT}

MCContents == {{b \in 0..(REGION - 1) : b % 2 = 1}, {0, 3, 4, 7, 9, 10, 12}}
MCSources == {[bits |-> {1, 2, 4, 7, 8, 9}, len |-> 10], [bits |-> {}, len |-> 10]}

(* The hypothesis of the theorems about fields holds of this instance.     *)
ASSUME SupportedFields == Supported

-----------------------------------------------------------------------------
(* Objects are told apart by nothing but who refers to them, so states     *)
(* that differ in the places of objects only are the same: the choice of a *)
(* place for a new object follows the permutation.                         *)
Symmetry == Permutations(Ids)

-----------------------------------------------------------------------------
(* All integers of eight bits, and short strings and buffers with the      *)
(* characters and bytes that are at a boundary.                            *)
Words(S, n) == UNION {[1..k -> S] : k \in 0..n}
Chars == {COMMA, Char(0), Char(DEC - 1), Char(HEX - 1), LETTER_X}
Bytes == {0, 1, DEC * DEC - 1, DEC * DEC, BYTE - 1}

MCValues ==
  {Integer(i) : i \in 0..(BYTE ^ BYTES - 1)} \cup {String(s) : s \in Words(Chars, 2) \cup {<<Char(0), LETTER_X>> \o s : s \in Words(Chars, 2)}}
    \cup {Buffer(b) : b \in Words(Bytes, 2) \cup Words({0, BYTE - 1}, 3)} \cup {Package}
MCOthers ==
  {Integer(i) : i \in {0, DEC, BYTE ^ BYTES - 1}} \cup {String(s) : s \in Words({Char(0), Char(HEX - 1)}, 2)}
    \cup {Buffer(b) : b \in Words({0, BYTE - 1}, 2)} \cup {Package}

-----------------------------------------------------------------------------
Init ==
  /\ part \in {"region", "refs", "convert"}
  /\ part = "region" \/ regionField = Make("field", "io", "byte", "preserve", 0, 1, 0)
  /\ part = "convert" \/ value = Package
  /\ RegionInit /\ RefInit /\ ConvInit
  /\ part = "region" \/ files[0] = {0, 3, 4, 7, 9, 10, 12}

Next ==
  \/ part = "region" /\ RegionNext /\ UNCHANGED <<part, refVars, convVars>>
  \/ part = "refs" /\ RefNext /\ UNCHANGED <<part, regionVars, convVars>>
  \/ part = "convert" /\ ConvNext /\ UNCHANGED <<part, regionVars, refVars>>

Spec == Init /\ [][Next]_vars
=============================================================================

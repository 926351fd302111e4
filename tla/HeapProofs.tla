---------------------------- MODULE HeapProofs ----------------------------
(***************************************************************************)
(* Proofs about the kernel heap, for every page size, heap size, set of    *)
(* request sizes and bound: the heap of kernel/mem/heap.c stays a sequence *)
(* of blocks with an index of its holes, and implements the block          *)
(* allocator, as long as its callers follow the rule "safe" in a heap that *)
(* is used below HEAP_MIN_SIZE, or free nothing (then it may grow).        *)
(*                                                                         *)
(* The induction is about a set B of block starts, tied to the memory by   *)
(* Sound.  An operation is proved sound by exhibiting the next B: kmalloc  *)
(* splits one element of it, kfree joins up to three.  Walking the headers *)
(* (Starts) gives the same set back, so the invariant is about memory      *)
(* only.                                                                   *)
(***************************************************************************)
EXTENDS Heap, ArithmeticLemmas, SequenceTheorems
-----------------------------------------------------------------------------
(***************************************************************************)
(* The ordered array.                                                      *)
(***************************************************************************)
\* idx lists the elements of S, each exactly once.
Lists(idx, S) ==
  /\ idx \in Seq(Int)
  /\ S = {idx[i] : i \in 1 .. Len(idx)}
  /\ \A i, j \in 1 .. Len(idx) : idx[i] = idx[j] => i = j

\* InsertPosition is one of the positions 1 .. Len(idx) + 1 of the array.
LEMMA InsertPositionSound ==
  ASSUME NEW key, NEW idx \in Seq(Int), NEW item,
         key[item] \in Int, \A i \in 1 .. Len(idx) : key[idx[i]] \in Int
  PROVE  InsertPosition(key, idx, item) \in 1 .. Len(idx) + 1
PROOF
  <1> DEFINE T == {i \in 1 .. Len(idx) : key[idx[i]] >= key[item]}
             P(i) == /\ \A j \in 1 .. i - 1 : key[idx[j]] < key[item]
                     /\ i <= Len(idx) => key[idx[i]] >= key[item]
  <1>1. Len(idx) \in Nat
    OBVIOUS
  <1>2. \E i \in 1 .. Len(idx) + 1 : P(i)
    <2>1. CASE T = {}
      <3>1. \A j \in 1 .. Len(idx) : key[idx[j]] < key[item]
        BY <2>1
      <3>2. P(Len(idx) + 1)
        BY <1>1, <3>1
      <3>3. QED
        BY <1>1, <3>2
    <2>2. CASE T # {}
      <3>1. PICK i \in T : \A j \in T : i <= j
        <4>1. T \subseteq Nat
          BY <1>1
        <4> HIDE DEF T
        <4> QED
          BY <2>2, <4>1, LeastElement
      <3>2. P(i)
        BY <1>1, <3>1
      <3>3. QED
        BY <1>1, <3>2
    <2>3. QED
      BY <2>1, <2>2
  <1> HIDE DEF P, T
  <1>3. InsertPosition(key, idx, item) = CHOOSE i \in 1 .. Len(idx) + 1 : P(i)
    BY DEF InsertPosition, P
  <1>4. QED
    BY <1>2, <1>3, Zenon

\* The two halves an array is cut into at p have its cells.
LEMMA CutCells ==
  ASSUME NEW idx \in Seq(Int), NEW p \in Int, NEW q \in Int, 1 <= p, q <= Len(idx), p <= q + 1
  PROVE  /\ SubSeq(idx, p, q) \in Seq(Int)
         /\ Len(SubSeq(idx, p, q)) = (q - p) + 1
         /\ \A i \in 1 .. (q - p) + 1 : SubSeq(idx, p, q)[i] = idx[(p + i) - 1]
PROOF
  <1> DEFINE n == Len(idx)
             s == SubSeq(idx, p, q)
  <1>1. n \in Nat /\ q <= n
    OBVIOUS
  <1>2. \A i \in p .. q : idx[i] \in Int
    OBVIOUS
  <1>3. /\ s \in Seq(Int)
        /\ Len(s) = IF p <= q THEN q-p+1 ELSE 0
        /\ \A i \in 1 .. q-p+1 : s[i] = idx[p+i-1]
    BY <1>2, SubSeqProperties
  <1> HIDE DEF n, s
  <1>4. Len(s) = (q - p) + 1
    BY ONLY <1>3, p \in Int, q \in Int, p <= q + 1
  <1>5. \A i \in 1 .. (q - p) + 1 : i \in 1 .. q-p+1 /\ p+i-1 = (p + i) - 1
    BY ONLY p \in Int, q \in Int, p <= q + 1
  <1>6. \A i \in 1 .. (q - p) + 1 : s[i] = idx[(p + i) - 1]
    BY ONLY <1>3, <1>5
  <1>7. QED
    BY <1>3, <1>4, <1>6 DEF s

\* idx with item put before position p.
InsertedAt(idx, p, item) == SubSeq(idx, 1, p - 1) \o <<item>> \o SubSeq(idx, p, Len(idx))

\* Cell by cell: r is an array of n cells with item put before position p.
Inserted(r, idx, n, p, item) ==
  /\ r \in Seq(Int)
  /\ Len(r) = n + 1
  /\ \A i \in 1 .. n + 1 :
       r[i] = IF i < p THEN idx[i] ELSE IF i = p THEN item ELSE idx[i - 1]

\* InsertedAt makes just that array.
LEMMA InsertedCells ==
  ASSUME NEW idx \in Seq(Int), NEW item \in Int, NEW n \in Nat, n = Len(idx), NEW p \in 1 .. n + 1,
         NEW r, r = InsertedAt(idx, p, item)
  PROVE  Inserted(r, idx, n, p, item)
PROOF
  <1> DEFINE l == SubSeq(idx, 1, p - 1)
             u == SubSeq(idx, p, Len(idx))
             x == <<item>>
             q == l \o x
  <1>1. l \in Seq(Int) /\ Len(l) = ((p - 1) - 1) + 1 /\ \A i \in 1 .. ((p - 1) - 1) + 1 : l[i] = idx[(1 + i) - 1]
    BY CutCells
  <1>2. u \in Seq(Int) /\ Len(u) = (n - p) + 1
        /\ \A i \in 1 .. (n - p) + 1 : u[i] = idx[(p + i) - 1]
    BY CutCells
  <1>3. x \in Seq(Int) /\ Len(x) = 1 /\ x[1] = item
    OBVIOUS
  <1>4. r = q \o u
    BY DEF InsertedAt
  <1> HIDE DEF l, u, x
  <1>5. q \in Seq(Int) /\ Len(q) = Len(l) + Len(x)
        /\ \A i \in 1 .. Len(l) + Len(x) : q[i] = IF i <= Len(l) THEN l[i] ELSE x[i - Len(l)]
    BY <1>1, <1>3, ConcatProperties
  <1> HIDE DEF q
  <1>6. Len(q) = p /\ \A i \in 1 .. p : q[i] = IF i < p THEN idx[i] ELSE item
    <2>1. Len(l) = p - 1 /\ \A i \in 1 .. p - 1 : l[i] = idx[i]
      <3>1. \A i \in 1 .. p - 1 : i \in 1 .. ((p - 1) - 1) + 1 /\ (1 + i) - 1 = i
        BY ONLY p \in 1 .. n + 1, n \in Nat
      <3>2. QED
        BY ONLY <1>1, <3>1, p \in 1 .. n + 1, n \in Nat
    <2>2. Len(q) = p
      BY ONLY <1>3, <1>5, <2>1, p \in 1 .. n + 1, n \in Nat
    <2>3. ASSUME NEW i \in 1 .. p PROVE q[i] = IF i < p THEN idx[i] ELSE item
      <3>1. CASE i < p
        <4>1. i \in 1 .. Len(l) + Len(x) /\ i <= Len(l) /\ i \in 1 .. p - 1
          BY ONLY <1>3, <2>1, <3>1, p \in 1 .. n + 1, n \in Nat, i \in 1 .. p
        <4>2. QED
          BY ONLY <1>5, <2>1, <3>1, <4>1
      <3>2. CASE ~(i < p)
        <4>1. i \in 1 .. Len(l) + Len(x) /\ ~(i <= Len(l)) /\ i - Len(l) = 1
          BY ONLY <1>3, <2>1, <3>2, p \in 1 .. n + 1, n \in Nat, i \in 1 .. p
        <4>2. QED
          BY ONLY <1>3, <1>5, <3>2, <4>1
      <3>3. QED
        BY <3>1, <3>2
    <2>4. QED
      BY <2>2, <2>3
  <1>7. /\ r \in Seq(Int) /\ Len(r) = Len(q) + Len(u)
        /\ \A i \in 1 .. Len(q) + Len(u) : r[i] = IF i <= Len(q) THEN q[i] ELSE u[i - Len(q)]
    <2>1. q \in Seq(Int) /\ u \in Seq(Int)
      BY <1>2, <1>5
    <2>2. /\ q \o u \in Seq(Int) /\ Len(q \o u) = Len(q) + Len(u)
          /\ \A i \in 1 .. Len(q) + Len(u) : (q \o u)[i] = IF i <= Len(q) THEN q[i] ELSE u[i - Len(q)]
      BY ONLY <2>1, ConcatProperties
    <2>3. QED
      BY ONLY <1>4, <2>2
  <1>8. Len(q) + Len(u) = n + 1
    BY ONLY <1>2, <1>6, p \in 1 .. n + 1, n \in Nat
  <1>9. ASSUME NEW i \in 1 .. n + 1
        PROVE  r[i] = IF i < p THEN idx[i] ELSE IF i = p THEN item ELSE idx[i - 1]
    <2>1. CASE i <= p
      BY ONLY <1>6, <1>7, <1>8, <2>1, p \in 1 .. n + 1, n \in Nat, i \in 1 .. n + 1
    <2>2. CASE ~(i <= p)
      <3>1. i - p \in 1 .. (n - p) + 1 /\ (p + (i - p)) - 1 = i - 1 /\ ~(i <= Len(q)) /\ Len(q) = p
            /\ ~(i < p) /\ i # p
        BY ONLY <1>6, <2>2, p \in 1 .. n + 1, n \in Nat, i \in 1 .. n + 1
      <3>2. r[i] = u[i - p]
        BY ONLY <1>7, <1>8, <3>1, i \in 1 .. n + 1
      <3>3. u[i - p] = idx[i - 1]
        BY ONLY <1>2, <3>1
      <3>4. QED
        BY <3>1, <3>2, <3>3
    <2>3. QED
      BY <2>1, <2>2
  <1>10. QED
    BY <1>7, <1>8, <1>9 DEF Inserted

\* ArrayInsert of ordered.c adds its item to what an array lists.
LEMMA ArrayInsertLists ==
  ASSUME NEW key, NEW idx, NEW item \in Int, NEW S, Lists(idx, S), item \notin S,
         key[item] \in Int, \A x \in S : key[x] \in Int
  PROVE  Lists(ArrayInsert(key, idx, item), S \cup {item})
PROOF
  <1> DEFINE p == InsertPosition(key, idx, item)
             r == ArrayInsert(key, idx, item)
             n == Len(idx)
  <1>1. idx \in Seq(Int) /\ n \in Nat
    BY DEF Lists
  <1>2. \A i \in 1 .. n : idx[i] \in S
    BY DEF Lists
  <1>3. p \in 1 .. n + 1
    BY <1>1, <1>2, InsertPositionSound
  <1>4. r = InsertedAt(idx, p, item)
    BY DEF ArrayInsert, InsertedAt
  <1>5. n = Len(idx)
    OBVIOUS
  <1>6. \A k, l \in 1 .. n : idx[k] = idx[l] => k = l
    BY DEF Lists
  <1>7. \A x \in S : \E i \in 1 .. n : idx[i] = x
    BY DEF Lists
  <1> HIDE DEF p, r, n
  <1>8. /\ r \in Seq(Int)
        /\ Len(r) = n + 1
        /\ \A i \in 1 .. n + 1 :
              r[i] = IF i < p THEN idx[i] ELSE IF i = p THEN item ELSE idx[i - 1]
    <2>1. Inserted(r, idx, n, p, item)
      BY ONLY <1>1, <1>3, <1>4, <1>5, item \in Int, InsertedCells
    <2>2. QED
      BY <2>1 DEF Inserted
  <1>9. \A i \in 1 .. n + 1 :
              r[i] = IF i < p THEN idx[i] ELSE IF i = p THEN item ELSE idx[i - 1]
    BY <1>8
  <1>10. \A i \in 1 .. n + 1 : r[i] \in S \cup {item}
    BY ONLY <1>1, <1>2, <1>3, <1>9
  <1>11. ASSUME NEW x \in S \cup {item} PROVE \E i \in 1 .. n + 1 : r[i] = x
    <2>1. CASE x = item
      <3>1. p \in 1 .. n + 1 /\ r[p] = item
        BY ONLY <1>1, <1>3, <1>9
      <3>2. QED
        BY <2>1, <3>1
    <2>2. CASE x \in S
      <3>1. PICK i \in 1 .. n : idx[i] = x
        BY <1>7, <2>2
      <3>2. CASE i < p
        BY ONLY <1>1, <1>3, <1>9, <3>1, <3>2, i \in 1 .. n
      <3>3. CASE i >= p
        <4>1. i + 1 \in 1 .. n + 1 /\ r[i + 1] = idx[(i + 1) - 1] /\ (i + 1) - 1 = i
          BY ONLY <1>1, <1>3, <1>9, <3>3, i \in 1 .. n
        <4>2. QED
          BY <3>1, <4>1
      <3>4. QED
        BY <1>1, <1>3, <3>2, <3>3
    <2>3. QED
      BY <2>1, <2>2
  <1>12. ASSUME NEW i \in 1 .. n + 1, NEW j \in 1 .. n + 1, r[i] = r[j] PROVE i = j
    <2>1. \A k \in 1 .. n : idx[k] # item
      BY <1>2
    <2>2. QED
      BY ONLY <1>1, <1>3, <1>9, <1>12, <1>6, <2>1
  <1>13. S \cup {item} = {r[i] : i \in 1 .. Len(r)}
    BY <1>8, <1>10, <1>11
  <1>14. QED
    BY <1>8, <1>12, <1>13 DEF Lists, r

\* ArrayRemove of ordered.c takes the item at p out of what an array lists.
LEMMA ArrayRemoveLists ==
  ASSUME NEW idx, NEW S, Lists(idx, S), NEW p \in 1 .. Len(idx)
  PROVE  Lists(ArrayRemove(idx, p), S \ {idx[p]})
PROOF
  <1> DEFINE l == SubSeq(idx, 1, p - 1)
             u == SubSeq(idx, p + 1, Len(idx))
             r == ArrayRemove(idx, p)
             n == Len(idx)
  <1>1. idx \in Seq(Int) /\ n \in Nat /\ p \in 1 .. n
    BY DEF Lists
  <1>2. l \in Seq(Int) /\ Len(l) = ((p - 1) - 1) + 1 /\ \A i \in 1 .. ((p - 1) - 1) + 1 : l[i] = idx[(1 + i) - 1]
    BY <1>1, CutCells
  <1>3. u \in Seq(Int) /\ Len(u) = (n - (p + 1)) + 1
        /\ \A i \in 1 .. (n - (p + 1)) + 1 : u[i] = idx[((p + 1) + i) - 1]
    BY <1>1, CutCells
  <1>4. r = l \o u
    <2>1. p <= Len(idx)
      BY <1>1
    <2>2. QED
      BY <2>1, Zenon DEF ArrayRemove
  <1>5. \A i, j \in 1 .. n : idx[i] = idx[j] => i = j
    BY DEF Lists
  <1>6. \A i \in 1 .. n : idx[i] \in S
    BY DEF Lists
  <1>7. \A x \in S : \E i \in 1 .. n : idx[i] = x
    BY DEF Lists
  <1> HIDE DEF l, u, r, n
  <1>8. /\ r \in Seq(Int) /\ Len(r) = Len(l) + Len(u)
        /\ \A i \in 1 .. Len(l) + Len(u) : r[i] = IF i <= Len(l) THEN l[i] ELSE u[i - Len(l)]
    BY <1>2, <1>3, <1>4, ConcatProperties
  <1>9. Len(l) = p - 1 /\ Len(u) = n - p /\ Len(r) = n - 1
    BY ONLY <1>2, <1>3, <1>8, <1>1
  <1>10. ASSUME NEW i \in 1 .. n - 1 PROVE r[i] = IF i < p THEN idx[i] ELSE idx[i + 1]
    <2>1. CASE i < p
      <3>1. i \in 1 .. Len(l) + Len(u) /\ i <= Len(l) /\ i \in 1 .. ((p - 1) - 1) + 1 /\ (1 + i) - 1 = i
        BY ONLY <1>1, <1>9, <2>1, i \in 1 .. n - 1
      <3>2. QED
        BY ONLY <1>2, <1>8, <2>1, <3>1
    <2>2. CASE ~(i < p)
      <3>1. i \in 1 .. Len(l) + Len(u) /\ ~(i <= Len(l)) /\ i - Len(l) \in 1 .. (n - (p + 1)) + 1
            /\ ((p + 1) + (i - Len(l))) - 1 = i + 1
        BY ONLY <1>1, <1>9, <2>2, i \in 1 .. n - 1
      <3>2. QED
        BY ONLY <1>3, <1>8, <2>2, <3>1
    <2>3. QED
      BY <2>1, <2>2
  <1>11. ASSUME NEW i \in 1 .. n - 1 PROVE r[i] \in S /\ r[i] # idx[p]
    <2>1. i \in 1 .. n /\ i + 1 \in 1 .. n /\ p \in 1 .. n /\ (i < p => i # p) /\ (~(i < p) => i + 1 # p)
      BY ONLY <1>1, i \in 1 .. n - 1
    <2>2. QED
      BY ONLY <1>10, <1>5, <1>6, <2>1, i \in 1 .. n - 1
  <1>12. ASSUME NEW x \in S, x # idx[p] PROVE \E i \in 1 .. n - 1 : r[i] = x
    <2>1. PICK i \in 1 .. n : idx[i] = x
      BY <1>7
    <2>2. CASE i < p
      BY ONLY <1>1, <1>10, <2>1, <2>2, i \in 1 .. n
    <2>3. CASE i > p
      <3>1. i - 1 \in 1 .. n - 1 /\ r[i - 1] = idx[(i - 1) + 1] /\ (i - 1) + 1 = i
        BY ONLY <1>1, <1>10, <2>3, i \in 1 .. n
      <3>2. QED
        BY <2>1, <3>1
    <2>4. i # p
      BY <1>12, <2>1
    <2>5. QED
      BY <1>1, <2>2, <2>3, <2>4
  <1>13. S \ {idx[p]} = {r[i] : i \in 1 .. Len(r)}
    BY <1>11, <1>12, <1>9
  <1>14. \A i, j \in 1 .. n - 1 : r[i] = r[j] => i = j
    BY ONLY <1>1, <1>10, <1>5
  <1>15. QED
    BY <1>8, <1>9, <1>13, <1>14 DEF Lists, r

\* The search loop of HeapFree finds an item that is listed.
LEMMA PositionOfListed ==
  ASSUME NEW idx, NEW S, Lists(idx, S), NEW x \in S
  PROVE  PositionOf(idx, x) \in 1 .. Len(idx) /\ idx[PositionOf(idx, x)] = x
PROOF
  <1> DEFINE P(i) == idx[i] = x /\ \A j \in 1 .. i - 1 : idx[j] # x
  <1>1. idx \in Seq(Int) /\ Len(idx) \in Nat
    BY DEF Lists
  <1>2. PICK i \in 1 .. Len(idx) : idx[i] = x
    BY DEF Lists
  <1>3. P(i)
    BY <1>1, <1>2 DEF Lists
  <1>4. PositionOf(idx, x) = CHOOSE k \in 1 .. Len(idx) : P(k)
    BY <1>2 DEF PositionOf
  <1>5. \E k \in 1 .. Len(idx) : P(k)
    BY <1>3
  <1>6. P(CHOOSE k \in 1 .. Len(idx) : P(k)) /\ (CHOOSE k \in 1 .. Len(idx) : P(k)) \in 1 .. Len(idx)
    <2> HIDE DEF P
    <2> QED
      BY <1>5, Zenon
  <1>7. QED
    BY <1>4, <1>6

-----------------------------------------------------------------------------
(***************************************************************************)
(* The walk over the headers.                                              *)
(***************************************************************************)
\* The blocks B, each as long as its header says, cover 0 .. e - 1 without gap
\* or overlap.
Tiled(m, e, B) ==
  /\ e \in Nat
  /\ B \subseteq 0 .. e - 1
  /\ 0 \in B
  /\ \A a \in B : m[a].word \in Int /\ m[a].word >= 2 /\ a + m[a].word \in B \cup {e}
  /\ \A a, b \in B : a < b => a + m[a].word <= b

\* Every block of a tiled heap ends inside it, at a block or at its end.
LEMMA TiledFacts ==
  ASSUME NEW m, NEW e, NEW B, Tiled(m, e, B)
  PROVE  /\ e \in Nat /\ e > 0 /\ 0 \in B
         /\ \A b \in B : /\ b \in Nat /\ b < e
                       /\ m[b].word \in Int /\ m[b].word >= 2
                       /\ b + m[b].word \in B \cup {e}
                       /\ b + m[b].word <= e
PROOF
  <1>1. e \in Nat /\ 0 \in B /\ B \subseteq 0 .. e - 1
    BY DEF Tiled
  <1>2. \A b \in B : b \in Nat /\ b < e
    BY <1>1
  <1>3. \A b \in B : m[b].word \in Int /\ m[b].word >= 2 /\ b + m[b].word \in B \cup {e}
    BY DEF Tiled
  <1>4. QED
    BY <1>1, <1>2, <1>3

\* A block that is not the first, and the end of the heap, has a block that
\* ends there.
LEMMA BlockBefore ==
  ASSUME NEW m, NEW e, NEW B, Tiled(m, e, B), NEW a \in B \cup {e}, a # 0
  PROVE  \E p \in B : p + m[p].word = a /\ p < a
PROOF
  <1> DEFINE T == {p \in B : p < a}
  <1>1. e \in Nat /\ B \subseteq Nat /\ a \in Nat /\ \A b \in B : b < e
    <2>1. e \in Nat /\ \A b \in B : b \in Nat /\ b < e
      BY TiledFacts
    <2>2. QED
      BY <2>1
  <1>2. T \subseteq 0 .. a /\ T # {}
    <2>1. 0 \in T
      BY <1>1 DEF Tiled
    <2>2. \A t \in T : t \in Nat /\ t < a
      BY <1>1
    <2>3. \A t \in T : t \in 0 .. a
      BY <1>1, <2>2
    <2>4. QED
      BY <2>1, <2>3
  <1>3. PICK p \in T : \A q \in T : q <= p
    <2> HIDE DEF T
    <2> QED
      BY <1>1, <1>2, GreatestElement
  <1>4. /\ m[p].word \in Int /\ m[p].word >= 2 /\ p + m[p].word \in B \cup {e} /\ p + m[p].word <= a
    BY <1>1 DEF Tiled
  <1>5. ~(p + m[p].word < a)
    <2>1. SUFFICES ASSUME p + m[p].word < a PROVE FALSE
      OBVIOUS
    <2>2. p + m[p].word \in B
      BY <1>1, <1>4, <2>1
    <2>3. p + m[p].word \in T
      BY <2>1, <2>2
    <2>4. QED
      BY <1>1, <1>3, <1>4, <2>3
  <1>6. QED
    BY <1>1, <1>4, <1>5

\* One step of the walk.
Advance(m, e, a) == IF a < e THEN a + m[a].word ELSE a

\* f is the walk over the headers of m of at most k steps.
IsWalk(f, m, e, k) ==
  f = [n \in 0 .. k |-> IF n = 0 THEN 0 ELSE Advance(m, e, f[n - 1])]

\* The function Starts defines recursively obeys its recursion.
LEMMA WalkExists ==
  ASSUME NEW m, NEW e, NEW k \in Nat
  PROVE  \E f : IsWalk(f, m, e, k)
PROOF
  <1> DEFINE T == {i \in Nat : ~ \E f : IsWalk(f, m, e, i)}
  <1>1. SUFFICES ASSUME T # {} PROVE FALSE
    OBVIOUS
  <1>2. PICK j \in T : \A i \in T : j <= i
    <2>1. T \subseteq Nat
      OBVIOUS
    <2> HIDE DEF T
    <2> QED
      BY <1>1, <2>1, LeastElement
  <1>3. j \in Nat /\ ~ \E f : IsWalk(f, m, e, j)
    OBVIOUS
  <1>4. CASE j = 0
    <2> DEFINE f == [n \in 0 .. 0 |-> 0]
    <2>1. IsWalk(f, m, e, 0)
      <3>1. \A n \in 0 .. 0 : (IF n = 0 THEN 0 ELSE Advance(m, e, f[n - 1])) = 0
        OBVIOUS
      <3> HIDE DEF f
      <3>2. [n \in 0 .. 0 |-> IF n = 0 THEN 0 ELSE Advance(m, e, f[n - 1])] = [n \in 0 .. 0 |-> 0]
        BY <3>1
      <3>3. QED
        BY <3>2 DEF IsWalk, f
    <2>2. QED
      BY <1>3, <1>4, <2>1
  <1>5. CASE j # 0
    <2>1. j - 1 \in Nat /\ j - 1 \notin T
      BY <1>2, <1>3, <1>5
    <2>2. PICK f : IsWalk(f, m, e, j - 1)
      BY <2>1
    <2> DEFINE g == [n \in 0 .. j |-> IF n <= j - 1 THEN f[n] ELSE Advance(m, e, f[j - 1])]
    <2>3. \A n \in 0 .. j - 1 : g[n] = f[n]
      BY <1>3
    <2>4. \A n \in 0 .. j - 1 : f[n] = IF n = 0 THEN 0 ELSE Advance(m, e, f[n - 1])
      BY <2>2 DEF IsWalk
    <2>5. g[j] = Advance(m, e, f[j - 1])
      BY <1>3
    <2>6. \A n \in 0 .. j : g[n] = IF n = 0 THEN 0 ELSE Advance(m, e, g[n - 1])
      <3> TAKE n \in 0 .. j
      <3> HIDE DEF g
      <3>1. CASE n = 0
        BY <2>1, <2>3, <2>4, <3>1
      <3>2. CASE n # 0 /\ n <= j - 1
        <4>1. n \in 0 .. j - 1 /\ n - 1 \in 0 .. j - 1
          BY <1>3, <3>2
        <4>2. g[n] = f[n] /\ g[n - 1] = f[n - 1]
          BY <2>3, <4>1
        <4>3. QED
          BY <2>4, <3>2, <4>1, <4>2
      <3>3. CASE n = j
        <4>1. j - 1 \in 0 .. j - 1
          BY <2>1
        <4>2. g[j - 1] = f[j - 1]
          BY <2>3, <4>1
        <4>3. QED
          BY <1>5, <2>5, <3>3, <4>2
      <3>4. QED
        BY <1>3, <3>1, <3>2, <3>3
    <2>7. IsWalk(g, m, e, j)
      <3> DEFINE h == [n \in 0 .. j |-> IF n = 0 THEN 0 ELSE Advance(m, e, g[n - 1])]
      <3>1. DOMAIN g = 0 .. j /\ g = [n \in 0 .. j |-> g[n]]
        OBVIOUS
      <3> HIDE DEF g
      <3>2. [n \in 0 .. j |-> g[n]] = h
        BY <2>6
      <3>3. QED
        BY <3>1, <3>2, Zenon DEF IsWalk
    <2>8. QED
      BY <1>3, <2>7
  <1>6. QED
    BY <1>4, <1>5

\* Starts is what the walk visits.
LEMMA StartsWalked ==
  ASSUME end_address \in Nat
  PROVE  \E f : IsWalk(f, mem, end_address, end_address)
                /\ Starts = {f[n] : n \in 0 .. end_address}
PROOF
  <1> DEFINE W(f) == f = [n \in 0 .. end_address |->
                 IF n = 0 THEN 0 ELSE LET a == f[n - 1]
                     IN  IF a < end_address THEN a + mem[a].word ELSE a]
  <1>1. \E f : IsWalk(f, mem, end_address, end_address)
    BY WalkExists
  <1>2. \E f : W(f)
    BY <1>1, Zenon DEF IsWalk, Advance
  <1>3. W(CHOOSE f : W(f))
    <2> HIDE DEF W
    <2> QED
      BY <1>2, Zenon
  <1>4. IsWalk(CHOOSE f : W(f), mem, end_address, end_address)
    BY <1>3, Zenon DEF IsWalk, Advance
  <1>5. Starts = {(CHOOSE f : W(f))[n] : n \in 0 .. end_address}
    BY Zenon DEF Starts
  <1> HIDE DEF W
  <1>6. QED
    BY <1>4, <1>5, Zenon

\* The walk visits the blocks and the end of a tiled heap, and nothing else.
LEMMA WalkVisits ==
  ASSUME NEW m, NEW e, NEW B, Tiled(m, e, B), NEW f, IsWalk(f, m, e, e)
  PROVE  {f[n] : n \in 0 .. e} = B \cup {e}
PROOF
  <1>1. e \in Nat /\ B \subseteq 0 .. e - 1 /\ 0 \in B /\ e > 0
    BY DEF Tiled
  <1>2. f[0] = 0
    BY <1>1 DEF IsWalk
  <1>3. \A n \in 0 .. e : n # 0 => f[n] = IF f[n - 1] < e THEN f[n - 1] + m[f[n - 1]].word ELSE f[n - 1]
    BY <1>1 DEF IsWalk, Advance
  <1> DEFINE P(n) == f[n] \in B \cup {e} /\ (f[n] >= n \/ f[n] = e)
             T == {n \in 0 .. e : ~P(n)}
  <1>4. T = {}
    <2>1. SUFFICES ASSUME T # {} PROVE FALSE
      OBVIOUS
    <2>2. PICK n \in T : \A i \in T : n <= i
      <3>1. T \subseteq Nat
        BY <1>1
      <3> HIDE DEF T
      <3> QED
        BY <2>1, <3>1, LeastElement
    <2>3. n # 0
      BY <1>1, <1>2
    <2>4. n \in 0 .. e /\ n - 1 \in 0 .. e /\ n - 1 < n
      BY <1>1, <2>3
    <2>5. P(n - 1)
      BY <1>1, <2>2, <2>4
    <2>6. P(n)
      <3>1. CASE f[n - 1] = e
        BY <1>1, <1>3, <2>3, <2>4, <3>1
      <3>2. CASE f[n - 1] \in B /\ f[n - 1] >= n - 1
        <4> DEFINE a == f[n - 1]
        <4>1. m[a].word \in Int /\ m[a].word >= 2 /\ a + m[a].word \in B \cup {e} /\ a \in 0 .. e - 1
          BY <3>2 DEF Tiled
        <4>2. f[n] = a + m[a].word
          BY <1>1, <1>3, <2>3, <2>4, <4>1
        <4> HIDE DEF a
        <4>3. a >= n - 1
          BY <3>2 DEF a
        <4>4. QED
          BY <1>1, <2>4, <4>1, <4>2, <4>3
      <3>3. QED
        BY <1>1, <2>5, <3>1, <3>2
    <2>7. QED
      BY <2>6
  <1>5. \A n \in 0 .. e : P(n)
    BY <1>4
  <1>6. f[e] = e
    <2>1. e \in 0 .. e
      BY <1>1
    <2>2. P(e)
      BY <1>5, <2>1
    <2>3. \A b \in B : b < e /\ b \in Int
      BY TiledFacts
    <2>4. f[e] \in B => f[e] < e /\ f[e] \in Int
      BY <2>3
    <2>5. QED
      BY <1>1, <2>2, <2>4
  <1>7. ASSUME NEW b \in B PROVE \E n \in 0 .. e : f[n] = b
    <2> DEFINE U == {n \in 0 .. e : f[n] >= b}
    <2>1. U \subseteq Nat /\ U # {}
      <3>1. e \in U
        BY <1>1, <1>6
      <3>2. QED
        BY <1>1, <3>1
    <2>2. PICK n \in U : \A i \in U : n <= i
      <3> HIDE DEF U
      <3> QED
        BY <2>1, LeastElement
    <2>3. CASE n = 0
      BY <1>1, <1>2, <2>3
    <2>4. CASE n # 0
      <3> DEFINE a == f[n - 1]
      <3>1. n - 1 \in 0 .. e /\ n - 1 \notin U /\ n \in 0 .. e /\ f[n] >= b
        BY <1>1, <2>2, <2>4
      <3>2. a \in B \cup {e} /\ ~(a >= b)
        BY <1>5, <3>1
      <3> HIDE DEF a
      <3>3. a \in B /\ a < b
        BY <1>1, <3>2
      <3>4. a + m[a].word <= b /\ m[a].word \in Int
        BY <3>3 DEF Tiled
      <3>5. f[n] = a + m[a].word
        BY <1>1, <1>3, <2>4, <3>1, <3>3 DEF a
      <3>6. QED
        BY <1>1, <3>1, <3>3, <3>4, <3>5
    <2>5. QED
      BY <2>3, <2>4
  <1>8. e \in 0 .. e
    BY <1>1
  <1>9. QED
    BY <1>5, <1>6, <1>7, <1>8

\* In a tiled heap the headers met by walking are the blocks.
LEMMA StartsAre ==
  ASSUME NEW B, Tiled(mem, end_address, B)
  PROVE  Starts = B \cup {end_address} /\ BlockStarts = B
PROOF
  <1>1. end_address \in Nat /\ B \subseteq 0 .. end_address - 1
    BY DEF Tiled
  <1>2. Starts = B \cup {end_address}
    BY <1>1, StartsWalked, WalkVisits
  <1>3. QED
    <2>1. \A b \in B : b < end_address
      BY TiledFacts
    <2>2. ~(end_address < end_address)
      BY <1>1
    <2>3. QED
      BY <1>2, <2>1, <2>2, Zenon DEF BlockStarts

-----------------------------------------------------------------------------
(***************************************************************************)
(* A sound heap.                                                           *)
(***************************************************************************)
\* The values of a memory cell.
Cell == [magic : BOOLEAN, is_hole : BOOLEAN, word : 0 .. Word - 1]

\* The values of the memory.
Mem == [-1 .. Top - 1 -> Cell]

\* The holes among the blocks B.
HolesOf(m, B) == {a \in B : m[a].is_hole}

\* The footer of the block at a names it.
Footed(m, a) == /\ m[a + m[a].word - 1].magic
                /\ m[a + m[a].word - 1].word = a

\* The blocks of B in use are those of the callers, L, with room for each.
Held(m, B, L) ==
  /\ L \subseteq [addr : 1 .. Top, size : Sizes]
  /\ \A b \in L : /\ b.addr - 1 \in B /\ ~m[b.addr - 1].is_hole
                  /\ m[b.addr - 1].word >= b.size + Overhead
  /\ \A a \in B : ~m[a].is_hole => \E b \in L : b.addr - 1 = a
  /\ \A b, c \in L : b.addr = c.addr => b = c

\* No hole follows a hole.
Apart(m, B) ==
  \A a \in B : m[a].is_hole => ~(a + m[a].word \in B /\ m[a + m[a].word].is_hole)

\* What the two rules callers may follow add.  "none": the heap ends at a page
\* boundary and only its last block may be a hole.  "safe": the blocks of the
\* callers end below HighWater.
Ruled(m, e, L, B) ==
  /\ FreeRule = "none" =>
       e % PageSize = 0 /\ \A a \in B : m[a].is_hole => a + m[a].word = e
  /\ FreeRule = "safe" => \A b \in L : (b.addr - 1) + m[b.addr - 1].word <= HighWater

\* A heap with memory m, index idx and end e in which the callers hold L and
\* the blocks start at B.  Only a block at 0 of an unused heap has no footer.
Sound(m, idx, e, L, B) ==
  /\ m \in Mem /\ m[-1].magic = FALSE
  /\ e \in HeapMinSize .. Top
  /\ Tiled(m, e, B)
  /\ \A a \in B : m[a].magic
  /\ \A a \in B : (a # 0 \/ L # {}) => Footed(m, a)
  /\ Held(m, B, L)
  /\ Lists(idx, HolesOf(m, B))
  /\ Apart(m, B)
  /\ Ruled(m, e, L, B)

\* The addresses of the memory.
Space == -1 .. Top - 1

\* What a write leaves: a header, a footer or a word at a.
WroteHeader(n, m, a, w, h) ==
  /\ n \in Mem
  /\ n[a].magic = TRUE /\ n[a].is_hole = h /\ n[a].word = w
  /\ \A c \in Space : c # a => n[c] = m[c]

\* n is m with a footer for the header w written at a.
WroteFooter(n, m, a, w) ==
  /\ n \in Mem
  /\ n[a].magic = TRUE /\ n[a].word = w /\ n[a].is_hole = m[a].is_hole
  /\ \A c \in Space : c # a => n[c] = m[c]

\* n is m with w written over the word at a.
WroteWord(n, m, a, w) ==
  /\ n \in Mem
  /\ n[a].magic = m[a].magic /\ n[a].word = w /\ n[a].is_hole = m[a].is_hole
  /\ \A c \in Space : c # a => n[c] = m[c]

\* n is m with the cells of a payload overwritten.
WrotePayload(n, m, addr, size) ==
  /\ n \in Mem
  /\ \A c \in Space : c \notin addr .. addr + size - 1 => n[c] = m[c]

\* WithHeader writes a header and nothing else.
LEMMA HeaderWritten ==
  ASSUME NEW m \in Mem, NEW a \in Space, NEW w \in 0 .. Word - 1, NEW h \in BOOLEAN
  PROVE  WroteHeader(WithHeader(m, a, w, h), m, a, w, h)
PROOF
  BY DEF WroteHeader, WithHeader, Mem, Cell, Space

\* WithFooter writes a footer and nothing else.
LEMMA FooterWritten ==
  ASSUME NEW m \in Mem, NEW a \in Space, NEW w \in 0 .. Word - 1
  PROVE  WroteFooter(WithFooter(m, a, w), m, a, w)
PROOF
  BY DEF WroteFooter, WithFooter, Mem, Cell, Space

\* WithWord writes a word and nothing else.
LEMMA WordWritten ==
  ASSUME NEW m \in Mem, NEW a \in Space, NEW w \in 0 .. Word - 1
  PROVE  WroteWord(WithWord(m, a, w), m, a, w)
PROOF
  BY DEF WroteWord, WithWord, Mem, Cell, Space

\* A caller that fills its block writes nothing else.
LEMMA PayloadWritten ==
  ASSUME NEW m \in Mem, NEW addr \in Int, NEW size \in Int, Top > 0
  PROVE  WrotePayload(Filled(m, addr, size), m, addr, size)
PROOF
  <1>1. DOMAIN m = Space /\ \A c \in Space : m[c] \in Cell
    BY DEF Mem, Space
  <1>2. Data \in Cell
    <2>1. Word \in Nat /\ Word > 1
      BY HeapAssumption
    <2>2. QED
      BY <2>1 DEF Data, Cell
  <1>3. Filled(m, addr, size) = [c \in Space |-> IF c \in addr .. addr + size - 1 THEN Data ELSE m[c]]
    BY <1>1 DEF Filled
  <1>4. QED
    BY <1>1, <1>2, <1>3 DEF WrotePayload, Mem, Space

\* Callers ask for one cell at least.
LEMMA SizeFacts ==
  ASSUME NEW size \in Sizes
  PROVE  size \in Nat /\ size >= 1
PROOF
  BY HeapAssumption

\* What a sound heap says of its blocks, in the form the proofs use.
LEMMA SoundFacts ==
  ASSUME NEW m, NEW idx, NEW e, NEW L, NEW B, Sound(m, idx, e, L, B)
  PROVE  /\ m \in Mem /\ e \in Nat /\ e > 0 /\ e <= Top /\ Top \in Nat /\ 0 \in B
         /\ HeapMinSize \in Nat /\ e >= HeapMinSize /\ -1 \in Space
         /\ \A a \in B : /\ a \in Nat /\ a < e /\ a \in Space
                         /\ m[a].word \in Nat /\ m[a].word >= 2
                         /\ a + m[a].word \in B \cup {e}
                         /\ a + m[a].word <= e
         /\ \A a, b \in B : a < b => a + m[a].word <= b
PROOF
  <1>1. /\ e \in Nat /\ e > 0 /\ 0 \in B
        /\ \A b \in B : /\ b \in Nat /\ b < e
                       /\ m[b].word \in Int /\ m[b].word >= 2
                       /\ b + m[b].word \in B \cup {e}
                       /\ b + m[b].word <= e
    BY TiledFacts DEF Sound
  <1>2. HeapMinSize \in Nat /\ Top \in Nat
    BY HeapAssumption
  <1>3. e <= Top /\ e >= HeapMinSize
    BY <1>2 DEF Sound
  <1>4. -1 \in Space
    BY <1>2 DEF Space
  <1>5. \A b \in B : b \in Space
    BY <1>1, <1>2, <1>3 DEF Space
  <1>6. m \in Mem
    BY DEF Sound
  <1>7. \A a, b \in B : a < b => a + m[a].word <= b
    BY DEF Sound, Tiled
  <1>8. QED
    BY <1>1, <1>2, <1>3, <1>5, <1>6, <1>7, <1>4

\* The block of a caller lies inside its header and footer.
LEMMA HeldFacts ==
  ASSUME NEW m, NEW B, NEW L, Held(m, B, L), NEW b \in L
  PROVE  /\ b.addr \in Nat /\ b.addr >= 1 /\ b.size \in Nat /\ b.size >= 1 /\ b.size \in Sizes
         /\ b = [addr |-> b.addr, size |-> b.size]
         /\ b.addr - 1 \in B
         /\ m[b.addr - 1].is_hole # TRUE
         /\ m[b.addr - 1].word >= b.size + 2
PROOF
  <1>1. Sizes \subseteq Nat \ {0} /\ Top \in Nat
    BY HeapAssumption
  <1>2. b \in [addr : 1 .. Top, size : Sizes]
    BY DEF Held
  <1>3. b.addr \in 1 .. Top /\ b.size \in Sizes /\ b = [addr |-> b.addr, size |-> b.size]
    BY <1>2
  <1>4. b.size \in Nat /\ b.size >= 1
    BY <1>1, <1>3
  <1>5. b.addr \in Nat /\ b.addr >= 1
    BY <1>1, <1>3
  <1>6. b.addr - 1 \in B /\ ~m[b.addr - 1].is_hole /\ m[b.addr - 1].word >= b.size + 2
    BY DEF Held, Overhead
  <1>7. QED
    BY <1>3, <1>4, <1>5, <1>6

\* Cells of two blocks are different.
LEMMA BlocksDisjoint ==
  ASSUME NEW m, NEW idx, NEW e, NEW L, NEW B, Sound(m, idx, e, L, B),
         NEW a \in B, NEW h \in B, a # h, NEW c \in a .. (a + m[a].word) - 1
  PROVE  c \in Space /\ c < e /\ ~(h <= c /\ c < h + m[h].word)
PROOF
  <1>1. /\ Top \in Nat /\ e \in Nat /\ e <= Top
        /\ a \in Nat /\ m[a].word \in Nat /\ a + m[a].word <= e
        /\ h \in Nat /\ m[h].word \in Nat
        /\ a < h => a + m[a].word <= h
        /\ h < a => h + m[h].word <= a
    BY SoundFacts
  <1>2. QED
    BY ONLY <1>1, c \in a .. (a + m[a].word) - 1, a # h DEF Space

\* A memory that differs from a sound one only inside block h keeps what the
\* other blocks need.
LEMMA OthersKept ==
  ASSUME NEW m, NEW idx, NEW e, NEW L, NEW B, Sound(m, idx, e, L, B),
         NEW n \in Mem, NEW h \in B,
         \A c \in Space : ~(h <= c /\ c < h + m[h].word) => n[c] = m[c],
         NEW a \in B, a # h
  PROVE  /\ n[a] = m[a] /\ n[a + m[a].word - 1] = m[a + m[a].word - 1]
         /\ Footed(m, a) => Footed(n, a)
         /\ \A c \in a .. (a + m[a].word) - 1 : n[c] = m[c]
PROOF
  <1>1. a \in Nat /\ m[a].word \in Nat /\ m[a].word >= 2
    BY SoundFacts
  <1>2. \A c \in a .. (a + m[a].word) - 1 : n[c] = m[c]
    BY BlocksDisjoint
  <1>3. a \in a .. (a + m[a].word) - 1 /\ a + m[a].word - 1 \in a .. (a + m[a].word) - 1
    BY ONLY <1>1
  <1>4. n[a] = m[a] /\ n[a + m[a].word - 1] = m[a + m[a].word - 1]
    BY ONLY <1>2, <1>3
  <1>5. QED
    BY ONLY <1>2, <1>4 DEF Footed

\* A heap nobody holds a block of is one hole.
LEMMA EmptyHeap ==
  ASSUME NEW m, NEW idx, NEW e, NEW B, Sound(m, idx, e, {}, B), NEW a \in B
  PROVE  a = 0
PROOF
  <1>1. \A b \in B : m[b].is_hole
    BY DEF Sound, Held
  <1>2. 0 \in B /\ 0 + m[0].word \notin B
    BY <1>1, SoundFacts DEF Sound, Apart
  <1>3. /\ a \in Nat /\ a < e /\ e \in Nat /\ m[0].word \in Nat
        /\ 0 + m[0].word \in B \cup {e} /\ (0 < a => 0 + m[0].word <= a)
    BY <1>2, SoundFacts
  <1>4. 0 + m[0].word = e
    BY <1>2, <1>3
  <1>5. QED
    BY <1>3, <1>4

\* The frame of a change inside block h.
Within(n, m, h) ==
  \A c \in Space : ~(h <= c /\ c < h + m[h].word) => n[c] = m[c]

\* The record of a block a caller asked for.
Given(h, size) == [addr |-> h + 1, size |-> size]

\* A write within one block keeps the footers of the others.
LEMMA FootersKept ==
  ASSUME NEW m, NEW idx, NEW e, NEW L, NEW B, Sound(m, idx, e, L, B),
         NEW n \in Mem, NEW h \in B, Within(n, m, h), NEW a \in B, a # h
  PROVE  n[a] = m[a] /\ Footed(n, a)
PROOF
  <1>1. n[a] = m[a] /\ (Footed(m, a) => Footed(n, a))
    BY OthersKept DEF Within
  <1>2. a # 0 \/ L # {}
    BY EmptyHeap
  <1>3. Footed(m, a)
    BY <1>2 DEF Sound
  <1>4. QED
    BY <1>1, <1>3

\* The fields of a block that is handed out.
LEMMA GivenFacts ==
  ASSUME NEW h \in Nat, NEW size \in Sizes
  PROVE  /\ Given(h, size).addr = h + 1 /\ Given(h, size).addr - 1 = h
         /\ Given(h, size).size = size /\ size \in Nat /\ size >= 1
PROOF
  <1>1. size \in Nat \ {0}
    BY HeapAssumption
  <1>2. Given(h, size).addr = h + 1 /\ Given(h, size).size = size
    BY DEF Given
  <1>3. QED
    BY <1>1, <1>2

\* All headers but that of h are as before.
HeadsKept(n, m, B, h) == \A a \in B : a # h => n[a] = m[a]

\* C has the blocks B and holes.
WithHoles(n, B, C) == B \subseteq C /\ \A a \in C : a \in B \/ n[a].is_hole = TRUE

\* The blocks of callers are not h and as before.
HeldKept(n, m, B, L, h) ==
  \A b \in L : b.addr - 1 # h /\ b.addr - 1 \in B /\ n[b.addr - 1] = m[b.addr - 1]

\* The callers hold one block more when hole h becomes a block in use.
LEMMA HeldGiven ==
  ASSUME NEW m, NEW idx, NEW e, NEW L, NEW B, Sound(m, idx, e, L, B),
         NEW n \in Mem, NEW h \in B, m[h].is_hole = TRUE, NEW size \in Sizes,
         NEW C, NEW g, g = Given(h, size),
         HeadsKept(n, m, B, h), WithHoles(n, B, C),
         n[h].is_hole = FALSE, n[h].word >= size + 2
  PROVE  /\ Held(n, C, L \cup {g})
         /\ g \notin L
         /\ HeldKept(n, m, B, L, h)
PROOF
  <1>1. /\ \A a \in B : a # h => n[a] = m[a]
        /\ h \in C /\ \A a \in B : a \in C
        /\ \A a \in C : a \in B \/ n[a].is_hole = TRUE
    BY DEF HeadsKept, WithHoles
  <1>2. h \in Nat /\ h < e /\ e \in Nat /\ e <= Top /\ Top \in Nat
    BY SoundFacts
  <1>3. g.addr = h + 1 /\ g.addr - 1 = h /\ g.size = size
    BY <1>2, GivenFacts
  <1>4. Held(m, B, L)
    BY DEF Sound
  <1>5. \A b \in L : /\ b.addr \in Nat /\ b.addr - 1 \in B /\ m[b.addr - 1].is_hole # TRUE
                     /\ m[b.addr - 1].word >= b.size + 2
    BY <1>4, HeldFacts
  <1>6. \A b \in L : b.addr - 1 # h /\ b.addr - 1 \in B /\ n[b.addr - 1] = m[b.addr - 1]
    BY <1>1, <1>5
  <1>7. \A b \in L : b.addr # g.addr
    BY <1>3, <1>6
  <1>8. g \in [addr : 1 .. Top, size : Sizes]
    BY <1>2 DEF Given
  <1>9. \A b \in L \cup {g} : /\ b.addr - 1 \in C /\ ~n[b.addr - 1].is_hole
                              /\ n[b.addr - 1].word >= b.size + Overhead
    <2>1. \A b \in L : b.addr - 1 \in C /\ ~n[b.addr - 1].is_hole
                              /\ n[b.addr - 1].word >= b.size + Overhead
      BY <1>1, <1>5, <1>6 DEF Overhead
    <2>2. g.addr - 1 \in C /\ ~n[g.addr - 1].is_hole
                              /\ n[g.addr - 1].word >= g.size + Overhead
      BY <1>1, <1>3 DEF Overhead
    <2>3. QED
      BY <2>1, <2>2
  <1>10. ASSUME NEW a \in C, ~n[a].is_hole PROVE \E b \in L \cup {g} : b.addr - 1 = a
    <2>1. CASE a = h
      BY <1>3, <2>1
    <2>2. CASE a # h
      <3>1. a \in B /\ n[a] = m[a]
        BY <1>1, <1>10, <2>2
      <3>2. \E b \in L : b.addr - 1 = a
        BY <1>4, <1>10, <3>1 DEF Held
      <3>3. QED
        BY <3>2
    <2>3. QED
      BY <2>1, <2>2
  <1>11. \A b, c \in L \cup {g} : b.addr = c.addr => b = c
    <2>1. \A b, c \in L : b.addr = c.addr => b = c
      BY <1>4 DEF Held
    <2>2. QED
      BY <1>7, <2>1
  <1>12. L \cup {g} \subseteq [addr : 1 .. Top, size : Sizes]
    BY <1>4, <1>8 DEF Held
  <1>13. g \notin L
    BY <1>7
  <1>14. QED
    BY <1>6, <1>9, <1>10, <1>11, <1>12, <1>13 DEF Held, HeldKept

\* A hole that is handed out whole leaves the heap sound.
LEMMA WholeCarved ==
  ASSUME NEW m, NEW idx, NEW e, NEW L, NEW B, Sound(m, idx, e, L, B),
         NEW n \in Mem, NEW h \in B, m[h].is_hole = TRUE, NEW size \in Sizes,
         m[h].word >= size + 2, Within(n, m, h),
         n[h].magic = TRUE, n[h].is_hole = FALSE, n[h].word = m[h].word, Footed(n, h),
         NEW idx1, Lists(idx1, HolesOf(m, B) \ {h}),
         h + m[h].word <= HighWater,
         NEW g, g = Given(h, size)
  PROVE  Sound(n, idx1, e, L \cup {g}, B)
PROOF
  <1>1. /\ Top \in Nat /\ h \in Nat /\ m[h].word \in Nat
        /\ -1 \in Space /\ ~(h <= -1)
    BY SoundFacts DEF Space
  <1>2. \A a \in B : a # h => n[a] = m[a] /\ Footed(n, a)
    BY FootersKept
  <1>3. \A a \in B : n[a].word = m[a].word
    BY <1>2
  <1>4. n[-1] = m[-1]
    BY <1>1 DEF Within
  <1>5. Tiled(n, e, B)
    BY <1>3 DEF Sound, Tiled
  <1>6. /\ Held(n, B, L \cup {g})
        /\ \A b \in L : b.addr - 1 # h /\ b.addr - 1 \in B /\ n[b.addr - 1] = m[b.addr - 1]
    <2>1. HeadsKept(n, m, B, h) /\ WithHoles(n, B, B)
      BY <1>2 DEF HeadsKept, WithHoles
    <2>2. n[h].word >= size + 2
      OBVIOUS
    <2>3. Held(n, B, L \cup {g}) /\ HeldKept(n, m, B, L, h)
      BY <2>1, <2>2, HeldGiven
    <2>4. QED
      BY <2>3 DEF HeldKept
  <1>7. HolesOf(n, B) = HolesOf(m, B) \ {h}
    BY <1>2 DEF HolesOf
  <1>8. Apart(n, B)
    <2>1. \A a \in B : n[a].is_hole => m[a].is_hole
      BY <1>2
    <2>2. QED
      BY <1>3, <2>1 DEF Sound, Apart
  <1>9. Ruled(n, e, L \cup {g}, B)
    <2>1. \A a \in B : n[a].is_hole => m[a].is_hole
      BY <1>2
    <2>2. g.addr - 1 = h
      BY <1>1, GivenFacts
    <2>3. FreeRule = "safe" => \A b \in L \cup {g} : (b.addr - 1) + n[b.addr - 1].word <= HighWater
      <3>1. FreeRule = "safe" => \A b \in L : (b.addr - 1) + m[b.addr - 1].word <= HighWater
        BY DEF Sound, Ruled
      <3>2. QED
        BY <1>6, <2>2, <3>1
    <2>4. QED
      BY <1>3, <2>1, <2>3 DEF Sound, Ruled
  <1>10. \A a \in B : n[a].magic
    BY <1>2 DEF Sound
  <1>11. QED
    BY <1>2, <1>4, <1>5, <1>6, <1>7, <1>8, <1>9, <1>10 DEF Sound

\* A hole that is split, with its rest as a new hole, leaves the heap sound.
LEMMA SplitCarved ==
  ASSUME NEW m, NEW idx, NEW e, NEW L, NEW B, Sound(m, idx, e, L, B),
         NEW n \in Mem, NEW h \in B, m[h].is_hole = TRUE, NEW size \in Sizes,
         NEW r, r = h + (size + 2), r + 2 <= h + m[h].word, Within(n, m, h),
         n[h].magic = TRUE, n[h].is_hole = FALSE, n[h].word = size + 2, Footed(n, h),
         n[r].magic = TRUE, n[r].is_hole = TRUE, r + n[r].word = h + m[h].word, n[r].word \in Nat, Footed(n, r),
         NEW idx1, Lists(idx1, (HolesOf(m, B) \ {h}) \cup {r}),
         r <= HighWater,
         NEW g, g = Given(h, size)
  PROVE  Sound(n, idx1, e, L \cup {g}, B \cup {r})
PROOF
  <1>1. size \in Nat /\ size >= 1
    BY GivenFacts, SoundFacts
  <1>2. /\ Top \in Nat /\ h \in Nat /\ m[h].word \in Nat /\ e \in Nat /\ h + m[h].word <= e
        /\ h + m[h].word \in B \cup {e}
        /\ -1 \in Space /\ ~(h <= -1) /\ h < e
    BY SoundFacts DEF Space
  <1>3. r \in Nat /\ h < r /\ r < h + m[h].word /\ r < e
    BY <1>1, <1>2
  <1>4. \A a \in B : /\ a \in Nat /\ a < e /\ m[a].word \in Nat /\ m[a].word >= 2
                     /\ a + m[a].word \in B \cup {e}
                     /\ (a < h => a + m[a].word <= h) /\ (h < a => h + m[h].word <= a)
    BY SoundFacts
  <1>5. r \notin B
    BY <1>2, <1>3, <1>4
  <1>6. \A a \in B : a # h => n[a] = m[a] /\ Footed(n, a)
    BY FootersKept
  <1>7. n[-1] = m[-1]
    BY <1>2 DEF Within
  <1> DEFINE C == B \cup {r}
  <1>8. Tiled(n, e, C)
    <2>1. C \subseteq 0 .. e - 1 /\ 0 \in C /\ e \in Nat
      <3>1. \A a \in C : a \in 0 .. e - 1
        <4>1. \A a \in B : a \in 0 .. e - 1
          BY ONLY <1>2, <1>4
        <4>2. r \in 0 .. e - 1
          BY ONLY <1>2, <1>3
        <4>3. QED
          BY ONLY <4>1, <4>2
      <3>2. QED
        BY <1>2, <3>1, SoundFacts
    <2>2. ASSUME NEW a \in C PROVE n[a].word \in Int /\ n[a].word >= 2 /\ a + n[a].word \in C \cup {e}
      <3>1. CASE a = h
        BY <1>1, <3>1
      <3>2. CASE a = r
        BY <1>2, <1>3, <3>2
      <3>3. CASE a \in B /\ a # h
        BY <1>4, <1>6, <3>3
      <3>4. QED
        BY <3>1, <3>2, <3>3
    <2>3. ASSUME NEW a \in C, NEW b \in C, a < b PROVE a + n[a].word <= b
      <3>1. CASE a = h
        <4>1. CASE b = r
          BY <3>1, <4>1, <1>1, <1>2
        <4>2. CASE b \in B
          BY <1>1, <1>2, <1>3, <1>4, <2>3, <3>1, <4>2
        <4>3. QED
          BY <4>1, <4>2
      <3>2. CASE a = r
        <4>1. b \in B /\ h < b
          BY <1>2, <1>3, <1>4, <2>3, <3>2
        <4>2. QED
          BY <1>2, <1>4, <3>2, <4>1
      <3>3. CASE a \in B /\ a # h
        <4>1. n[a].word = m[a].word /\ a \in Nat /\ m[a].word \in Nat
          BY <1>4, <1>6, <3>3
        <4>2. CASE b = r
          <5>1. a < h
            <6>1. a \in Nat /\ a < r /\ (h < a => h + m[h].word <= a)
              BY <1>4, <2>3, <3>3, <4>2
            <6>2. QED
              BY ONLY <1>2, <1>3, <3>3, <6>1
          <5>2. QED
            BY <1>2, <1>3, <1>4, <3>3, <4>1, <4>2, <5>1
        <4>3. CASE b \in B
          BY <2>3, <3>3, <4>1, <4>3 DEF Sound, Tiled
        <4>4. QED
          BY <4>2, <4>3
      <3>4. QED
        BY <3>1, <3>2, <3>3
    <2>4. QED
      BY <2>1, <2>2, <2>3 DEF Tiled
  <1>9. /\ Held(n, C, L \cup {g})
        /\ \A b \in L : b.addr - 1 # h /\ b.addr - 1 \in B /\ n[b.addr - 1] = m[b.addr - 1]
    <2>1. n[h].word >= size + 2
      BY <1>1
    <2>2. HeadsKept(n, m, B, h) /\ WithHoles(n, B, C)
      BY <1>6 DEF HeadsKept, WithHoles
    <2> HIDE DEF C
    <2>3. Held(n, C, L \cup {g}) /\ HeldKept(n, m, B, L, h)
      BY <2>1, <2>2, HeldGiven
    <2>4. QED
      BY <2>3 DEF HeldKept
  <1>10. HolesOf(n, C) = (HolesOf(m, B) \ {h}) \cup {r}
    BY <1>5, <1>6 DEF HolesOf
  <1>11. Apart(n, C)
    <2>1. ASSUME NEW a \in C, n[a].is_hole, a + n[a].word \in C, n[a + n[a].word].is_hole PROVE FALSE
      <3>1. a # h
        BY <2>1
      <3>2. CASE a = r
        <4>1. a + n[a].word = h + m[h].word /\ h + m[h].word \in B /\ h + m[h].word # h
          BY <1>2, <1>3, <2>1, <3>2
        <4>2. n[h + m[h].word] = m[h + m[h].word]
          BY <1>6, <4>1
        <4>3. QED
          BY <2>1, <4>1, <4>2 DEF Sound, Apart
      <3>3. CASE a \in B
        <4>1. n[a] = m[a] /\ m[a].is_hole
          BY <1>6, <2>1, <3>1, <3>3
        <4>2. a + m[a].word # r
          BY <1>2, <1>3, <1>4, <3>1, <3>3
        <4>3. a + m[a].word \in B /\ a + m[a].word # h
          BY <2>1, <4>1, <4>2
        <4>4. n[a + m[a].word] = m[a + m[a].word]
          BY <1>6, <4>3
        <4>5. QED
          BY <2>1, <3>3, <4>1, <4>3, <4>4 DEF Sound, Apart
      <3>4. QED
        BY <3>2, <3>3
    <2>2. QED
      BY <2>1 DEF Apart
  <1>12. Ruled(n, e, L \cup {g}, C)
    <2>1. ASSUME FreeRule = "none", NEW a \in C, n[a].is_hole PROVE a + n[a].word = e
      <3>1. \A b \in B : m[b].is_hole => b + m[b].word = e
        BY <2>1 DEF Sound, Ruled
      <3>2. QED
        BY <1>6, <2>1, <3>1
    <2>2. g.addr - 1 = h
      BY <1>2, GivenFacts
    <2>3. FreeRule = "safe" => \A b \in L \cup {g} : (b.addr - 1) + n[b.addr - 1].word <= HighWater
      <3>1. FreeRule = "safe" => \A b \in L : (b.addr - 1) + m[b.addr - 1].word <= HighWater
        BY DEF Sound, Ruled
      <3>2. QED
        BY <1>9, <2>2, <3>1
    <2>4. QED
      BY <2>1, <2>3 DEF Sound, Ruled
  <1>13. \A a \in C : n[a].magic /\ Footed(n, a)
    BY <1>6 DEF Sound
  <1> HIDE DEF C
  <1>14. Sound(n, idx1, e, L \cup {g}, C)
    BY <1>7, <1>8, <1>9, <1>10, <1>11, <1>12, <1>13 DEF Sound
  <1>15. QED
    BY <1>14 DEF C

-----------------------------------------------------------------------------
(***************************************************************************)
(* HeapAllocate.                                                           *)
(***************************************************************************)
\* IndexInsert adds a header to what the index lists.
LEMMA IndexListed ==
  ASSUME NEW m \in Mem, NEW idx, NEW S, Lists(idx, S), S \subseteq Space,
         NEW item \in Space, item \notin S
  PROVE  Lists(IndexInsert(m, idx, item), S \cup {item})
PROOF
  <1> DEFINE key == [a \in DOMAIN m |-> m[a].word]
  <1>1. \A a \in Space : key[a] \in Int
    <2>1. DOMAIN m = Space /\ \A a \in Space : m[a].word \in Int
      BY HeapAssumption DEF Mem, Cell, Space
    <2>2. QED
      BY <2>1
  <1>2. IndexInsert(m, idx, item) = ArrayInsert(key, idx, item)
    BY DEF IndexInsert
  <1>3. item \in Int
    BY HeapAssumption DEF Space
  <1> HIDE DEF key
  <1>4. key[item] \in Int /\ \A x \in S : key[x] \in Int
    BY <1>1
  <1>5. Lists(ArrayInsert(key, idx, item), S \cup {item})
    BY <1>3, <1>4, ArrayInsertLists
  <1>6. QED
    BY <1>2, <1>5

\* A block of w cells at h: its header and its footer are written.
WroteBlock(n, m, h, w) ==
  /\ n \in Mem
  /\ n[h].magic = TRUE /\ n[h].is_hole = FALSE /\ n[h].word = w
  /\ n[h + w - 1].magic = TRUE /\ n[h + w - 1].word = h
  /\ \A c \in Space : c # h /\ c # h + w - 1 => n[c] = m[c]

\* Header and footer of a block, as HeapAllocate writes them.
LEMMA BlockWritten ==
  ASSUME NEW m \in Mem, NEW h \in Nat, NEW w \in Nat, w >= 2, h + w <= Top, Top \in Nat
  PROVE  WroteBlock(WithFooter(WithHeader(m, h, w, FALSE), h + w - 1, h), m, h, w)
PROOF
  <1> DEFINE f == h + w - 1
             k == WithHeader(m, h, w, FALSE)
             n == WithFooter(k, f, h)
  <1>1. Word \in Nat /\ 4 * Top < Word
    BY HeapAssumption
  <1>2. h \in Space /\ f \in Space /\ f # h /\ h \in 0 .. Word - 1 /\ w \in 0 .. Word - 1
    BY <1>1 DEF Space
  <1>3. WroteHeader(k, m, h, w, FALSE)
    BY <1>2, HeaderWritten
  <1>4. k \in Mem
    BY <1>3 DEF WroteHeader
  <1> HIDE DEF k, f
  <1>5. WroteFooter(n, k, f, h)
    BY <1>2, <1>4, FooterWritten
  <1> HIDE DEF n
  <1>6. WroteBlock(n, m, h, w)
    BY <1>2, <1>3, <1>5 DEF WroteHeader, WroteFooter, WroteBlock, f
  <1>7. QED
    BY <1>6 DEF n, k, f

\* The hole the index names.
LEMMA IndexedHole ==
  ASSUME NEW m, NEW idx, NEW e, NEW L, NEW B, Sound(m, idx, e, L, B), NEW i \in 1 .. Len(idx)
  PROVE  /\ idx[i] \in B /\ m[idx[i]].is_hole = TRUE
         /\ HolesOf(m, B) \subseteq Space
         /\ Lists(ArrayRemove(idx, i), HolesOf(m, B) \ {idx[i]})
PROOF
  <1>1. Lists(idx, HolesOf(m, B))
    BY DEF Sound
  <1>2. idx[i] \in HolesOf(m, B)
    BY <1>1 DEF Lists
  <1>3. m[idx[i]].is_hole \in BOOLEAN
    <2>1. m \in Mem /\ idx[i] \in Space
      BY <1>2, SoundFacts DEF HolesOf
    <2>2. QED
      BY <2>1 DEF Mem, Cell, Space
  <1>4. HolesOf(m, B) \subseteq Space
    BY SoundFacts DEF HolesOf
  <1>5. QED
    BY <1>1, <1>2, <1>3, <1>4, ArrayRemoveLists DEF HolesOf

\* What HeapAllocate makes of the heap when it serves a request from hole h.
Carved(n, idx1, e, L, m, B, h, size) ==
  /\ h \in B /\ m[h].is_hole = TRUE
  /\ n \in Mem /\ Within(n, m, h)
  /\ m[h].word >= size + 2
  /\ \E C : Sound(n, idx1, e, L \cup {Given(h, size)}, C)

\* Carve, when the rest is too small for a hole.
LEMMA CarveWholeSound ==
  ASSUME NEW m, NEW idx, NEW e, NEW L, NEW B, Sound(m, idx, e, L, B),
         NEW i \in 1 .. Len(idx), NEW size \in Sizes, m[idx[i]].word >= size + 2,
         m[idx[i]].word < size + 4,
         NEW done, done = Carve(m, idx, i, size, e), done.end <= HighWater
  PROVE  Carved(Filled(done.mem, idx[i] + 1, size), done.index, e, L, m, B, idx[i], size)
PROOF
  <1> DEFINE h == idx[i]
             W == m[h].word
             f == h + W - 1
             k == WithFooter(WithHeader(m, h, W, FALSE), h + W - 1, h)
             n == Filled(k, h + 1, size)
  <1>1. /\ h \in B /\ m[h].is_hole = TRUE /\ HolesOf(m, B) \subseteq Space
        /\ Lists(ArrayRemove(idx, i), HolesOf(m, B) \ {h})
    BY IndexedHole
  <1>2. /\ m \in Mem /\ h \in Nat /\ W \in Nat /\ h + W <= Top /\ Top \in Nat /\ Top > 0
        /\ e <= Top /\ e \in Nat /\ size \in Nat /\ size >= 1
    <2>1. m \in Mem /\ h \in Nat /\ W \in Nat /\ h + W <= e /\ Top \in Nat /\ e <= Top /\ e \in Nat /\ e > 0
      BY <1>1, SoundFacts
    <2>2. QED
      BY <2>1, SizeFacts
  <1>3. W - (size + Overhead) < Overhead
    BY <1>2 DEF Overhead
  <1>4. done = [mem |-> k, index |-> ArrayRemove(idx, i), end |-> h + W]
    BY <1>3 DEF Carve
  <1>5. done.mem = k /\ done.index = ArrayRemove(idx, i) /\ h + W <= HighWater
    BY <1>4
  <1>6. W >= size + 2
    OBVIOUS
  <1> HIDE DEF h, W
  <1>7. /\ k \in Mem
        /\ k[h].magic = TRUE /\ k[h].is_hole = FALSE /\ k[h].word = W
        /\ k[f].magic = TRUE /\ k[f].word = h
        /\ \A c \in Space : c # h /\ c # f => k[c] = m[c]
    <2>1. W >= 2
      BY <1>2, <1>6
    <2>2. WroteBlock(k, m, h, W)
      BY <1>2, <2>1, BlockWritten
    <2>3. QED
      BY <2>2 DEF WroteBlock
  <1> HIDE DEF k
  <1>8. n \in Mem /\ \A c \in Space : c \notin h + 1 .. (h + 1) + size - 1 => n[c] = k[c]
    <2>1. h + 1 \in Int /\ size \in Int
      BY <1>2
    <2>2. QED
      BY <1>2, <1>7, <2>1, PayloadWritten DEF WrotePayload
  <1> HIDE DEF n
  <1>9. /\ h \in Space /\ h \notin h + 1 .. (h + 1) + size - 1
        /\ f \in Space /\ f \notin h + 1 .. (h + 1) + size - 1
    BY ONLY <1>2, <1>6 DEF Space, f
  <1>10. n[h] = k[h] /\ n[f] = k[f]
    BY ONLY <1>8, <1>9
  <1>11. /\ n[h].magic = TRUE /\ n[h].is_hole = FALSE /\ n[h].word = W
         /\ n[f].magic = TRUE /\ n[f].word = h
    BY <1>7, <1>10
  <1>12. Within(n, m, h)
    <2>1. ASSUME NEW c \in Space, ~(h <= c /\ c < h + W) PROVE n[c] = m[c]
      <3>1. c # h /\ c # f /\ c \notin h + 1 .. (h + 1) + size - 1
        BY ONLY <1>2, <1>6, c \in Space, <2>1 DEF Space, f
      <3>2. QED
        BY ONLY <1>7, <1>8, <3>1, c \in Space
    <2>2. QED
      BY <2>1 DEF Within, W
  <1>13. Footed(n, h)
    BY <1>11 DEF Footed, f
  <1>14. Sound(n, ArrayRemove(idx, i), e, L \cup {Given(h, size)}, B)
    <2>1. n[h].word = m[h].word /\ m[h].word >= size + 2 /\ h + m[h].word <= HighWater
      BY <1>5, <1>6, <1>11 DEF W
    <2>2. QED
      BY <1>1, <1>8, <1>11, <1>12, <1>13, <2>1, WholeCarved
  <1>15. Carved(n, done.index, e, L, m, B, h, size)
    <2>1. m[h].word >= size + 2
      BY <1>6 DEF W
    <2>2. QED
      BY <1>1, <1>5, <1>8, <1>12, <1>14, <2>1 DEF Carved
  <1>16. QED
    BY <1>5, <1>15 DEF n, h

\* Carve, when the rest becomes a hole.
LEMMA CarveSplitSound ==
  ASSUME NEW m, NEW idx, NEW e, NEW L, NEW B, Sound(m, idx, e, L, B),
         NEW i \in 1 .. Len(idx), NEW size \in Sizes, m[idx[i]].word >= size + 4,
         NEW done, done = Carve(m, idx, i, size, e), done.end <= HighWater
  PROVE  Carved(Filled(done.mem, idx[i] + 1, size), done.index, e, L, m, B, idx[i], size)
PROOF
  <1> DEFINE h == idx[i]
             W == m[h].word
             w == size + 2
             f == h + w - 1
             r == h + w
             last == h + W - 1
             k == WithFooter(WithHeader(m, h, w, FALSE), h + w - 1, h)
             cut == WithHeader(k, r, W - w, TRUE)
             split == WithFooter(cut, last, r)
             n == Filled(split, h + 1, size)
             left == ArrayRemove(idx, i)
  <1>1. /\ h \in B /\ m[h].is_hole = TRUE /\ HolesOf(m, B) \subseteq Space
        /\ Lists(left, HolesOf(m, B) \ {h})
    BY IndexedHole
  <1>2. /\ m \in Mem /\ h \in Nat /\ W \in Nat /\ h + W <= Top /\ Top \in Nat /\ Top > 0
        /\ e <= Top /\ e \in Nat /\ h + W <= e /\ size \in Nat /\ size >= 1
    <2>1. m \in Mem /\ h \in Nat /\ W \in Nat /\ h + W <= e /\ Top \in Nat /\ e <= Top /\ e \in Nat /\ e > 0
      BY <1>1, SoundFacts
    <2>2. QED
      BY <2>1, SizeFacts
  <1>3. ~(W - (size + Overhead) < Overhead) /\ size + Overhead = w /\ last < e
    <2>1. W >= size + 4
      OBVIOUS
    <2> HIDE DEF h, W
    <2>2. QED
      BY ONLY <1>2, <2>1 DEF Overhead, w, last
  <1>4. done = [mem |-> split, index |-> IndexInsert(split, left, r), end |-> h + w]
    BY <1>3 DEF Carve, RestOf
  <1>5. done.mem = split /\ done.index = IndexInsert(split, left, r) /\ r <= HighWater
    BY <1>4
  <1>6. W >= size + 4
    OBVIOUS
  <1>7. w \in Nat /\ w = size + 2 /\ w >= size + 2 /\ h + w <= Top
    BY <1>2, <1>6
  <1> HIDE DEF h, W, w
  <1>8. /\ k \in Mem
        /\ k[h].magic = TRUE /\ k[h].is_hole = FALSE /\ k[h].word = w
        /\ k[f].magic = TRUE /\ k[f].word = h
        /\ \A c \in Space : c # h /\ c # f => k[c] = m[c]
    <2>1. w >= 2
      BY <1>2, <1>7
    <2>2. WroteBlock(k, m, h, w)
      BY <1>2, <1>7, <2>1, BlockWritten
    <2>3. QED
      BY <2>2 DEF WroteBlock
  <1> HIDE DEF k
  <1>9. Word \in Nat /\ 4 * Top < Word
    BY HeapAssumption
  <1>10. /\ h \in Space /\ f \in Space /\ r \in Space /\ last \in Space
        /\ h # r /\ h # f /\ h # last /\ f # r /\ f # last /\ r # last
        /\ W - w \in 0 .. Word - 1 /\ W - w \in Nat /\ r \in 0 .. Word - 1
    BY ONLY <1>2, <1>6, <1>7, <1>9 DEF Space, f, r, last
  <1>11. /\ cut \in Mem
        /\ cut[r].magic = TRUE /\ cut[r].is_hole = TRUE /\ cut[r].word = W - w
        /\ \A c \in Space : c # r => cut[c] = k[c]
    <2> DEFINE v == W - w
    <2>1. v \in 0 .. Word - 1
      BY <1>10
    <2> HIDE DEF v
    <2>2. WroteHeader(WithHeader(k, r, v, TRUE), k, r, v, TRUE)
      BY <1>8, <1>10, <2>1, HeaderWritten
    <2>3. QED
      BY <2>2 DEF WroteHeader, v
  <1> HIDE DEF cut
  <1>12. /\ split \in Mem /\ split[last].magic = TRUE /\ split[last].word = r
        /\ \A c \in Space : c # last => split[c] = cut[c]
    <2>1. WroteFooter(split, cut, last, r)
      <3> HIDE DEF last, r
      <3> QED
        BY <1>11, <1>10, FooterWritten
    <2>2. QED
      BY <2>1 DEF WroteFooter
  <1> HIDE DEF split
  <1>13. n \in Mem /\ \A c \in Space : c \notin h + 1 .. (h + 1) + size - 1 => n[c] = split[c]
    <2>1. h + 1 \in Int /\ size \in Int
      BY <1>2
    <2>2. QED
      BY <1>2, <1>12, <2>1, PayloadWritten DEF WrotePayload
  <1> HIDE DEF n
  <1>14. /\ h \notin h + 1 .. (h + 1) + size - 1
        /\ f \notin h + 1 .. (h + 1) + size - 1
        /\ r \notin h + 1 .. (h + 1) + size - 1
        /\ last \notin h + 1 .. (h + 1) + size - 1
    BY ONLY <1>2, <1>6, <1>7 DEF f, r, last
  <1>15. n[h] = k[h] /\ n[f] = k[f] /\ n[r] = cut[r] /\ n[last] = split[last]
    BY ONLY <1>13, <1>14, <1>10, <1>11, <1>12
  <1>16. /\ n[h].magic = TRUE /\ n[h].is_hole = FALSE /\ n[h].word = w
         /\ n[f].magic = TRUE /\ n[f].word = h
         /\ n[r].magic = TRUE /\ n[r].is_hole = TRUE /\ n[r].word = W - w
         /\ n[last].magic = TRUE /\ n[last].word = r
    BY <1>8, <1>15, <1>11, <1>12
  <1>17. Within(n, m, h)
    <2>1. ASSUME NEW c \in Space, ~(h <= c /\ c < h + W) PROVE n[c] = m[c]
      <3>1. c # h /\ c # f /\ c # r /\ c # last /\ c \notin h + 1 .. (h + 1) + size - 1
        BY ONLY <1>2, <1>6, <1>7, c \in Space, <2>1 DEF Space, f, r, last
      <3>2. QED
        BY ONLY <1>8, <1>13, <1>11, <1>12, <3>1, c \in Space
    <2>2. QED
      BY <2>1 DEF Within, W
  <1>18. Footed(n, h) /\ Footed(n, r)
    <2>1. r + (W - w) - 1 = last
      BY ONLY <1>2, <1>7 DEF r, last
    <2>2. QED
      BY <1>16, <2>1 DEF Footed, f
  <1>19. r \notin HolesOf(m, B)
    <2>1. \A a \in B : h < a => h + W <= a
      BY <1>1, SoundFacts DEF W
    <2>2. h < r /\ ~(h + W <= r)
      BY ONLY <1>2, <1>6, <1>7 DEF r
    <2>3. QED
      BY <2>1, <2>2 DEF HolesOf
  <1>20. Lists(IndexInsert(split, left, r), (HolesOf(m, B) \ {h}) \cup {r})
    <2> DEFINE S == HolesOf(m, B) \ {h}
    <2>1. S \subseteq Space /\ r \notin S /\ Lists(left, S)
      BY <1>1, <1>19
    <2> HIDE DEF S
    <2>2. Lists(IndexInsert(split, left, r), S \cup {r})
      BY <1>10, <1>12, <2>1, IndexListed
    <2>3. QED
      BY <2>2 DEF S
  <1>21. Sound(n, IndexInsert(split, left, r), e, L \cup {Given(h, size)}, B \cup {r})
    <2>1. /\ r = h + (size + 2) /\ r + 2 <= h + m[h].word /\ n[h].word = size + 2
          /\ r + n[r].word = h + m[h].word /\ n[r].word \in Nat
      <3>1. r = h + (size + 2) /\ r + 2 <= h + W /\ r + (W - w) = h + W
        BY ONLY <1>2, <1>6, <1>7 DEF r
      <3>2. QED
        BY <3>1, <1>16, <1>7, <1>10 DEF W
    <2>2. QED
      BY <1>1, <1>5, <1>13, <1>16, <1>17, <1>18, <1>20, <2>1, SplitCarved
  <1>22. Carved(n, done.index, e, L, m, B, h, size)
    <2>1. m[h].word >= size + 2
      BY <1>2, <1>6 DEF W
    <2>2. QED
      BY <1>1, <1>5, <1>13, <1>17, <1>21, <2>1 DEF Carved
  <1>23. QED
    BY <1>5, <1>22 DEF n, h

\* HeapAllocate leaves a sound heap when the hole it takes is large enough.
LEMMA CarveSound ==
  ASSUME NEW m, NEW idx, NEW e, NEW L, NEW B, Sound(m, idx, e, L, B),
         NEW i \in 1 .. Len(idx), NEW size \in Sizes, m[idx[i]].word >= size + 2,
         Carve(m, idx, i, size, e).end <= HighWater
  PROVE  Carved(Filled(Carve(m, idx, i, size, e).mem, idx[i] + 1, size),
                Carve(m, idx, i, size, e).index, e, L, m, B, idx[i], size)
PROOF
  <1>1. m[idx[i]].word \in Nat /\ size \in Nat
    <2>1. idx[i] \in B
      BY IndexedHole
    <2>2. QED
      BY <2>1, SoundFacts, GivenFacts
  <1>2. CASE m[idx[i]].word < size + 4
    BY <1>2, CarveWholeSound
  <1>3. CASE m[idx[i]].word >= size + 4
    BY <1>3, CarveSplitSound
  <1>4. QED
    BY <1>1, <1>2, <1>3

(* Pages. *)

-----------------------------------------------------------------------------
(***************************************************************************)
(* HeapExpand.                                                             *)
(***************************************************************************)
\* Rounding to pages.
LEMMA AlignedFacts ==
  ASSUME NEW e \in Nat, e % PageSize = 0
  PROVE  (e \div PageSize) * PageSize = e /\ (e > 0 => e >= PageSize)
PROOF
  <1> DEFINE q == e \div PageSize
  <1>1. PageSize \in Nat \ {0}
    BY HeapAssumption
  <1>2. q \in Nat /\ e = PageSize * q + (e % PageSize)
    BY <1>1, DivMod
  <1> HIDE DEF q
  <1>3. e = PageSize * q
    BY <1>1, <1>2
  <1>4. q * PageSize = e
    BY <1>1, <1>2, <1>3
  <1>5. q > 0 => PageSize * q >= PageSize
    BY <1>1, <1>2
  <1>6. q = 0 => e = 0
    BY <1>1, <1>3
  <1>7. e > 0 => e >= PageSize
    BY <1>2, <1>3, <1>5, <1>6
  <1>8. QED
    BY <1>4, <1>7 DEF q

\* HeapExpand makes the heap longer by the request at least, and keeps its end
\* at a page boundary.
LEMMA ExpandedFacts ==
  ASSUME NEW x \in Nat
  PROVE  /\ ExpandedLength(x) \in Nat /\ ExpandedLength(x) >= x
         /\ x >= PageSize => ExpandedLength(x) > x /\ ExpandedLength(x) % PageSize = 0
PROOF
  <1> DEFINE q == x \div PageSize
             r == x % PageSize
             y == q * PageSize + PageSize
  <1>1. PageSize \in Nat \ {0}
    BY HeapAssumption
  <1>2. q \in Nat /\ r \in 0 .. PageSize - 1 /\ x = PageSize * q + r
    BY <1>1, DivMod
  <1> HIDE DEF q, r
  <1>3. y = PageSize * (q + 1) + 0 /\ q + 1 \in Nat /\ 0 \in 0 .. PageSize - 1
    BY <1>1, <1>2
  <1>4. PageSize * q = q * PageSize /\ q * PageSize \in Nat
    BY <1>1, <1>2
  <1>5. y \in Nat /\ y > x
    BY <1>1, <1>2, <1>4
  <1> HIDE DEF y
  <1>6. y % PageSize = 0
    BY <1>1, <1>3, <1>5, DivUnique
  <1>7. x >= PageSize => ExpandedLength(x) = y
    BY DEF ExpandedLength, y, q
  <1>8. ~(x >= PageSize) => ExpandedLength(x) = x
    BY DEF ExpandedLength
  <1>9. QED
    BY <1>5, <1>6, <1>7, <1>8

\* HeapFindSmallestHole returns a hole that is large enough, or none is.
LEMMA FindSmallest ==
  ASSUME NEW m, NEW idx \in Seq(Int), NEW size \in Int,
         \A i \in 1 .. Len(idx) : m[idx[i]].word \in Int
  PROVE  \/ /\ HeapFindSmallestHole(m, idx, size) = 0
            /\ \A i \in 1 .. Len(idx) : m[idx[i]].word < size
         \/ /\ HeapFindSmallestHole(m, idx, size) \in 1 .. Len(idx)
            /\ m[idx[HeapFindSmallestHole(m, idx, size)]].word >= size
PROOF
  <1> DEFINE F == {i \in 1 .. Len(idx) : m[idx[i]].word >= size}
             P(i) == \A j \in F : i <= j
  <1>1. HeapFindSmallestHole(m, idx, size) = IF F = {} THEN 0 ELSE CHOOSE i \in F : P(i)
    BY DEF HeapFindSmallestHole
  <1>2. CASE F = {}
    <2>1. \A i \in 1 .. Len(idx) : m[idx[i]].word < size
      BY <1>2
    <2>2. HeapFindSmallestHole(m, idx, size) = 0
      BY <1>1, <1>2
    <2>3. QED
      BY <2>1, <2>2
  <1>3. CASE F # {}
    <2>1. F \subseteq Nat
      OBVIOUS
    <2> HIDE DEF F
    <2>2. \E i \in F : P(i)
      BY <1>3, <2>1, LeastElement
    <2> HIDE DEF P
    <2>3. (CHOOSE i \in F : P(i)) \in F
      BY <2>2, Zenon
    <2>4. HeapFindSmallestHole(m, idx, size) \in F
      BY <1>1, <1>3, <2>3
    <2>5. QED
      BY <2>4 DEF F
  <1>4. QED
    BY <1>2, <1>3

\* Memory that agrees below the end of the heap is as good.
LEMMA SoundBelow ==
  ASSUME NEW m, NEW idx, NEW e, NEW L, NEW B, Sound(m, idx, e, L, B),
         NEW k \in Mem, \A c \in Space : c < e => k[c] = m[c]
  PROVE  Sound(k, idx, e, L, B)
PROOF
  <1>1. /\ Top \in Nat /\ e \in Nat /\ e > 0 /\ -1 \in Space /\ -1 < e
        /\ \A a \in B : a \in Space /\ a < e
    BY SoundFacts DEF Space
  <1>2. k[-1] = m[-1] /\ \A a \in B : k[a] = m[a]
    BY <1>1
  <1>3. ASSUME NEW a \in B, Footed(m, a) PROVE Footed(k, a)
    <2>1. a \in Nat /\ m[a].word \in Nat /\ m[a].word >= 2 /\ a + m[a].word <= e /\ e <= Top
      BY SoundFacts
    <2>2. a + m[a].word - 1 \in Space /\ a + m[a].word - 1 < e
      BY ONLY <1>1, <2>1 DEF Space
    <2>3. k[a + m[a].word - 1] = m[a + m[a].word - 1]
      BY <2>2
    <2>4. QED
      BY <1>2, <1>3, <2>3 DEF Footed
  <1>4. Tiled(k, e, B)
    BY <1>2 DEF Sound, Tiled
  <1>5. Held(k, B, L)
    <2>1. Held(m, B, L) /\ \A b \in L : b.addr - 1 \in B
      BY DEF Sound, Held
    <2>2. \A b \in L : k[b.addr - 1] = m[b.addr - 1]
      BY <1>2, <2>1
    <2>3. QED
      BY <1>2, <2>1, <2>2 DEF Held
  <1>6. HolesOf(k, B) = HolesOf(m, B)
    BY <1>2 DEF HolesOf
  <1>7. Apart(k, B)
    BY <1>2 DEF Sound, Apart
  <1>8. Ruled(k, e, L, B)
    <2>1. \A b \in L : b.addr - 1 \in B
      BY DEF Sound, Held
    <2>2. \A b \in L : k[b.addr - 1] = m[b.addr - 1]
      BY <1>2, <2>1
    <2>3. QED
      BY <1>2, <2>2 DEF Sound, Ruled
  <1>9. QED
    BY <1>2, <1>3, <1>4, <1>5, <1>6, <1>7, <1>8 DEF Sound

\* A hole of w cells at h with header and footer.
WroteHole(n, m, h, w) ==
  /\ n \in Mem
  /\ n[h].magic = TRUE /\ n[h].is_hole = TRUE /\ n[h].word = w
  /\ n[h + w - 1].magic = TRUE /\ n[h + w - 1].word = h
  /\ \A c \in Space : c # h /\ c # h + w - 1 => n[c] = m[c]

\* Header and footer of a new hole.
LEMMA HoleWritten ==
  ASSUME NEW m \in Mem, NEW h \in Nat, NEW w \in Nat, w >= 2, h + w <= Top, Top \in Nat
  PROVE  WroteHole(WithFooter(WithHeader(m, h, w, TRUE), h + w - 1, h), m, h, w)
PROOF
  <1> DEFINE f == h + w - 1
             k == WithHeader(m, h, w, TRUE)
             n == WithFooter(k, f, h)
  <1>1. Word \in Nat /\ 4 * Top < Word
    BY HeapAssumption
  <1>2. h \in Space /\ f \in Space /\ f # h /\ h \in 0 .. Word - 1 /\ w \in 0 .. Word - 1
    BY <1>1 DEF Space
  <1>3. WroteHeader(k, m, h, w, TRUE)
    BY <1>2, HeaderWritten
  <1>4. k \in Mem
    BY <1>3 DEF WroteHeader
  <1> HIDE DEF k, f
  <1>5. WroteFooter(n, k, f, h)
    BY <1>2, <1>4, FooterWritten
  <1> HIDE DEF n
  <1>6. WroteHole(n, m, h, w)
    BY <1>2, <1>3, <1>5 DEF WroteHeader, WroteFooter, WroteHole, f
  <1>7. QED
    BY <1>6 DEF n, k, f

\* A hole that got longer: its size and its new footer are written.
LEMMA HoleResized ==
  ASSUME NEW m \in Mem, NEW h \in Nat, NEW w \in Nat, w >= 2, h + w <= Top, Top \in Nat,
         m[h].magic = TRUE, m[h].is_hole = TRUE
  PROVE  WroteHole(WithFooter(WithWord(m, h, w), h + w - 1, h), m, h, w)
PROOF
  <1> DEFINE f == h + w - 1
             k == WithWord(m, h, w)
             n == WithFooter(k, f, h)
  <1>1. Word \in Nat /\ 4 * Top < Word
    BY HeapAssumption
  <1>2. h \in Space /\ f \in Space /\ f # h /\ h \in 0 .. Word - 1 /\ w \in 0 .. Word - 1
    BY <1>1 DEF Space
  <1>3. WroteWord(k, m, h, w)
    BY <1>2, WordWritten
  <1>4. k \in Mem
    BY <1>3 DEF WroteWord
  <1> HIDE DEF k, f
  <1>5. WroteFooter(n, k, f, h)
    BY <1>2, <1>4, FooterWritten
  <1> HIDE DEF n
  <1>6. WroteHole(n, m, h, w)
    BY <1>2, <1>3, <1>5 DEF WroteWord, WroteFooter, WroteHole, f
  <1>7. QED
    BY <1>6 DEF n, k, f

\* A heap without holes gets one at its old end.
LEMMA NewHoleSound ==
  ASSUME NEW m, NEW idx, NEW e, NEW L, NEW B, Sound(m, idx, e, L, B),
         FreeRule = "none", HolesOf(m, B) = {},
         NEW x \in Nat, x >= e + 2, x <= Top, x % PageSize = 0,
         NEW n, WroteHole(n, m, e, x - e),
         NEW idx1, Lists(idx1, {e})
  PROVE  Sound(n, idx1, x, L, B \cup {e})
PROOF
  <1>1. /\ m \in Mem /\ e \in Nat /\ e > 0 /\ Top \in Nat /\ 0 \in B /\ -1 \in Space
        /\ HeapMinSize \in Nat /\ e >= HeapMinSize
    BY SoundFacts
  <1>2. /\ n \in Mem
        /\ n[e].magic = TRUE /\ n[e].is_hole = TRUE /\ n[e].word = x - e
        /\ n[e + (x - e) - 1].magic = TRUE /\ n[e + (x - e) - 1].word = e
        /\ \A c \in Space : c # e /\ c # e + (x - e) - 1 => n[c] = m[c]
    BY DEF WroteHole
  <1>3. \A c \in Space : c < e => n[c] = m[c]
    <2>1. \A c \in Space : c < e => c # e /\ c # e + (x - e) - 1
      BY ONLY <1>1, x \in Nat, x >= e + 2 DEF Space
    <2>2. QED
      BY <1>2, <2>1
  <1>4. Sound(n, idx, e, L, B)
    BY <1>2, <1>3, SoundBelow
  <1>5. \A a \in B : m[a].is_hole # TRUE
    BY DEF HolesOf
  <1>6. \A a \in B : /\ a \in Nat /\ a < e /\ n[a] = m[a] /\ n[a].word \in Nat /\ n[a].word >= 2
                     /\ a + n[a].word \in B \cup {e} /\ a + n[a].word <= e /\ a \in Space
    BY <1>3, <1>4, SoundFacts
  <1>7. L # {}
    <2>1. ~m[0].is_hole
      BY <1>1 DEF HolesOf
    <2>2. QED
      BY <1>1, <2>1 DEF Sound, Held
  <1>8. Footed(n, e)
    BY <1>2 DEF Footed
  <1>9. \A a \in B \cup {e} : n[a].magic /\ Footed(n, a)
    BY <1>2, <1>4, <1>7, <1>8 DEF Sound
  <1> DEFINE C == B \cup {e}
  <1>10. Tiled(n, x, C)
    <2>1. \A a \in C : a \in 0 .. x - 1
      BY <1>1, <1>6
    <2>2. \A a \in C : n[a].word \in Int /\ n[a].word >= 2 /\ a + n[a].word \in C \cup {x}
      BY <1>1, <1>2, <1>6
    <2>3. ASSUME NEW a \in C, NEW b \in C, a < b PROVE a + n[a].word <= b
      <3>1. a \in B
        BY <1>1, <1>6, <2>3
      <3>2. CASE b = e
        BY <1>6, <3>1, <3>2
      <3>3. CASE b \in B
        BY <1>4, <2>3, <3>1, <3>3, SoundFacts
      <3>4. QED
        BY <3>2, <3>3
    <2>4. QED
      BY <1>1, <2>1, <2>2, <2>3 DEF Tiled
  <1>11. Held(n, C, L)
    <2>1. Held(n, B, L)
      BY <1>4 DEF Sound
    <2>2. QED
      BY <1>2, <2>1 DEF Held
  <1>12. HolesOf(n, C) = {e}
    BY <1>2, <1>5, <1>6 DEF HolesOf
  <1>13. Apart(n, C)
    <2>1. \A a \in C : n[a].is_hole => a = e
      BY <1>12 DEF HolesOf
    <2>2. e + n[e].word # e
      BY <1>1, <1>2
    <2>3. QED
      BY <2>1, <2>2 DEF Apart
  <1>14. Ruled(n, x, L, C)
    <2>1. \A a \in C : n[a].is_hole => a = e
      BY <1>12 DEF HolesOf
    <2>2. e + n[e].word = x
      BY <1>1, <1>2
    <2>3. QED
      BY <2>1, <2>2 DEF Ruled
  <1>15. n[-1].magic = FALSE /\ x \in HeapMinSize .. Top
    BY <1>1, <1>4 DEF Sound
  <1> HIDE DEF C
  <1>16. Sound(n, idx1, x, L, C)
    BY <1>2, <1>9, <1>10, <1>11, <1>12, <1>13, <1>14, <1>15 DEF Sound, C
  <1>17. QED
    BY <1>16 DEF C

\* Every cell of the blocks other than h is as before.
CellsKept(n, m, B, h) ==
  \A a \in B : a # h => \A c \in a .. (a + m[a].word) - 1 : n[c] = m[c]

\* The last hole takes the memory after it.
LEMMA LongerHoleSound ==
  ASSUME NEW m, NEW idx, NEW e, NEW L, NEW B, Sound(m, idx, e, L, B),
         FreeRule = "none", NEW h \in B, m[h].is_hole = TRUE,
         NEW x \in Nat, x >= e + 2, x <= Top, x % PageSize = 0,
         NEW n, WroteHole(n, m, h, x - h)
  PROVE  /\ Sound(n, idx, x, L, B)
         /\ CellsKept(n, m, B, h)
PROOF
  <1>1. /\ m \in Mem /\ e \in Nat /\ e > 0 /\ Top \in Nat /\ 0 \in B /\ -1 \in Space
        /\ HeapMinSize \in Nat /\ e >= HeapMinSize
        /\ h \in Nat /\ h < e /\ m[h].word \in Nat
    BY SoundFacts
  <1>2. /\ n \in Mem
        /\ n[h].magic = TRUE /\ n[h].is_hole = TRUE /\ n[h].word = x - h
        /\ n[h + (x - h) - 1].magic = TRUE /\ n[h + (x - h) - 1].word = h
        /\ \A c \in Space : c # h /\ c # h + (x - h) - 1 => n[c] = m[c]
    BY DEF WroteHole
  <1>3. h + m[h].word = e
    BY DEF Sound, Ruled
  <1>4. \A a \in B : /\ a \in Nat /\ a < e /\ a \in Space /\ m[a].word \in Nat /\ m[a].word >= 2
                     /\ a + m[a].word \in B \cup {e} /\ a + m[a].word <= e
                     /\ (a < h => a + m[a].word <= h) /\ (h < a => h + m[h].word <= a)
    BY SoundFacts
  <1>5. \A a \in B : a # h => a < h /\ a + m[a].word <= h /\ a + m[a].word \in B
    <2> TAKE a \in B
    <2>1. a # h => a < h
      BY <1>1, <1>3, <1>4
    <2>2. QED
      BY <1>1, <1>4, <2>1
  <1>6. \A c \in Space : c < h => n[c] = m[c]
    <2>1. \A c \in Space : c < h => c # h /\ c # h + (x - h) - 1
      BY ONLY <1>1, x \in Nat, x >= e + 2 DEF Space
    <2>2. QED
      BY <1>2, <2>1
  <1>7. ASSUME NEW a \in B, a # h PROVE \A c \in a .. (a + m[a].word) - 1 : n[c] = m[c]
    <2>1. a \in Nat /\ m[a].word \in Nat /\ a + m[a].word <= h /\ h < e /\ e <= Top
      BY <1>4, <1>5, <1>7, <1>1, SoundFacts
    <2>2. \A c \in a .. (a + m[a].word) - 1 : c \in Space /\ c < h
      BY ONLY <2>1, <1>1 DEF Space
    <2>3. QED
      BY <1>6, <2>2
  <1>8. \A a \in B : a # h => n[a] = m[a]
    BY <1>4, <1>5, <1>6
  <1>9. Footed(n, h)
    BY <1>2 DEF Footed
  <1>10. ASSUME NEW a \in B, a # h, Footed(m, a) PROVE Footed(n, a)
    <2>1. a \in Nat /\ m[a].word \in Nat /\ m[a].word >= 2
      BY <1>4
    <2>2. a + m[a].word - 1 \in a .. (a + m[a].word) - 1
      BY ONLY <2>1
    <2>3. n[a + m[a].word - 1] = m[a + m[a].word - 1]
      BY <1>7, <1>10, <2>2
    <2>4. QED
      BY <1>8, <1>10, <2>3 DEF Footed
  <1>11. Tiled(n, x, B)
    <2>1. \A a \in B : a \in 0 .. x - 1
      <3>1. \A a \in B : a \in Nat /\ a < e
        BY <1>4
      <3>2. x \in Nat /\ e < x
        BY <1>1
      <3>3. e \in Nat
        BY <1>1
      <3>4. QED
        BY ONLY <3>1, <3>2, <3>3
    <2>2. \A a \in B : n[a].word \in Int /\ n[a].word >= 2 /\ a + n[a].word \in B \cup {x}
      <3> TAKE a \in B
      <3>1. CASE a = h
        BY <1>1, <1>2, <3>1
      <3>2. CASE a # h
        BY <1>4, <1>5, <1>8, <3>2
      <3>3. QED
        BY <3>1, <3>2
    <2>3. ASSUME NEW a \in B, NEW b \in B, a < b PROVE a + n[a].word <= b
      <3>1. a # h
        BY <1>1, <1>4, <1>5, <2>3
      <3>2. n[a] = m[a]
        BY <1>8, <3>1
      <3>3. QED
        BY <2>3, <3>2, SoundFacts
    <2>4. QED
      BY <1>1, <2>1, <2>2, <2>3 DEF Tiled
  <1>12. Held(n, B, L)
    <2>1. Held(m, B, L)
      BY DEF Sound
    <2>2. \A b \in L : b.addr - 1 \in B /\ b.addr - 1 # h /\ n[b.addr - 1] = m[b.addr - 1]
      BY <1>8, <2>1 DEF Held
    <2>3. QED
      BY <1>2, <1>8, <2>1, <2>2 DEF Held
  <1>13. HolesOf(n, B) = HolesOf(m, B)
    BY <1>2, <1>8 DEF HolesOf
  <1>14. \A a \in B : n[a].is_hole => a = h
    <2>1. \A a \in B : m[a].is_hole => a + m[a].word = e
      BY DEF Sound, Ruled
    <2>2. \A a \in B : a # h => a + m[a].word # e
      BY <1>1, <1>4, <1>5
    <2>3. QED
      BY <1>8, <2>1, <2>2
  <1>15. h + n[h].word = x
    BY <1>1, <1>2
  <1>16. Apart(n, B)
    <2>1. x \notin B
      BY <1>1, <1>4
    <2>2. QED
      BY <1>14, <1>15, <2>1 DEF Apart
  <1>17. Ruled(n, x, L, B)
    BY <1>14, <1>15 DEF Ruled
  <1>18. n[-1].magic = FALSE /\ x \in HeapMinSize .. Top
    BY <1>1, <1>6 DEF Sound
  <1>19. \A a \in B : n[a].magic
    BY <1>2, <1>8 DEF Sound
  <1>20. \A a \in B : (a # 0 \/ L # {}) => Footed(n, a)
    BY <1>9, <1>10 DEF Sound
  <1>21. Lists(idx, HolesOf(n, B))
    BY <1>13 DEF Sound
  <1>22. Sound(n, idx, x, L, B)
    BY <1>2, <1>11, <1>12, <1>16, <1>17, <1>18, <1>19, <1>20, <1>21 DEF Sound
  <1>23. QED
    BY <1>7, <1>22 DEF CellsKept

\* HeapExpand maps nothing over the heap when the heap ends at a page
\* boundary.
LEMMA RemapFacts ==
  ASSUME NEW m \in Mem, NEW e \in Nat, NEW x \in Nat
  PROVE  /\ Remap(m, e, x) \in Mem
         /\ \A c \in Space : Remap(m, e, x)[c] = m[c] \/ Remap(m, e, x)[c].word = 0
         /\ e % PageSize = 0 => \A c \in Space : c < e => Remap(m, e, x)[c] = m[c]
PROOF
  <1> DEFINE s == (e \div PageSize) * PageSize
             k == [c \in Space |-> IF c \in s .. x - 1 THEN Junk ELSE m[c]]
  <1>1. DOMAIN m = Space /\ \A c \in Space : m[c] \in Cell
    BY DEF Mem, Space
  <1>2. Junk \in Cell /\ Junk.word = 0
    BY HeapAssumption DEF Junk, Cell
  <1>3. Remap(m, e, x) = k
    BY <1>1 DEF Remap
  <1>4. e % PageSize = 0 => s = e
    BY AlignedFacts
  <1> HIDE DEF s
  <1>5. k \in Mem
    BY <1>1, <1>2 DEF Mem, Space
  <1>6. \A c \in Space : k[c] = m[c] \/ k[c] = Junk
    OBVIOUS
  <1>7. s = e => \A c \in Space : c < e => k[c] = m[c]
    <2>1. \A c \in Space : c < e => c \notin e .. x - 1
      BY HeapAssumption DEF Space
    <2>2. QED
      BY <2>1
  <1> HIDE DEF k
  <1>8. QED
    BY <1>2, <1>3, <1>4, <1>5, <1>6, <1>7

\* The hole with the highest address.
Highest(idx) == CHOOSE a \in {idx[i] : i \in 1 .. Len(idx)} :
                  \A i \in 1 .. Len(idx) : idx[i] <= a

\* The hole HeapAllocate picks for the new memory has the highest address.
LEMMA HighestFacts ==
  ASSUME NEW idx, NEW S, Lists(idx, S), S \subseteq Nat, idx # <<>>,
         NEW b \in Nat, \A a \in S : a <= b
  PROVE  Highest(idx) \in S /\ \A a \in S : a <= Highest(idx)
PROOF
  <1>1. idx \in Seq(Int) /\ Len(idx) \in Nat /\ S = {idx[i] : i \in 1 .. Len(idx)}
    BY DEF Lists
  <1>2. S # {}
    <2>1. Len(idx) > 0
      BY <1>1
    <2>2. 1 \in 1 .. Len(idx)
      BY <1>1, <2>1
    <2>3. idx[1] \in S
      BY <1>1, <2>2
    <2>4. QED
      BY <2>3
  <1>3. S \subseteq 0 .. b
    OBVIOUS
  <1>4. \E a \in S : \A y \in S : y <= a
    BY <1>2, <1>3, GreatestElement
  <1> DEFINE P(a) == \A i \in 1 .. Len(idx) : idx[i] <= a
  <1>5. \E a \in S : P(a)
    BY <1>1, <1>4
  <1>6. Highest(idx) = CHOOSE a \in S : P(a)
    BY <1>1 DEF Highest
  <1>7. Highest(idx) \in S /\ P(Highest(idx))
    <2> HIDE DEF P
    <2> QED
      BY <1>5, <1>6, Zenon
  <1>8. QED
    BY <1>1, <1>7

\* What growth leaves: a sound heap with a hole of at least x - e cells, and
\* every block in use untouched.
Grown(n, idx1, x, e, L, m, B) ==
  /\ n \in Mem
  /\ \E C : Sound(n, idx1, x, L, C)
  /\ \E i \in 1 .. Len(idx1) : n[idx1[i]].word >= x - e
  /\ \A a \in B : m[a].is_hole # TRUE => \A c \in a .. (a + m[a].word) - 1 : n[c] = m[c]

\* HeapExpand of a heap without holes leaves it sound.
LEMMA GrowFirst ==
  ASSUME NEW m, NEW idx, NEW e, NEW L, NEW B, Sound(m, idx, e, L, B),
         FreeRule = "none", idx = <<>>,
         NEW x \in Nat, x >= e + 2, x <= Top, x % PageSize = 0,
         NEW k \in Mem, \A c \in Space : c < e => k[c] = m[c]
  PROVE  Grown(Grow(k, idx, e, x).mem, Grow(k, idx, e, x).index, x, e, L, m, B)
PROOF
  <1> DEFINE w == x - e
             n == WithFooter(WithHeader(k, e, x - e, TRUE), x - 1, e)
             idx1 == IndexInsert(n, idx, e)
  <1>1. /\ e \in Nat /\ e > 0 /\ Top \in Nat /\ e <= Top /\ m \in Mem
        /\ \A a \in B : a \in Nat /\ a < e /\ a \in Space /\ m[a].word \in Nat /\ a + m[a].word <= e
    BY SoundFacts
  <1>2. Grow(k, idx, e, x).mem = n /\ Grow(k, idx, e, x).index = idx1
    BY DEF Grow
  <1>3. Sound(k, idx, e, L, B)
    BY SoundBelow
  <1>4. HolesOf(k, B) = {}
    <2>1. Lists(<<>>, HolesOf(k, B))
      BY <1>3 DEF Sound
    <2>2. Len(<<>>) = 0
      OBVIOUS
    <2>3. HolesOf(k, B) = {<<>>[i] : i \in 1 .. 0}
      BY <2>1, <2>2 DEF Lists
    <2>4. 1 .. 0 = {}
      OBVIOUS
    <2>5. QED
      BY <2>3, <2>4
  <1>5. w \in Nat /\ w >= 2 /\ e + w <= Top /\ e + w - 1 = x - 1
    BY ONLY <1>1, x \in Nat, x >= e + 2, x <= Top
  <1>6. WroteHole(n, k, e, w)
    <2>1. n = WithFooter(WithHeader(k, e, w, TRUE), e + w - 1, e)
      BY <1>5
    <2> HIDE DEF w, n
    <2>2. WroteHole(WithFooter(WithHeader(k, e, w, TRUE), e + w - 1, e), k, e, w)
      BY <1>1, <1>5, HoleWritten
    <2>3. QED
      BY <2>1, <2>2
  <1>7. n \in Mem /\ n[e].word = w /\ e \in Space
    <2> HIDE DEF n, w
    <2>1. n \in Mem /\ n[e].word = w
      BY <1>6 DEF WroteHole
    <2>2. e \in Space
      BY ONLY <1>1, <1>5 DEF Space
    <2>3. QED
      BY <2>1, <2>2
  <1>8. Lists(idx1, {e})
    <2>1. Lists(idx, {})
      BY <1>3, <1>4 DEF Sound
    <2> HIDE DEF n
    <2>2. Lists(IndexInsert(n, idx, e), {} \cup {e})
      BY <1>7, <2>1, IndexListed
    <2>3. {} \cup {e} = {e}
      OBVIOUS
    <2>4. QED
      BY <2>2, <2>3
  <1> HIDE DEF n, idx1
  <1>9. Sound(n, idx1, x, L, B \cup {e})
    BY <1>3, <1>4, <1>6, <1>8, NewHoleSound
  <1>10. \E i \in 1 .. Len(idx1) : n[idx1[i]].word >= x - e
    <2>1. \E i \in 1 .. Len(idx1) : idx1[i] = e
      BY <1>8 DEF Lists
    <2>2. w >= x - e
      BY <1>1
    <2>3. QED
      BY <1>7, <2>1, <2>2
  <1>11. ASSUME NEW a \in B, NEW c \in a .. (a + m[a].word) - 1 PROVE n[c] = m[c]
    <2>1. a \in Nat /\ m[a].word \in Nat /\ a + m[a].word <= e
      BY <1>1
    <2>2. c \in Space /\ c < e /\ c # e /\ c # e + w - 1
      BY ONLY <1>1, <1>5, <2>1, c \in a .. (a + m[a].word) - 1, x \in Nat, x >= e + 2 DEF Space
    <2>3. n[c] = k[c]
      BY <1>6, <2>2 DEF WroteHole
    <2>4. QED
      BY <2>2, <2>3
  <1>12. QED
    BY <1>2, <1>7, <1>9, <1>10, <1>11 DEF Grown

\* HeapExpand of a heap with a hole leaves it sound: under "none" that hole is
\* its last block.
LEMMA GrowLast ==
  ASSUME NEW m, NEW idx, NEW e, NEW L, NEW B, Sound(m, idx, e, L, B),
         FreeRule = "none", idx # <<>>,
         NEW x \in Nat, x >= e + 2, x <= Top, x % PageSize = 0,
         NEW k \in Mem, \A c \in Space : c < e => k[c] = m[c]
  PROVE  Grown(Grow(k, idx, e, x).mem, Grow(k, idx, e, x).index, x, e, L, m, B)
PROOF
  <1> DEFINE h == Highest(idx)
             size == k[h].word + (x - e)
             n == WithFooter(WithWord(k, h, size), h + size - 1, h)
  <1>1. /\ e \in Nat /\ e > 0 /\ Top \in Nat /\ e <= Top /\ m \in Mem
        /\ \A a \in B : a \in Nat /\ a < e /\ a \in Space /\ m[a].word \in Nat /\ a + m[a].word <= e
    BY SoundFacts
  <1>2. Grow(k, idx, e, x).mem = n /\ Grow(k, idx, e, x).index = idx
    BY DEF Grow, Highest
  <1>3. Sound(k, idx, e, L, B)
    BY SoundBelow
  <1>4. h \in HolesOf(k, B)
    <2>1. Lists(idx, HolesOf(k, B))
      BY <1>3 DEF Sound
    <2>2. HolesOf(k, B) \subseteq Nat /\ \A a \in HolesOf(k, B) : a <= e
      BY <1>1 DEF HolesOf
    <2>3. QED
      BY <1>1, <2>1, <2>2, HighestFacts
  <1> HIDE DEF h
  <1>5. h \in B /\ k[h].is_hole = TRUE /\ k[h].magic = TRUE
    <2>1. h \in B /\ k[h].is_hole /\ k[h].magic
      BY <1>3, <1>4 DEF HolesOf, Sound
    <2>2. k[h].is_hole \in BOOLEAN /\ k[h].magic \in BOOLEAN
      <3>1. h \in Space
        BY <1>1, <2>1
      <3>2. QED
        BY <3>1 DEF Mem, Cell, Space
    <2>3. QED
      BY <2>1, <2>2
  <1>6. h + k[h].word = e /\ h \in Nat /\ h < e /\ k[h].word \in Nat /\ h \in Space /\ k[h] = m[h]
    <2>1. h + k[h].word = e
      BY <1>3, <1>5 DEF Sound, Ruled
    <2>2. k[h] = m[h]
      BY <1>1, <1>5
    <2>3. QED
      BY <1>1, <1>5, <2>1, <2>2
  <1>7. size = x - h /\ size \in Nat /\ size >= 2 /\ h + size <= Top /\ size >= x - e
    BY ONLY <1>1, <1>6, x \in Nat, x >= e + 2, x <= Top
  <1> HIDE DEF size
  <1>8. WroteHole(n, k, h, size)
    BY <1>1, <1>5, <1>6, <1>7, HoleResized
  <1> HIDE DEF n
  <1>9. /\ Sound(n, idx, x, L, B)
        /\ \A a \in B : a # h => \A c \in a .. (a + k[a].word) - 1 : n[c] = k[c]
    <2>1. WroteHole(n, k, h, x - h)
      BY <1>7, <1>8
    <2>2. Sound(n, idx, x, L, B) /\ CellsKept(n, k, B, h)
      BY <1>3, <1>5, <2>1, LongerHoleSound
    <2>3. QED
      BY <2>2 DEF CellsKept
  <1>10. n \in Mem /\ n[h].word = size
    BY <1>8 DEF WroteHole
  <1>11. \E i \in 1 .. Len(idx) : n[idx[i]].word >= x - e
    <2>1. \E i \in 1 .. Len(idx) : idx[i] = h
      BY <1>3, <1>4 DEF Sound, Lists
    <2>2. QED
      BY <1>7, <1>10, <2>1
  <1>12. ASSUME NEW a \in B, m[a].is_hole # TRUE, NEW c \in a .. (a + m[a].word) - 1 PROVE n[c] = m[c]
    <2>1. a # h /\ k[a] = m[a]
      BY <1>1, <1>5, <1>6, <1>12
    <2>2. a \in Nat /\ m[a].word \in Nat /\ a + m[a].word <= e
      BY <1>1
    <2>3. c \in Space /\ c < e
      BY ONLY <1>1, <2>2, c \in a .. (a + m[a].word) - 1 DEF Space
    <2>4. n[c] = k[c]
      BY <1>9, <2>1
    <2>5. QED
      BY <2>3, <2>4
  <1>13. QED
    BY <1>2, <1>9, <1>10, <1>11, <1>12 DEF Grown

-----------------------------------------------------------------------------
(***************************************************************************)
(* kmalloc.                                                                *)
(***************************************************************************)
\* The payload of a caller lies between the header and the footer of its block.
LEMMA PayloadInside ==
  ASSUME NEW m, NEW idx, NEW e, NEW L, NEW B, Sound(m, idx, e, L, B), NEW b \in L
  PROVE  /\ b.addr - 1 \in B /\ m[b.addr - 1].is_hole # TRUE
         /\ \A c \in Payload(b) :
              /\ c \in (b.addr - 1) .. ((b.addr - 1) + m[b.addr - 1].word) - 1
              /\ c # b.addr - 1 /\ c # (b.addr - 1) + m[b.addr - 1].word - 1
PROOF
  <1>1. Held(m, B, L)
    BY DEF Sound
  <1>2. /\ b.addr \in Nat /\ b.addr >= 1 /\ b.size \in Nat /\ b.size >= 1
        /\ b.addr - 1 \in B /\ m[b.addr - 1].is_hole # TRUE
        /\ m[b.addr - 1].word >= b.size + 2
    BY <1>1, HeldFacts
  <1>3. m[b.addr - 1].word \in Nat
    BY <1>2, SoundFacts
  <1> DEFINE d == b.addr
             w == m[d - 1].word
             z == b.size
  <1>4. d \in Nat /\ d >= 1 /\ z \in Nat /\ z >= 1 /\ w \in Nat /\ w >= z + 2
    BY <1>2, <1>3
  <1>5. Payload(b) = d .. d + z - 1
    BY DEF Payload
  <1> HIDE DEF d, w, z
  <1>6. \A c \in d .. d + z - 1 :
          /\ c \in (d - 1) .. ((d - 1) + w) - 1
          /\ c # d - 1 /\ c # (d - 1) + w - 1
    BY ONLY <1>4
  <1>7. QED
    BY <1>2, <1>5, <1>6 DEF d, w, z

\* A request was served: g is new, overlaps nothing, and no payload changed.
Served(n, m, L, g) ==
  /\ g \notin L
  /\ \A b \in L : Payload(b) \cap Payload(g) = {}
  /\ \A b \in L : \A c \in Payload(b) : n[c] = m[c]

\* A block cut from a hole overlaps no payload.
LEMMA CarvedServed ==
  ASSUME NEW m, NEW idx, NEW e, NEW L, NEW B, Sound(m, idx, e, L, B),
         NEW n, NEW idx1, NEW h, NEW size \in Sizes,
         Carved(n, idx1, e, L, m, B, h, size)
  PROVE  Served(n, m, L, Given(h, size))
PROOF
  <1> DEFINE g == Given(h, size)
  <1>1. h \in B /\ m[h].is_hole = TRUE /\ n \in Mem /\ Within(n, m, h) /\ m[h].word >= size + 2
    BY DEF Carved
  <1>2. h \in Nat /\ m[h].word \in Nat
    BY <1>1, SoundFacts
  <1>3. g.addr = h + 1 /\ g.addr - 1 = h /\ g.size = size /\ size \in Nat /\ size >= 1
    BY <1>2, GivenFacts
  <1> HIDE DEF g
  <1>4. \A b \in L : b.addr - 1 # h
    BY <1>1, PayloadInside
  <1>5. g \notin L
    BY <1>3, <1>4
  <1>6. ASSUME NEW b \in L, NEW c \in Payload(b) PROVE n[c] = m[c] /\ c \notin Payload(g)
    <2> DEFINE a == b.addr - 1
    <2>1. a \in B /\ a # h /\ c \in a .. (a + m[a].word) - 1
      BY <1>4, PayloadInside
    <2> HIDE DEF a
    <2>2. c \in Space /\ ~(h <= c /\ c < h + m[h].word)
      BY <1>1, <2>1, BlocksDisjoint
    <2>3. n[c] = m[c]
      BY <1>1, <2>2 DEF Within
    <2>4. \A d \in Payload(g) : h <= d /\ d < h + m[h].word
      BY ONLY <1>1, <1>2, <1>3 DEF Payload
    <2>5. QED
      BY <2>2, <2>3, <2>4
  <1>7. QED
    BY <1>5, <1>6 DEF Served, g

\* What a step of kmalloc does.
Allocated ==
  \E g : live' = live \cup {g} /\ Served(mem', mem, live, g)

\* kmalloc from a hole of the index.
LEMMA FromHoleSound ==
  ASSUME NEW B, Sound(mem, index, end_address, live, B), NEW size \in Sizes, kmallocFromHole(size)
  PROVE  /\ \E C : Sound(mem', index', end_address', live', C)
         /\ Allocated
PROOF
  <1> DEFINE i == HeapFindSmallestHole(mem, index, size + Overhead)
             done == Carve(mem, index, i, size, end_address)
             h == index[i]
  <1>1. /\ i # 0 /\ done.end <= HighWater
        /\ mem' = Filled(done.mem, index[i] + 1, size)
        /\ index' = done.index
        /\ live' = live \cup {[addr |-> index[i] + 1, size |-> size]}
        /\ end_address' = end_address
    BY DEF kmallocFromHole
  <1>2. index \in Seq(Int) /\ \A j \in 1 .. Len(index) : mem[index[j]].word \in Int
    <2>1. index \in Seq(Int)
      BY DEF Sound, Lists
    <2>2. \A j \in 1 .. Len(index) : index[j] \in B
      BY IndexedHole
    <2>3. QED
      BY <2>1, <2>2, SoundFacts
  <1>3. size \in Nat /\ size + Overhead \in Int /\ size + Overhead = size + 2
    BY SizeFacts DEF Overhead
  <1>4. i \in 1 .. Len(index) /\ mem[index[i]].word >= size + Overhead
    BY <1>1, <1>2, <1>3, FindSmallest
  <1> HIDE DEF i
  <1>5. Carved(Filled(done.mem, index[i] + 1, size), done.index, end_address, live, mem, B, index[i], size)
    BY <1>1, <1>3, <1>4, CarveSound
  <1>6. live' = live \cup {Given(h, size)}
    BY <1>1 DEF Given
  <1>7. Carved(mem', index', end_address, live, mem, B, h, size)
    BY <1>1, <1>5
  <1> HIDE DEF done, h
  <1>8. Served(mem', mem, live, Given(h, size))
    BY <1>7, CarvedServed
  <1>9. \E C : Sound(mem', index', end_address, live \cup {Given(h, size)}, C)
    BY <1>7 DEF Carved
  <1>10. QED
    BY <1>1, <1>6, <1>8, <1>9 DEF Allocated

\* kmalloc when the heap has to be expanded, under "none".
LEMMA GrowingSound ==
  ASSUME NEW B, Sound(mem, index, end_address, live, B), NEW size \in Sizes, kmallocGrowing(size),
         FreeRule = "none"
  PROVE  /\ \E C : Sound(mem', index', end_address', live', C)
         /\ Allocated
PROOF
  <1> DEFINE x == ExpandedLength(end_address + size + Overhead)
             k == Remap(mem, end_address, x)
             grown == Grow(k, index, end_address, x)
             n == grown.mem
             idx == grown.index
             i == HeapFindSmallestHole(n, idx, size + Overhead)
             done == Carve(n, idx, i, size, x)
             h == idx[i]
  <1>1. /\ x <= Top /\ done.end <= HighWater
        /\ mem' = Filled(done.mem, idx[i] + 1, size)
        /\ index' = done.index
        /\ live' = live \cup {[addr |-> idx[i] + 1, size |-> size]}
        /\ end_address' = x
    BY DEF kmallocGrowing
  <1>2. size \in Nat /\ size + Overhead \in Int /\ size + Overhead = size + 2 /\ size >= 1
    BY SizeFacts DEF Overhead
  <1>3. /\ end_address \in Nat /\ end_address > 0 /\ mem \in Mem
    BY SoundFacts
  <1>4. end_address % PageSize = 0
    BY DEF Sound, Ruled
  <1>5. x \in Nat /\ x > (end_address + size) + Overhead /\ x % PageSize = 0
    <2>1. (end_address + size) + Overhead \in Nat /\ (end_address + size) + Overhead >= PageSize
      <3>1. end_address >= PageSize /\ PageSize \in Nat
        BY <1>3, <1>4, AlignedFacts, HeapAssumption
      <3>2. QED
        BY <1>2, <1>3, <3>1 DEF Overhead
    <2>2. QED
      BY <2>1, ExpandedFacts
  <1> HIDE DEF x
  <1>6. x >= end_address + 2 /\ x - end_address >= size + 2
    BY ONLY <1>2, <1>3, <1>5 DEF Overhead
  <1>7. k \in Mem /\ \A c \in Space : c < end_address => k[c] = mem[c]
    BY <1>3, <1>4, <1>5, RemapFacts
  <1> HIDE DEF k
  <1>8. Grown(n, idx, x, end_address, live, mem, B)
    <2>1. CASE index = <<>>
      BY <1>1, <1>5, <1>6, <1>7, <2>1, GrowFirst
    <2>2. CASE index # <<>>
      BY <1>1, <1>5, <1>6, <1>7, <2>2, GrowLast
    <2>3. QED
      BY <2>1, <2>2
  <1> HIDE DEF n, idx
  <1>9. PICK C : Sound(n, idx, x, live, C)
    BY <1>8 DEF Grown
  <1>10. idx \in Seq(Int) /\ \A j \in 1 .. Len(idx) : n[idx[j]].word \in Int
    <2>1. idx \in Seq(Int)
      BY <1>9 DEF Sound, Lists
    <2>2. \A j \in 1 .. Len(idx) : idx[j] \in C
      BY <1>9, IndexedHole
    <2>3. QED
      BY <1>9, <2>1, <2>2, SoundFacts
  <1>11. \E j \in 1 .. Len(idx) : ~(n[idx[j]].word < size + Overhead)
    <2>1. PICK j \in 1 .. Len(idx) : n[idx[j]].word >= x - end_address
      BY <1>8 DEF Grown
    <2>2. n[idx[j]].word \in Int
      BY <1>10
    <2>3. ~(n[idx[j]].word < size + Overhead)
      BY ONLY <1>2, <1>3, <1>5, <1>6, <2>1, <2>2
    <2>4. QED
      BY <2>3
  <1>12. i \in 1 .. Len(idx) /\ n[idx[i]].word >= size + Overhead
    BY <1>2, <1>10, <1>11, FindSmallest
  <1> HIDE DEF i
  <1>13. Carved(Filled(done.mem, idx[i] + 1, size), done.index, x, live, n, C, idx[i], size)
    BY <1>1, <1>2, <1>9, <1>12, CarveSound
  <1>14. live' = live \cup {Given(h, size)}
    BY <1>1 DEF Given
  <1>15. Carved(mem', index', x, live, n, C, h, size)
    BY <1>1, <1>13
  <1> HIDE DEF done, h
  <1>16. Served(mem', n, live, Given(h, size))
    BY <1>9, <1>15, CarvedServed
  <1>17. \E D : Sound(mem', index', x, live \cup {Given(h, size)}, D)
    BY <1>15 DEF Carved
  <1>18. ASSUME NEW b \in live, NEW c \in Payload(b) PROVE n[c] = mem[c]
    <2> DEFINE a == b.addr - 1
    <2>1. a \in B /\ mem[a].is_hole # TRUE /\ c \in a .. (a + mem[a].word) - 1
      BY PayloadInside
    <2> HIDE DEF a
    <2>2. QED
      BY <1>8, <2>1 DEF Grown
  <1>19. Served(mem', mem, live, Given(h, size))
    BY <1>16, <1>18 DEF Served
  <1>20. QED
    BY <1>1, <1>14, <1>17, <1>19 DEF Allocated

\* Under "safe" the heap always ends in a hole: blocks in use end below
\* HighWater, which is below HEAP_MIN_SIZE.
LEMMA LastHole ==
  ASSUME NEW m, NEW idx, NEW e, NEW L, NEW B, Sound(m, idx, e, L, B),
         FreeRule = "safe", HighWater < HeapMinSize
  PROVE  \E h \in B : h + m[h].word = e /\ m[h].is_hole = TRUE /\ \A a \in B : a <= h
PROOF
  <1>1. /\ e \in Nat /\ e > 0 /\ m \in Mem /\ e >= HeapMinSize /\ HeapMinSize \in Nat
        /\ \A a \in B : a \in Nat /\ a < e /\ a \in Space /\ m[a].word \in Nat
        /\ \A a, b \in B : a < b => a + m[a].word <= b
    BY SoundFacts
  <1>2. HighWater \in Nat
    BY HeapAssumption
  <1>3. PICK h \in B : h + m[h].word = e
    <2>1. Tiled(m, e, B) /\ e \in B \cup {e} /\ e # 0
      BY <1>1 DEF Sound
    <2>2. QED
      BY <2>1, BlockBefore
  <1>4. \A a \in B : a <= h
    BY <1>1, <1>3
  <1>5. m[h].is_hole
    <2>1. SUFFICES ASSUME ~m[h].is_hole PROVE FALSE
      OBVIOUS
    <2>2. PICK b \in L : b.addr - 1 = h
      BY <2>1 DEF Sound, Held
    <2>3. (b.addr - 1) + m[b.addr - 1].word <= HighWater
      BY DEF Sound, Ruled
    <2>4. QED
      BY <1>1, <1>2, <1>3, <2>2, <2>3
  <1>6. m[h].is_hole \in BOOLEAN
    <2>1. h \in Space
      BY <1>1
    <2>2. QED
      BY <1>1, <2>1 DEF Mem, Cell, Space
  <1>7. QED
    BY <1>3, <1>4, <1>5, <1>6

\* The block kmalloc cuts ends after header, payload and footer.
LEMMA CarveEnd ==
  ASSUME NEW m, NEW idx, NEW i, NEW size \in Nat, NEW e,
         idx[i] \in Int, m[idx[i]].word \in Int, m[idx[i]].word >= size + 2
  PROVE  /\ Carve(m, idx, i, size, e).end \in Int
         /\ Carve(m, idx, i, size, e).end >= idx[i] + (size + 2)
PROOF
  <1> DEFINE W == m[idx[i]].word
             whole == W - (size + Overhead) < Overhead
  <1>1. Carve(m, idx, i, size, e).end = idx[i] + (IF whole THEN W ELSE size + Overhead)
    BY DEF Carve
  <1>2. QED
    BY <1>1 DEF Overhead

\* Under "safe" a request that no hole can serve would end past HighWater, so
\* the heap is never expanded.
LEMMA NoGrowth ==
  ASSUME NEW B, Sound(mem, index, end_address, live, B), NEW size \in Sizes,
         FreeRule = "safe", HighWater < HeapMinSize
  PROVE  ~kmallocGrowing(size)
PROOF
  <1> SUFFICES ASSUME kmallocGrowing(size) PROVE FALSE
    OBVIOUS
  <1> DEFINE e == end_address
             x == ExpandedLength(end_address + size + Overhead)
             k == Remap(mem, end_address, x)
             grown == Grow(k, index, end_address, x)
             n == grown.mem
             i == HeapFindSmallestHole(n, grown.index, size + Overhead)
             h == Highest(index)
             w == k[h].word + (x - end_address)
             f == h + w - 1
  <1>1. /\ x <= Top
        /\ HeapFindSmallestHole(mem, index, size + Overhead) = 0
        /\ Carve(n, grown.index, i, size, x).end <= HighWater
    BY DEF kmallocGrowing
  <1>2. size \in Nat /\ size + Overhead \in Int /\ size + Overhead = size + 2 /\ size >= 1
    BY SizeFacts DEF Overhead
  <1>3. /\ e \in Nat /\ e > 0 /\ mem \in Mem /\ e >= HeapMinSize /\ HeapMinSize \in Nat
        /\ Top \in Nat /\ e <= Top
        /\ \A a \in B : a \in Nat /\ a < e /\ a \in Space /\ mem[a].word \in Nat
    BY SoundFacts
  <1>4. HighWater \in Nat /\ Word \in Nat /\ 4 * Top < Word
    BY HeapAssumption
  <1>5. PICK l \in B : l + mem[l].word = e /\ mem[l].is_hole = TRUE /\ \A a \in B : a <= l
    BY LastHole
  <1>6. Lists(index, HolesOf(mem, B)) /\ l \in HolesOf(mem, B)
    BY <1>5 DEF Sound, HolesOf
  <1>7. index # <<>>
    <2>1. PICK j \in 1 .. Len(index) : index[j] = l
      BY <1>6 DEF Lists
    <2>2. SUFFICES ASSUME index = <<>> PROVE FALSE
      OBVIOUS
    <2>3. Len(index) = 0
      BY <2>2
    <2>4. QED
      BY <2>1, <2>3
  <1>8. h = l
    <2>1. HolesOf(mem, B) \subseteq Nat /\ \A a \in HolesOf(mem, B) : a <= e
      BY <1>3 DEF HolesOf
    <2>2. h \in HolesOf(mem, B) /\ \A a \in HolesOf(mem, B) : a <= h
      BY <1>3, <1>6, <1>7, <2>1, HighestFacts
    <2> HIDE DEF h
    <2>3. h \in B /\ l <= h
      BY <1>6, <2>2 DEF HolesOf
    <2>4. QED
      BY <1>3, <1>5, <2>3
  <1>9. index \in Seq(Int) /\ \A j \in 1 .. Len(index) : index[j] \in B /\ mem[index[j]].word \in Int
    <2>1. index \in Seq(Int)
      BY DEF Sound, Lists
    <2>2. \A j \in 1 .. Len(index) : index[j] \in B
      BY IndexedHole
    <2>3. QED
      BY <1>3, <2>1, <2>2
  <1>10. \A j \in 1 .. Len(index) : mem[index[j]].word < size + 2
    <2>1. \A j \in 1 .. Len(index) : mem[index[j]].word \in Int
      BY <1>9
    <2>2. ~(HeapFindSmallestHole(mem, index, size + Overhead) \in 1 .. Len(index))
      BY <1>1, <1>9
    <2>3. QED
      BY <1>2, <1>9, <2>1, <2>2, FindSmallest
  <1>11. mem[l].word < size + 2
    <2>1. PICK j \in 1 .. Len(index) : index[j] = l
      BY <1>6 DEF Lists
    <2>2. QED
      BY <1>10, <2>1
  <1>12. x \in Nat /\ x >= (e + size) + Overhead
    <2>1. (e + size) + Overhead \in Nat
      BY <1>2, <1>3 DEF Overhead
    <2>2. QED
      BY <2>1, ExpandedFacts
  <1>13. grown = [mem |-> WithFooter(WithWord(k, h, w), f, h), index |-> index]
    BY <1>7 DEF Grow, Highest
  <1>14. n = WithFooter(WithWord(k, h, w), f, h) /\ grown.index = index
    BY <1>13
  <1> HIDE DEF grown, n, h
  <1>15. k \in Mem /\ \A c \in Space : k[c] = mem[c] \/ k[c].word = 0
    <2> HIDE DEF x
    <2> QED
      BY <1>3, <1>12, RemapFacts
  <1> HIDE DEF x, k, e
  <1>16. l \in Nat /\ l \in Space /\ mem[l].word \in Nat /\ k[h].word \in Nat /\ k[h].word <= mem[l].word
    BY <1>3, <1>5, <1>8, <1>15
  <1>17. w \in Nat /\ w >= size + 2 /\ h + w <= Top
    BY ONLY <1>1, <1>2, <1>3, <1>5, <1>8, <1>12, <1>16 DEF Overhead, e
  <1> HIDE DEF w
  <1>18. h \in Nat /\ h \in Space /\ f \in Space /\ f > h /\ h \in 0 .. Word - 1 /\ w \in 0 .. Word - 1
    BY ONLY <1>2, <1>3, <1>4, <1>8, <1>16, <1>17 DEF Space
  <1> HIDE DEF f
  <1>19. n \in Mem /\ n[h].word = w /\ \A c \in Space : c # h /\ c # f => n[c] = k[c]
    <2> DEFINE q == WithWord(k, h, w)
    <2>1. WroteWord(q, k, h, w)
      BY <1>15, <1>18, WordWritten
    <2>2. q \in Mem
      BY <2>1 DEF WroteWord
    <2> HIDE DEF q
    <2>3. WroteFooter(n, q, f, h)
      <3>1. n = WithFooter(q, f, h)
        BY <1>14 DEF q
      <3>2. WroteFooter(WithFooter(q, f, h), q, f, h)
        BY <1>18, <2>2, FooterWritten
      <3>3. QED
        BY <3>1, <3>2
    <2>4. QED
      BY <1>18, <2>1, <2>3 DEF WroteWord, WroteFooter
  <1>20. ASSUME NEW j \in 1 .. Len(index), index[j] # h PROVE n[index[j]].word \in Int /\ n[index[j]].word < size + 2
    <2> DEFINE a == index[j]
    <2>1. a \in B /\ mem[a].word < size + 2 /\ a <= h
      BY <1>5, <1>8, <1>9, <1>10
    <2>2. a # h
      BY <1>20
    <2> HIDE DEF a
    <2>3. a \in Nat /\ a \in Space /\ mem[a].word \in Nat
      BY <1>3, <2>1
    <2>4. a # f
      BY <1>18, <2>1, <2>3, h \in Nat, f \in Int DEF Space
    <2>5. n[a] = k[a]
      BY <1>19, <2>2, <2>3, <2>4
    <2>6. n[a].word = mem[a].word \/ n[a].word = 0
      BY <1>15, <2>3, <2>5
    <2>7. QED
      BY <1>2, <2>1, <2>3, <2>6 DEF a
  <1>21. \A j \in 1 .. Len(index) : n[index[j]].word \in Int
    BY <1>17, <1>19, <1>20
  <1>22. PICK j \in 1 .. Len(index) : index[j] = h
    BY <1>6, <1>8 DEF Lists
  <1>23. ~(n[index[j]].word < size + Overhead)
    BY <1>2, <1>17, <1>19, <1>22
  <1>24. i \in 1 .. Len(index) /\ n[index[i]].word >= size + Overhead
    BY <1>2, <1>9, <1>14, <1>21, <1>22, <1>23, FindSmallest
  <1> HIDE DEF i
  <1>25. index[i] = h
    BY <1>2, <1>20, <1>21, <1>24
  <1>26. /\ Carve(n, index, i, size, x).end \in Int
         /\ Carve(n, index, i, size, x).end >= index[i] + (size + 2)
    <2>1. index[i] \in Int
      BY <1>18, <1>25
    <2>2. n[index[i]].word \in Int /\ n[index[i]].word >= size + 2
      BY <1>2, <1>21, <1>24
    <2>3. QED
      BY <1>2, <2>1, <2>2, CarveEnd
  <1> DEFINE z == Carve(n, index, i, size, x).end
  <1>27. z \in Int /\ z <= HighWater /\ z >= l + (size + 2)
    BY <1>1, <1>8, <1>14, <1>25, <1>26
  <1> HIDE DEF z
  <1>28. l + (size + 2) > e /\ e > HighWater
    BY ONLY <1>2, <1>3, <1>4, <1>5, <1>11, <1>16, HighWater < HeapMinSize DEF e
  <1>29. QED
    BY <1>27, <1>28, <1>2, <1>3, <1>4, <1>16

-----------------------------------------------------------------------------
(***************************************************************************)
(* HeapFree: its parts on a heap in the middle of it.                      *)
(***************************************************************************)
\* The heap inside HeapFree: block h is a hole already, but may lack its footer,
\* and its entry in the index (d: the local variable do_add), and may be
\* followed by a hole.
Freeing(m, idx, e, h, d, B, L) ==
  /\ m \in Mem /\ m[-1].magic = FALSE
  /\ e \in HeapMinSize .. Top
  /\ Tiled(m, e, B)
  /\ h \in B /\ m[h].is_hole = TRUE /\ d \in BOOLEAN /\ h + 2 <= HighWater
  /\ \A a \in B : m[a].magic
  /\ \A a \in B : a # h => Footed(m, a)
  /\ Held(m, B, L)
  /\ Lists(idx, IF d THEN HolesOf(m, B) \ {h} ELSE HolesOf(m, B))
  /\ \A a \in B : a # h /\ m[a].is_hole => ~(a + m[a].word \in B /\ m[a + m[a].word].is_hole)
  /\ \A b \in L : (b.addr - 1) + m[b.addr - 1].word <= HighWater

\* What such a heap says of its blocks.
LEMMA FreeingFacts ==
  ASSUME NEW m, NEW idx, NEW e, NEW h, NEW d, NEW L, NEW B, Freeing(m, idx, e, h, d, B, L)
  PROVE  /\ m \in Mem /\ e \in Nat /\ e > 0 /\ e <= Top /\ Top \in Nat /\ 0 \in B
         /\ HeapMinSize \in Nat /\ e >= HeapMinSize /\ -1 \in Space /\ HighWater \in Nat
         /\ \A a \in B : /\ a \in Nat /\ a < e /\ a \in Space
                         /\ m[a].word \in Nat /\ m[a].word >= 2
                         /\ a + m[a].word \in B \cup {e}
                         /\ a + m[a].word <= e
         /\ \A a, b \in B : a < b => a + m[a].word <= b
PROOF
  <1>1. /\ e \in Nat /\ e > 0 /\ 0 \in B
        /\ \A b \in B : /\ b \in Nat /\ b < e
                       /\ m[b].word \in Int /\ m[b].word >= 2
                       /\ b + m[b].word \in B \cup {e}
                       /\ b + m[b].word <= e
    BY TiledFacts DEF Freeing
  <1>2. HeapMinSize \in Nat /\ Top \in Nat /\ HighWater \in Nat
    BY HeapAssumption
  <1>3. e <= Top /\ e >= HeapMinSize
    BY <1>2 DEF Freeing
  <1>4. -1 \in Space
    BY <1>2 DEF Space
  <1>5. \A b \in B : b \in Space
    BY <1>1, <1>2, <1>3 DEF Space
  <1>6. m \in Mem
    BY DEF Freeing
  <1>7. \A a, b \in B : a < b => a + m[a].word <= b
    BY DEF Freeing, Tiled
  <1>8. QED
    BY <1>1, <1>2, <1>3, <1>5, <1>6, <1>7, <1>4

\* A block that is marked as a hole, when no hole ends before it.
LEMMA MarkedFreeing ==
  ASSUME NEW m, NEW idx, NEW e, NEW L, NEW B, Sound(m, idx, e, L, B),
         FreeRule = "safe", NEW b \in L, NEW a, a = b.addr - 1,
         NEW n \in Mem, n[a].is_hole = TRUE, n[a].magic = m[a].magic, n[a].word = m[a].word,
         \A c \in Space : c # a => n[c] = m[c],
         \A p \in B : p + m[p].word = a => m[p].is_hole # TRUE
  PROVE  Freeing(n, idx, e, a, TRUE, B, L \ {b}) /\ Footed(n, a)
PROOF
  <1>1. /\ HeapMinSize \in Nat /\ Top \in Nat /\ e \in Nat /\ -1 \in Space
        /\ \A x \in B : x \in Nat /\ x \in Space /\ m[x].word \in Nat /\ m[x].word >= 2
    BY SoundFacts
  <1>2. /\ a \in B /\ m[a].is_hole # TRUE /\ m[a].word >= b.size + 2 /\ b.size \in Nat /\ b.size >= 1
    BY HeldFacts DEF Sound
  <1>3. a \in Nat /\ a \in Space /\ m[a].word \in Nat /\ m[a].word >= 2
    BY <1>1, <1>2
  <1>4. \A x \in B : x # a => n[x] = m[x]
    BY <1>1
  <1>5. \A x \in B : n[x].word = m[x].word
    BY <1>4
  <1>6. \A x \in B : Footed(m, x)
    BY DEF Sound
  <1>7. Within(n, m, a)
    <2>1. \A c \in Space : ~(a <= c /\ c < a + m[a].word) => c # a
      BY <1>3
    <2>2. QED
      BY <2>1 DEF Within
  <1>8. \A x \in B : x # a => Footed(n, x)
    BY <1>2, <1>7, FootersKept
  <1>9. Footed(n, a)
    <2>1. a + m[a].word - 1 \in Space /\ a + m[a].word - 1 # a
      <3>1. a + m[a].word <= e /\ e <= Top
        BY <1>2, SoundFacts
      <3>2. QED
        BY ONLY <1>1, <1>3, <3>1 DEF Space
    <2>2. n[a + m[a].word - 1] = m[a + m[a].word - 1]
      BY <2>1
    <2>3. QED
      BY <1>2, <1>6, <2>2 DEF Footed
  <1>10. Tiled(n, e, B)
    BY <1>5 DEF Sound, Tiled
  <1>11. Held(m, B, L)
    BY DEF Sound
  <1>12. \A x \in L \ {b} : x.addr - 1 # a /\ x.addr - 1 \in B
    <2>1. \A x \in L : x.addr \in Nat /\ x.addr - 1 \in B
      BY <1>11, HeldFacts
    <2>2. \A x \in L : x.addr = b.addr => x = b
      BY <1>11 DEF Held
    <2>3. QED
      BY <2>1, <2>2
  <1>13. \A x \in L \ {b} : n[x.addr - 1] = m[x.addr - 1]
    BY <1>4, <1>12
  <1>14. Held(n, B, L \ {b})
    <2>1. \A x \in B : ~n[x].is_hole => \E y \in L \ {b} : y.addr - 1 = x
      BY <1>4, <1>11 DEF Held
    <2>2. QED
      BY <1>11, <1>13, <2>1 DEF Held
  <1>15. HolesOf(n, B) \ {a} = HolesOf(m, B)
    BY <1>2, <1>4 DEF HolesOf
  <1>16. ASSUME NEW x \in B, x # a, n[x].is_hole, x + n[x].word \in B, n[x + n[x].word].is_hole PROVE FALSE
    <2>1. n[x] = m[x] /\ m[x].is_hole
      BY <1>4, <1>16
    <2>2. x + m[x].word # a
      <3>1. m[x].is_hole \in BOOLEAN
        BY <1>1, SoundFacts DEF Mem, Cell, Space
      <3>2. QED
        BY <2>1, <3>1
    <2>3. n[x + m[x].word] = m[x + m[x].word]
      BY <1>4, <1>16, <2>1, <2>2
    <2>4. QED
      BY <1>16, <2>1, <2>3 DEF Sound, Apart
  <1>17. \A x \in L \ {b} : (x.addr - 1) + n[x.addr - 1].word <= HighWater
    BY <1>13 DEF Sound, Ruled
  <1>18. a + 2 <= HighWater
    <2>1. a + m[a].word <= HighWater
      BY DEF Sound, Ruled
    <2>2. QED
      BY <1>3, <2>1, HeapAssumption
  <1>19. n[-1].magic = FALSE
    BY <1>1, <1>3 DEF Sound
  <1>20. \A x \in B : n[x].magic
    BY <1>4 DEF Sound
  <1>21. Lists(idx, IF TRUE THEN HolesOf(n, B) \ {a} ELSE HolesOf(n, B))
    BY <1>15 DEF Sound
  <1>22. e \in HeapMinSize .. Top
    BY DEF Sound
  <1>23. Freeing(n, idx, e, a, TRUE, B, L \ {b})
    BY <1>2, <1>8, <1>10, <1>14, <1>16, <1>17, <1>18, <1>19, <1>20, <1>21, <1>22 DEF Freeing
  <1>24. QED
    BY <1>9, <1>23

\* The last step: the hole enters the index if it is not there.
LEMMA AddSound ==
  ASSUME NEW m, NEW idx, NEW e, NEW h, NEW d, NEW L, NEW B, Freeing(m, idx, e, h, d, B, L),
         FreeRule = "safe", Footed(m, h),
         ~(h + m[h].word \in B /\ m[h + m[h].word].is_hole)
  PROVE  Sound(m, IF d THEN IndexInsert(m, idx, h) ELSE idx, e, L, B)
PROOF
  <1>1. m \in Mem /\ h \in B /\ \A a \in B : a \in Space
    <2>1. m \in Mem /\ \A a \in B : a \in Space
      BY FreeingFacts
    <2>2. QED
      BY <2>1 DEF Freeing
  <1>2. Lists(IF d THEN IndexInsert(m, idx, h) ELSE idx, HolesOf(m, B))
    <2>1. CASE d = TRUE
      <3> DEFINE S == HolesOf(m, B) \ {h}
      <3>1. S \subseteq Space /\ h \notin S /\ h \in Space
        BY <1>1 DEF HolesOf
      <3>2. Lists(idx, S)
        BY <2>1 DEF Freeing
      <3>3. S \cup {h} = HolesOf(m, B)
        BY <1>1 DEF HolesOf, Freeing
      <3> HIDE DEF S
      <3>4. Lists(IndexInsert(m, idx, h), S \cup {h})
        BY <1>1, <3>1, <3>2, IndexListed
      <3>5. QED
        BY <2>1, <3>3, <3>4
    <2>2. CASE d = FALSE
      BY <2>2 DEF Freeing
    <2>3. QED
      BY <2>1, <2>2 DEF Freeing
  <1>3. Apart(m, B)
    BY DEF Freeing, Apart
  <1>4. Ruled(m, e, L, B)
    BY DEF Freeing, Ruled
  <1>5. QED
    BY <1>2, <1>3, <1>4 DEF Freeing, Sound

\* n is m with hole p extended over block a, whose footer is f.
TookLeft(n, m, p, a, f) ==
  /\ n \in Mem /\ n[p].is_hole = TRUE /\ n[p].magic = m[p].magic
  /\ n[p].word = m[p].word + m[a].word
  /\ n[f].magic = m[f].magic /\ n[f].word = p
  /\ \A c \in Space : c # a /\ c # p /\ c # f => n[c] = m[c]

\* A hole p that ends at the freed block a takes it over.
LEMMA LeftFreeing ==
  ASSUME NEW m, NEW idx, NEW e, NEW L, NEW B, Sound(m, idx, e, L, B),
         FreeRule = "safe", NEW b \in L, NEW a, a = b.addr - 1,
         NEW p \in B, p + m[p].word = a, m[p].is_hole = TRUE,
         NEW f, f = a + m[a].word - 1,
         NEW n, TookLeft(n, m, p, a, f)
  PROVE  Freeing(n, idx, e, p, FALSE, B \ {a}, L \ {b}) /\ Footed(n, p)
PROOF
  <1>1. /\ n \in Mem /\ n[p].is_hole = TRUE /\ n[p].magic = m[p].magic
        /\ n[p].word = m[p].word + m[a].word
        /\ n[f].magic = m[f].magic /\ n[f].word = p
        /\ \A c \in Space : c # a /\ c # p /\ c # f => n[c] = m[c]
    BY DEF TookLeft
  <1> USE <1>1
  <1> DEFINE C == B \ {a}
  <1>2. /\ HeapMinSize \in Nat /\ Top \in Nat /\ e \in Nat /\ -1 \in Space /\ e <= Top /\ 0 \in B /\ m \in Mem
        /\ \A x \in B : /\ x \in Nat /\ x < e /\ x \in Space /\ m[x].word \in Nat /\ m[x].word >= 2
                        /\ x + m[x].word \in B \cup {e} /\ x + m[x].word <= e
        /\ \A x, y \in B : x < y => x + m[x].word <= y
    BY SoundFacts
  <1>3. a \in B /\ m[a].is_hole # TRUE
    <2>1. Held(m, B, L)
      BY DEF Sound
    <2>2. b.addr - 1 \in B /\ m[b.addr - 1].is_hole # TRUE
      BY <2>1, HeldFacts
    <2>3. QED
      BY <2>2
  <1>4. /\ a \in Nat /\ a \in Space /\ m[a].word \in Nat /\ m[a].word >= 2 /\ a + m[a].word <= e
        /\ p \in Nat /\ p \in Space /\ m[p].word \in Nat /\ m[p].word >= 2
    BY <1>2, <1>3
  <1>5. f \in Space /\ p < a /\ a < f /\ f < a + m[a].word
    BY ONLY <1>2, <1>4, f = a + m[a].word - 1, p + m[p].word = a DEF Space
  <1>6. ASSUME NEW x \in B, x # a, x # p, NEW c \in x .. (x + m[x].word) - 1 PROVE c \in Space /\ n[c] = m[c]
    <2>1. c \in Space /\ ~(a <= c /\ c < a + m[a].word)
      BY <1>3, <1>6, BlocksDisjoint
    <2>2. ~(p <= c /\ c < p + m[p].word)
      BY <1>6, BlocksDisjoint
    <2>3. c # a /\ c # p /\ c # f
      BY <1>4, <1>5, <2>1, <2>2
    <2>4. QED
      BY <2>1, <2>3
  <1>7. \A x \in C : x # p => n[x] = m[x] /\ Footed(n, x)
    <2> TAKE x \in C
    <2> HAVE x # p
    <2>1. x \in B /\ x # a /\ x \in Nat /\ m[x].word \in Nat /\ m[x].word >= 2
      BY <1>2
    <2>2. x \in x .. (x + m[x].word) - 1 /\ x + m[x].word - 1 \in x .. (x + m[x].word) - 1
      BY ONLY <2>1
    <2>3. n[x] = m[x] /\ n[x + m[x].word - 1] = m[x + m[x].word - 1]
      BY <1>6, <2>1, <2>2
    <2>4. Footed(m, x)
      BY <2>1 DEF Sound
    <2>5. QED
      BY <2>3, <2>4 DEF Footed
  <1>8. p \in C /\ p + n[p].word = a + m[a].word
    BY <1>4, <1>5
  <1>9. Footed(n, p)
    <2>1. p + n[p].word - 1 = f
      BY ONLY <1>4, n[p].word = m[p].word + m[a].word, f = a + m[a].word - 1, p + m[p].word = a
    <2>2. m[f].magic
      BY <1>3 DEF Sound, Footed
    <2>3. QED
      BY <2>1, <2>2 DEF Footed
  <1>10. Tiled(n, e, C)
    <2>1. \A x \in C : x \in 0 .. e - 1
      BY <1>2
    <2>2. 0 \in C
      BY <1>2, <1>4, <1>5
    <2>3. \A x \in C : x # p => x + m[x].word # a
      <3> TAKE x \in C
      <3> HAVE x # p
      <3>1. /\ x \in Nat /\ m[x].word \in Nat /\ m[x].word >= 2
            /\ (x < p => x + m[x].word <= p) /\ (p < x => p + m[p].word <= x)
        BY <1>2
      <3>2. QED
        BY <1>4, <1>5, <3>1
    <2>4. ASSUME NEW x \in C PROVE n[x].word \in Int /\ n[x].word >= 2 /\ x + n[x].word \in C \cup {e}
      <3>1. CASE x = p
        <4>1. a + m[a].word \in B \cup {e} /\ a + m[a].word # a
          BY <1>2, <1>3, <1>4
        <4>2. QED
          BY <1>4, <1>8, <3>1, <4>1
      <3>2. CASE x # p
        BY <1>2, <1>7, <2>3, <3>2
      <3>3. QED
        BY <3>1, <3>2
    <2>5. ASSUME NEW x \in C, NEW y \in C, x < y PROVE x + n[x].word <= y
      <3>1. CASE x = p
        <4>1. a < y
          <5>1. p + m[p].word <= y /\ y \in Nat /\ y # a
            BY <1>2, <2>5, <3>1
          <5>2. QED
            BY <1>4, <5>1
        <4>2. a + m[a].word <= y
          BY <1>2, <1>3, <4>1
        <4>3. QED
          BY <1>8, <3>1, <4>2
      <3>2. CASE x # p
        BY <1>2, <1>7, <2>5, <3>2
      <3>3. QED
        BY <3>1, <3>2
    <2>6. QED
      BY <1>2, <2>1, <2>2, <2>4, <2>5 DEF Tiled
  <1>11. Held(m, B, L)
    BY DEF Sound
  <1>12. \A x \in L \ {b} : x.addr - 1 \in C /\ x.addr - 1 # p /\ n[x.addr - 1] = m[x.addr - 1]
    <2>1. \A x \in L : x.addr \in Nat /\ x.addr - 1 \in B /\ m[x.addr - 1].is_hole # TRUE
      BY <1>11, HeldFacts
    <2>2. \A x \in L : x.addr = b.addr => x = b
      BY <1>11 DEF Held
    <2>3. \A x \in L \ {b} : x.addr - 1 \in C /\ x.addr - 1 # p
      <3> TAKE x \in L \ {b}
      <3>1. x.addr # b.addr /\ x.addr \in Nat /\ b.addr \in Nat
        BY <2>1, <2>2
      <3>2. x.addr - 1 # a
        BY <3>1
      <3>3. QED
        BY <2>1, <3>2
    <2>4. QED
      BY <1>7, <2>3
  <1>13. Held(n, C, L \ {b})
    <2>1. ASSUME NEW x \in C, ~n[x].is_hole PROVE \E y \in L \ {b} : y.addr - 1 = x
      <3>1. x # p /\ x \in B /\ x # a /\ n[x] = m[x]
        BY <1>7, <2>1
      <3>2. QED
        BY <1>11, <2>1, <3>1 DEF Held
    <2>2. QED
      BY <1>11, <1>12, <2>1 DEF Held
  <1>14. HolesOf(n, C) = HolesOf(m, B)
    BY <1>3, <1>7 DEF HolesOf
  <1>15. ASSUME NEW x \in C, x # p, n[x].is_hole, x + n[x].word \in C, n[x + n[x].word].is_hole PROVE FALSE
    <2>1. n[x] = m[x] /\ m[x].is_hole
      BY <1>7, <1>15
    <2>2. CASE x + m[x].word = p
      BY <1>15, <2>1, <2>2 DEF Sound, Apart
    <2>3. CASE x + m[x].word # p
      <3>1. n[x + m[x].word] = m[x + m[x].word]
        BY <1>7, <1>15, <2>1, <2>3
      <3>2. QED
        BY <1>15, <2>1, <3>1 DEF Sound, Apart
    <2>4. QED
      BY <2>2, <2>3
  <1>16. \A x \in L \ {b} : (x.addr - 1) + n[x.addr - 1].word <= HighWater
    BY <1>12 DEF Sound, Ruled
  <1>17. p + 2 <= HighWater
    <2>1. a + m[a].word <= HighWater
      BY DEF Sound, Ruled
    <2>2. QED
      BY <1>4, <1>5, <2>1, HeapAssumption
  <1>18. n[-1].magic = FALSE
    <2>1. -1 # a /\ -1 # p /\ -1 # f
      BY <1>4, <1>5
    <2>2. QED
      BY <1>2, <2>1 DEF Sound
  <1>19. \A x \in C : n[x].magic
    BY <1>7 DEF Sound
  <1>20. Lists(idx, IF FALSE THEN HolesOf(n, C) \ {p} ELSE HolesOf(n, C))
    BY <1>14 DEF Sound
  <1>21. e \in HeapMinSize .. Top
    BY DEF Sound
  <1>22. \A x \in C : x # p => Footed(n, x)
    BY <1>7
  <1> HIDE DEF C
  <1>23. Freeing(n, idx, e, p, FALSE, C, L \ {b})
    BY <1>8, <1>10, <1>13, <1>15, <1>16, <1>17, <1>18, <1>19, <1>20, <1>21, <1>22 DEF Freeing
  <1>24. QED
    BY <1>9, <1>23 DEF C

\* The holes the index lists while block h is freed: h only if it is in it.
ToList(m, B, h, d) == IF d THEN HolesOf(m, B) \ {h} ELSE HolesOf(m, B)

\* Block t follows h and is the last hole of the heap.
LastAfter(m, e, h, B, t) ==
  t \in B /\ t = h + m[h].word /\ m[t].is_hole = TRUE /\ t + m[t].word = e

\* n is m with h extended over t.
TookRight(n, m, h, t) == WroteWord(n, m, h, m[h].word + m[t].word)

\* The last hole t of the heap is swallowed by h, which it follows.
LEMMA RightFreeing ==
  ASSUME NEW m, NEW idx, NEW e, NEW h, NEW d, NEW L, NEW B, Freeing(m, idx, e, h, d, B, L),
         NEW t, LastAfter(m, e, h, B, t), NEW n, TookRight(n, m, h, t),
         NEW idx1, Lists(idx1, ToList(m, B, h, d) \ {t})
  PROVE  Freeing(n, idx1, e, h, d, B \ {t}, L) /\ h + n[h].word = e
PROOF
  <1>1. /\ t \in B /\ t = h + m[h].word /\ m[t].is_hole = TRUE /\ t + m[t].word = e
        /\ WroteWord(n, m, h, m[h].word + m[t].word)
    BY DEF LastAfter, TookRight
  <1> USE <1>1
  <1> DEFINE C == B \ {t}
  <1>2. /\ Top \in Nat /\ e \in Nat /\ -1 \in Space /\ e <= Top /\ 0 \in B /\ m \in Mem
        /\ \A x \in B : /\ x \in Nat /\ x < e /\ x \in Space /\ m[x].word \in Nat /\ m[x].word >= 2
                        /\ x + m[x].word \in B \cup {e} /\ x + m[x].word <= e
        /\ \A x, y \in B : x < y => x + m[x].word <= y
    BY FreeingFacts
  <1>3. h \in B /\ m[h].is_hole = TRUE /\ d \in BOOLEAN /\ h + 2 <= HighWater
    BY DEF Freeing
  <1>4. h \in Nat /\ h \in Space /\ m[h].word \in Nat /\ t \in Nat /\ t \in Space /\ m[t].word \in Nat /\ h < t
        /\ m[t].word >= 2 /\ m[h].word >= 2
    BY <1>2, <1>3
  <1>5. /\ n \in Mem /\ n[h].magic = m[h].magic /\ n[h].is_hole = TRUE
        /\ n[h].word = m[h].word + m[t].word
        /\ \A c \in Space : c # h => n[c] = m[c]
    BY <1>3 DEF WroteWord
  <1>6. h + n[h].word = e
    BY <1>4, <1>5
  <1>7. \A x \in C : x # h => n[x] = m[x] /\ x + m[x].word <= h /\ x < h /\ x + m[x].word \in C
    <2> TAKE x \in C
    <2> HAVE x # h
    <2>1. /\ x \in Nat /\ m[x].word \in Nat /\ x < e /\ x # t /\ x \in Space
          /\ (x < h => x + m[x].word <= h) /\ (h < x => h + m[h].word <= x)
          /\ (t < x => t + m[t].word <= x) /\ x + m[x].word \in B \cup {e}
      BY <1>2, <1>3
    <2>2. x < h
      BY <1>2, <1>4, <2>1
    <2>3. x + m[x].word <= h /\ x + m[x].word # e /\ x + m[x].word # t
      BY <1>2, <1>4, <2>1, <2>2
    <2>4. QED
      BY <1>5, <2>1, <2>2, <2>3
  <1>8. \A x \in C : x # h => Footed(n, x)
    <2> TAKE x \in C
    <2> HAVE x # h
    <2>1. x \in Nat /\ m[x].word \in Nat /\ m[x].word >= 2 /\ x + m[x].word <= h /\ x + m[x].word <= e
      BY <1>2, <1>7
    <2>2. x + m[x].word - 1 \in Space /\ x + m[x].word - 1 # h
      BY ONLY <1>2, <1>4, <2>1 DEF Space
    <2>3. n[x + m[x].word - 1] = m[x + m[x].word - 1]
      BY <1>5, <2>2
    <2>4. Footed(m, x)
      BY DEF Freeing
    <2>5. QED
      BY <1>7, <2>3, <2>4 DEF Footed
  <1>9. h \in C
    BY <1>3, <1>4
  <1>10. Tiled(n, e, C)
    <2>1. \A x \in C : x \in 0 .. e - 1
      BY <1>2
    <2>2. 0 \in C
      BY <1>2, <1>4
    <2>3. ASSUME NEW x \in C PROVE n[x].word \in Int /\ n[x].word >= 2 /\ x + n[x].word \in C \cup {e}
      <3>1. CASE x = h
        BY <1>4, <1>5, <1>6, <3>1
      <3>2. CASE x # h
        BY <1>2, <1>7, <3>2
      <3>3. QED
        BY <3>1, <3>2
    <2>4. ASSUME NEW x \in C, NEW y \in C, x < y PROVE x + n[x].word <= y
      <3>1. x # h
        BY <1>2, <1>4, <1>7, <2>4
      <3>2. QED
        BY <1>2, <1>7, <2>4, <3>1
    <2>5. QED
      BY <1>2, <2>1, <2>2, <2>3, <2>4 DEF Tiled
  <1>11. Held(m, B, L)
    BY DEF Freeing
  <1>12. \A x \in L : x.addr - 1 \in C /\ x.addr - 1 # h /\ n[x.addr - 1] = m[x.addr - 1]
    <2>1. \A x \in L : x.addr - 1 \in B /\ m[x.addr - 1].is_hole # TRUE
      BY <1>11, HeldFacts
    <2>2. \A x \in L : x.addr - 1 \in C /\ x.addr - 1 # h
      BY <1>3, <2>1
    <2>3. QED
      BY <1>7, <2>2
  <1>13. Held(n, C, L)
    <2>1. ASSUME NEW x \in C, ~n[x].is_hole PROVE \E y \in L : y.addr - 1 = x
      <3>1. x # h /\ x \in B /\ n[x] = m[x]
        BY <1>5, <1>7, <2>1
      <3>2. QED
        BY <1>11, <2>1, <3>1 DEF Held
    <2>2. QED
      BY <1>11, <1>12, <2>1 DEF Held
  <1>14. HolesOf(n, C) = HolesOf(m, B) \ {t}
    BY <1>3, <1>5, <1>7 DEF HolesOf
  <1>15. ASSUME NEW x \in C, x # h, n[x].is_hole, x + n[x].word \in C, n[x + n[x].word].is_hole PROVE FALSE
    <2>1. n[x] = m[x] /\ m[x].is_hole
      BY <1>7, <1>15
    <2>2. m[x + m[x].word].is_hole /\ x + m[x].word \in B
      BY <1>3, <1>5, <1>7, <1>15, <2>1
    <2>3. QED
      BY <1>15, <2>1, <2>2 DEF Freeing
  <1>16. \A x \in L : (x.addr - 1) + n[x.addr - 1].word <= HighWater
    BY <1>12 DEF Freeing
  <1>17. n[-1].magic = FALSE
    <2>1. -1 # h
      BY <1>4
    <2>2. QED
      BY <1>2, <1>5, <2>1 DEF Freeing
  <1>18. \A x \in C : n[x].magic
    BY <1>5, <1>7 DEF Freeing
  <1>19. Lists(idx1, IF d THEN HolesOf(n, C) \ {h} ELSE HolesOf(n, C))
    <2>1. (IF d THEN HolesOf(m, B) \ {h} ELSE HolesOf(m, B)) \ {t}
            = IF d THEN (HolesOf(m, B) \ {t}) \ {h} ELSE HolesOf(m, B) \ {t}
      OBVIOUS
    <2>2. Lists(idx1, (IF d THEN HolesOf(m, B) \ {h} ELSE HolesOf(m, B)) \ {t})
      BY DEF ToList
    <2>3. QED
      BY <1>14, <2>1, <2>2
  <1>20. e \in HeapMinSize .. Top
    BY DEF Freeing
  <1> HIDE DEF C
  <1>21. Freeing(n, idx1, e, h, d, C, L)
    BY <1>3, <1>5, <1>8, <1>9, <1>10, <1>13, <1>15, <1>16, <1>17, <1>18, <1>19, <1>20 DEF Freeing
  <1>22. QED
    BY <1>6, <1>21 DEF C

\* The last hole h of the heap gets a new end x.
LEMMA ContractFreeing ==
  ASSUME NEW m, NEW idx, NEW e, NEW h, NEW d, NEW L, NEW B, Freeing(m, idx, e, h, d, B, L),
         h + m[h].word = e, NEW x \in HeapMinSize .. Top, x >= h + 2,
         NEW n, WroteHole(n, m, h, x - h)
  PROVE  Freeing(n, idx, x, h, d, B, L) /\ Footed(n, h) /\ h + n[h].word = x
PROOF
  <1>1. /\ Top \in Nat /\ e \in Nat /\ -1 \in Space /\ e <= Top /\ 0 \in B /\ m \in Mem /\ HeapMinSize \in Nat
        /\ \A y \in B : /\ y \in Nat /\ y < e /\ y \in Space /\ m[y].word \in Nat /\ m[y].word >= 2
                        /\ y + m[y].word \in B \cup {e} /\ y + m[y].word <= e
        /\ \A y, z \in B : y < z => y + m[y].word <= z
    BY FreeingFacts
  <1>2. h \in B /\ m[h].is_hole = TRUE /\ d \in BOOLEAN /\ h + 2 <= HighWater
    BY DEF Freeing
  <1>3. h \in Nat /\ h \in Space /\ m[h].word \in Nat /\ h < e /\ x \in Nat
    BY <1>1, <1>2
  <1>4. /\ n \in Mem /\ n[h].magic = TRUE /\ n[h].is_hole = TRUE /\ n[h].word = x - h
        /\ n[h + (x - h) - 1].magic = TRUE /\ n[h + (x - h) - 1].word = h
        /\ \A c \in Space : c # h /\ c # h + (x - h) - 1 => n[c] = m[c]
    BY DEF WroteHole
  <1>5. \A c \in Space : c < h => n[c] = m[c]
    <2>1. \A c \in Space : c < h => c # h /\ c # h + (x - h) - 1
      BY ONLY <1>1, <1>3, x >= h + 2 DEF Space
    <2>2. QED
      BY <1>4, <2>1
  <1>6. \A y \in B : y # h => n[y] = m[y] /\ y + m[y].word <= h /\ y < h /\ y + m[y].word \in B
    <2> TAKE y \in B
    <2> HAVE y # h
    <2>1. /\ y \in Nat /\ m[y].word \in Nat /\ y < e /\ y \in Space
          /\ (y < h => y + m[y].word <= h) /\ (h < y => h + m[h].word <= y)
          /\ y + m[y].word \in B \cup {e}
      BY <1>1, <1>2
    <2>2. y < h
      BY <1>1, <1>3, <2>1
    <2>3. y + m[y].word <= h /\ y + m[y].word # e
      BY <1>1, <1>3, <2>1, <2>2
    <2>4. QED
      BY <1>5, <2>1, <2>2, <2>3
  <1>7. \A y \in B : y # h => Footed(n, y)
    <2> TAKE y \in B
    <2> HAVE y # h
    <2>1. y \in Nat /\ m[y].word \in Nat /\ m[y].word >= 2 /\ y + m[y].word <= h /\ y + m[y].word <= e
      BY <1>1, <1>6
    <2>2. y + m[y].word - 1 \in Space /\ y + m[y].word - 1 < h
      BY ONLY <1>1, <1>3, <2>1 DEF Space
    <2>3. n[y + m[y].word - 1] = m[y + m[y].word - 1]
      BY <1>5, <2>2
    <2>4. Footed(m, y)
      BY DEF Freeing
    <2>5. QED
      BY <1>6, <2>3, <2>4 DEF Footed
  <1>8. Footed(n, h) /\ h + n[h].word = x
    BY <1>3, <1>4 DEF Footed
  <1>9. Tiled(n, x, B)
    <2>1. \A y \in B : y \in 0 .. x - 1
      BY <1>1, <1>3, <1>6
    <2>2. ASSUME NEW y \in B PROVE n[y].word \in Int /\ n[y].word >= 2 /\ y + n[y].word \in B \cup {x}
      <3>1. CASE y = h
        BY <1>3, <1>4, <1>8, <3>1
      <3>2. CASE y # h
        BY <1>1, <1>6, <3>2
      <3>3. QED
        BY <3>1, <3>2
    <2>3. ASSUME NEW y \in B, NEW z \in B, y < z PROVE y + n[y].word <= z
      <3>1. y # h
        BY <1>1, <1>3, <1>6, <2>3
      <3>2. QED
        BY <1>1, <1>6, <2>3, <3>1
    <2>4. QED
      BY <1>1, <1>3, <2>1, <2>2, <2>3 DEF Tiled
  <1>10. Held(m, B, L)
    BY DEF Freeing
  <1>11. \A y \in L : y.addr - 1 \in B /\ y.addr - 1 # h /\ n[y.addr - 1] = m[y.addr - 1]
    <2>1. \A y \in L : y.addr - 1 \in B /\ m[y.addr - 1].is_hole # TRUE
      BY <1>10, HeldFacts
    <2>2. QED
      BY <1>2, <1>6, <2>1
  <1>12. Held(n, B, L)
    <2>1. ASSUME NEW z \in B, ~n[z].is_hole PROVE \E y \in L : y.addr - 1 = z
      <3>1. z # h /\ n[z] = m[z]
        BY <1>4, <1>6, <2>1
      <3>2. QED
        BY <1>10, <2>1, <3>1 DEF Held
    <2>2. QED
      BY <1>10, <1>11, <2>1 DEF Held
  <1>13. HolesOf(n, B) = HolesOf(m, B)
    BY <1>2, <1>4, <1>6 DEF HolesOf
  <1>14. ASSUME NEW y \in B, y # h, n[y].is_hole, y + n[y].word \in B, n[y + n[y].word].is_hole PROVE FALSE
    <2>1. n[y] = m[y] /\ m[y].is_hole
      BY <1>6, <1>14
    <2>2. m[y + m[y].word].is_hole
      BY <1>2, <1>4, <1>6, <1>14, <2>1
    <2>3. QED
      BY <1>14, <2>1, <2>2 DEF Freeing
  <1>15. \A y \in L : (y.addr - 1) + n[y.addr - 1].word <= HighWater
    BY <1>11 DEF Freeing
  <1>16. n[-1].magic = FALSE
    BY <1>1, <1>3, <1>5 DEF Freeing
  <1>17. \A y \in B : n[y].magic
    BY <1>4, <1>6 DEF Freeing
  <1>18. Lists(idx, IF d THEN HolesOf(n, B) \ {h} ELSE HolesOf(n, B))
    BY <1>13 DEF Freeing
  <1>19. Freeing(n, idx, x, h, d, B, L)
    BY <1>2, <1>4, <1>7, <1>9, <1>12, <1>14, <1>15, <1>16, <1>17, <1>18 DEF Freeing
  <1>20. QED
    BY <1>8, <1>19

-----------------------------------------------------------------------------
(***************************************************************************)
(* HeapFree: what its parts compute.                                       *)
(***************************************************************************)
\* Sums of sizes do not wrap.
LEMMA AddSmall ==
  ASSUME NEW x \in Nat, NEW y \in Nat, x + y < Word
  PROVE  Add(x, y) = x + y
PROOF
  <1> DEFINE z == x + y
  <1>1. Word \in Nat \ {0} /\ z \in 0 .. Word - 1
    BY HeapAssumption
  <1> HIDE DEF z
  <1>2. z % Word = z
    BY <1>1, DivSmall
  <1>3. QED
    BY <1>2 DEF Add, z

\* What an unsigned difference is: one of the two may wrap.
LEMMA SubIs ==
  ASSUME NEW x \in Nat, NEW y \in Nat, x < Word, y <= Word
  PROVE  Sub(x, y) = IF y <= x THEN x - y ELSE (x - y) + Word
PROOF
  <1> DEFINE z == x - y + Word
  <1>1. Word \in Nat \ {0} /\ z \in Nat
    BY HeapAssumption
  <1>2. CASE y <= x
    <2>1. z = Word * 1 + (x - y) /\ x - y \in 0 .. Word - 1 /\ 1 \in Nat
      BY <1>1, <1>2
    <2> DEFINE r == x - y
    <2> HIDE DEF z, r
    <2>2. z % Word = r
      BY <1>1, <2>1, DivUnique DEF r
    <2>3. QED
      BY <1>2, <2>2 DEF Sub, z, r
  <1>3. CASE ~(y <= x)
    <2>1. z \in 0 .. Word - 1 /\ z = (x - y) + Word
      BY <1>1, <1>3
    <2> HIDE DEF z
    <2>2. z % Word = z
      BY <1>1, <2>1, DivSmall
    <2>3. QED
      BY <1>3, <2>1, <2>2 DEF Sub, z
  <1>4. QED
    BY <1>2, <1>3

\* The state of HeapFree between two of its parts.
StageOf(m, idx, e, h, f, d) ==
  [mem |-> m, index |-> idx, end |-> e, header |-> h, footer |-> f, do_add |-> d]

\* MergeLeft, when the block before is a hole.
LEMMA MergeLeftStage ==
  ASSUME NEW m, NEW idx, NEW e, NEW h, NEW f, NEW d,
         NEW p, p = m[h - 1].word, m[h - 1].magic, m[p].is_hole
  PROVE  MergeLeft(StageOf(m, idx, e, h, f, d))
           = StageOf(WithWord(WithWord(m, f, p), p, Add(m[p].word, m[h].word)), idx, e, p, f, FALSE)
PROOF
  BY DEF MergeLeft, StageOf

\* MergeLeft, when it is not.
LEMMA NoMergeLeftStage ==
  ASSUME NEW m, NEW idx, NEW e, NEW h, NEW f, NEW d,
         ~(m[h - 1].magic /\ m[m[h - 1].word].is_hole)
  PROVE  MergeLeft(StageOf(m, idx, e, h, f, d)) = StageOf(m, idx, e, h, f, d)
PROOF
  BY DEF MergeLeft, StageOf

\* MergeRight, when the block after is a hole.
LEMMA MergeRightStage ==
  ASSUME NEW m, NEW idx, NEW e, NEW h, NEW f, NEW d,
         NEW t, t = f + 1, m[t].magic, m[t].is_hole
  PROVE  MergeRight(StageOf(m, idx, e, h, f, d))
           = StageOf(WithWord(m, h, Add(m[h].word, m[t].word)),
                     ArrayRemove(idx, PositionOf(idx, t)), e, h, Sub(Add(t, m[t].word), 1), d)
PROOF
  BY DEF MergeRight, StageOf

\* MergeRight, when it is not.
LEMMA NoMergeRightStage ==
  ASSUME NEW m, NEW idx, NEW e, NEW h, NEW f, NEW d,
         ~(m[f + 1].magic /\ m[f + 1].is_hole)
  PROVE  MergeRight(StageOf(m, idx, e, h, f, d)) = StageOf(m, idx, e, h, f, d)
PROOF
  BY DEF MergeRight, StageOf

\* Contract, when the hole reaches the end of the heap and a rest stays.
LEMMA ContractStage ==
  ASSUME NEW m, NEW idx, NEW e, NEW h, NEW f, NEW d, NEW t, f + 1 = e,
         NEW x, x = ContractedLength(h), NEW r, r = Sub(m[h].word, Sub(e, x)), r > 0
  PROVE  Contract(StageOf(m, idx, e, h, f, d), t)
           = StageOf(WithFooter(WithWord(m, h, r), Sub(Add(h, r), 1), h), idx, x, h, f, d)
PROOF
  BY DEF Contract, StageOf

\* Contract, when the hole does not reach the end of the heap.
LEMMA NoContractStage ==
  ASSUME NEW m, NEW idx, NEW e, NEW h, NEW f, NEW d, NEW t, f + 1 # e
  PROVE  Contract(StageOf(m, idx, e, h, f, d), t) = StageOf(m, idx, e, h, f, d)
PROOF
  BY DEF Contract, StageOf

\* The last part of HeapFree.
LEMMA AddStage ==
  ASSUME NEW m, NEW idx, NEW e, NEW h, NEW f, NEW d
  PROVE  AddToIndex(StageOf(m, idx, e, h, f, d))
           = StageOf(m, IF d THEN IndexInsert(m, idx, h) ELSE idx, e, h, f, d)
PROOF
  BY DEF AddToIndex, StageOf

\* HeapContract of a heap used below HEAP_MIN_SIZE: at least that length and at
\* most what HeapCreate mapped.
LEMMA ContractedFacts ==
  ASSUME NEW h \in Nat, h < HeapMinSize
  PROVE  ContractedLength(h) \in HeapMinSize .. HeapSize
PROOF
  <1> DEFINE q == h \div PageSize
             s == HeapSize \div PageSize
  <1>1. /\ PageSize \in Nat \ {0} /\ HeapMinSize \in Nat /\ HeapSize \in Nat /\ HeapMinSize <= HeapSize
        /\ HeapSize % PageSize = 0
    BY HeapAssumption
  <1>2. q \in Nat /\ h = PageSize * q + (h % PageSize) /\ h % PageSize \in 0 .. PageSize - 1
    BY <1>1, DivMod
  <1>3. s \in Nat /\ HeapSize = PageSize * s
    <2>1. s \in Nat /\ HeapSize = PageSize * s + (HeapSize % PageSize)
      BY <1>1, DivMod
    <2> HIDE DEF s
    <2>2. QED
      BY <1>1, <2>1
  <1> HIDE DEF q, s
  <1>4. CASE q % 2 = 1
    <2>1. q >= 1
      BY <1>2, <1>4
    <2>2. PageSize * q >= PageSize /\ PageSize * q \in Nat
      BY <1>1, <1>2, <2>1
    <2>3. h >= PageSize
      BY <1>1, <1>2, <2>2
    <2>4. PageSize * s > PageSize
      BY <1>1, <1>3, <2>3
    <2>5. s >= 2
      <3>1. s = 0 => PageSize * s = 0
        BY <1>1
      <3>2. s = 1 => PageSize * s = PageSize
        BY <1>1
      <3>3. QED
        BY <1>1, <1>3, <2>4, <3>1, <3>2
    <2>6. PageSize * s >= 2 * PageSize
      BY <1>1, <1>3, <2>5
    <2>7. ContractedLength(h) = IF 2 * PageSize < HeapMinSize THEN HeapMinSize ELSE 2 * PageSize
      BY <1>4 DEF ContractedLength, q
    <2>8. QED
      BY <1>1, <1>3, <2>6, <2>7
  <1>5. CASE ~(q % 2 = 1)
    <2>1. ContractedLength(h) = IF h < HeapMinSize THEN HeapMinSize ELSE h
      BY <1>5 DEF ContractedLength, q
    <2>2. QED
      BY <1>1, <2>1
  <1>6. QED
    BY <1>4, <1>5

\* No payload of the callers' blocks L changes.
Kept(n, m, L) == \A y \in L : \A c \in Payload(y) : n[c] = m[c]

\* Payloads lie outside the header of the freed hole, and below it when it is
\* the last of the heap.
LEMMA PayloadApart ==
  ASSUME NEW m, NEW idx, NEW e, NEW h, NEW d, NEW L, NEW B, Freeing(m, idx, e, h, d, B, L),
         NEW y \in L, NEW c \in Payload(y)
  PROVE  c \in Space /\ c # h /\ (h + m[h].word = e => c < h)
PROOF
  <1> DEFINE z == y.addr - 1
             w == m[z].word
  <1>1. Held(m, B, L) /\ h \in B /\ m[h].is_hole = TRUE
    BY DEF Freeing
  <1>2. /\ y.addr \in Nat /\ y.addr >= 1 /\ y.size \in Nat /\ y.size >= 1
        /\ z \in B /\ m[z].is_hole # TRUE
        /\ w >= y.size + 2
    BY <1>1, HeldFacts
  <1>3. /\ Top \in Nat /\ e \in Nat /\ e <= Top
        /\ z \in Nat /\ w \in Nat /\ z + w <= e /\ z < e
        /\ h \in Nat /\ m[h].word \in Nat
        /\ z < h => z + w <= h
        /\ h < z => h + m[h].word <= z
    BY <1>1, <1>2, FreeingFacts
  <1>4. z # h
    BY <1>1, <1>2
  <1>5. c \in Int /\ z < c /\ c < z + w
    <2>1. y.addr = z + 1
      BY <1>2
    <2>2. c \in (z + 1) .. (z + 1) + y.size - 1
      BY <2>1 DEF Payload
    <2> HIDE DEF z, w
    <2>3. QED
      BY ONLY <1>2, <1>3, <2>2
  <1> HIDE DEF z, w
  <1>6. QED
    BY ONLY <1>3, <1>4, <1>5, h \in Nat, m[h].word \in Nat DEF Space

\* Mark and MergeLeft.
LeftDone(n, h, d, C, m, idx, e, L, B, b, t) ==
  /\ Freeing(n, idx, e, h, d, C, L \ {b})
  /\ Footed(n, h) /\ h + n[h].word = t
  /\ t \in B => t \in C /\ n[t] = m[t]
  /\ Kept(n, m, L \ {b})

\* The first part of HeapFree, with the footer it computes.
LEMMA FreeMarked ==
  ASSUME NEW m, NEW idx, NEW e, NEW L, NEW B, Sound(m, idx, e, L, B), NEW b \in L
  PROVE  LET a == b.addr - 1
             f == a + m[a].word - 1
         IN  /\ Mark(m, idx, e, b.addr) = StageOf([m EXCEPT ![a].is_hole = TRUE], idx, e, a, f, TRUE)
             /\ a \in B /\ f + 1 = a + m[a].word /\ f \in Space
PROOF
  <1> DEFINE a == b.addr - 1
             w == m[a].word
             f == a + w - 1
  <1>1. Held(m, B, L)
    BY DEF Sound
  <1>2. a \in B
    BY <1>1, HeldFacts
  <1>3. a \in Nat /\ w \in Nat /\ w >= 2 /\ a + w <= Top /\ Top \in Nat
    <2>1. a \in Nat /\ w \in Nat /\ w >= 2 /\ a + w <= e /\ Top \in Nat /\ e <= Top /\ e \in Nat
      BY <1>2, SoundFacts
    <2> HIDE DEF a, w
    <2>2. QED
      BY ONLY <2>1
  <1>4. Word \in Nat /\ 4 * Top < Word
    BY HeapAssumption
  <1>5. Mark(m, idx, e, b.addr) = StageOf([m EXCEPT ![a].is_hole = TRUE], idx, e, a, Sub(Add(a, w), 1), TRUE)
    BY DEF Mark, StageOf
  <1> HIDE DEF a, w
  <1>6. a + w < Word /\ a + w \in Nat /\ 1 <= a + w
    BY ONLY <1>3, <1>4
  <1>7. Sub(Add(a, w), 1) = f
    <2>1. Add(a, w) = a + w
      BY <1>3, <1>6, AddSmall
    <2> DEFINE v == a + w
    <2> HIDE DEF v
    <2>2. v \in Nat /\ v < Word /\ 1 <= v /\ 1 <= Word /\ 1 \in Nat
      BY <1>4, <1>6 DEF v
    <2>3. Sub(v, 1) = v - 1
      BY <2>2, SubIs
    <2>4. v - 1 = f
      BY <1>3 DEF v
    <2>5. QED
      BY <2>1, <2>3, <2>4 DEF v
  <1>8. f + 1 = a + w /\ f \in Space
    BY ONLY <1>3 DEF f, Space
  <1>9. QED
    BY <1>2, <1>5, <1>7, <1>8 DEF a, w

-----------------------------------------------------------------------------
(***************************************************************************)
(* HeapFree: assembled.                                                    *)
(***************************************************************************)
\* k is m with block a marked as a hole.
MarkedAt(k, m, a) ==
  /\ k \in Mem /\ k[a].is_hole = TRUE /\ k[a].magic = m[a].magic /\ k[a].word = m[a].word
  /\ \A c \in Space : c # a => k[c] = m[c]

\* No hole ends at a.
NoHoleBefore(m, B, a) == \A p \in B : p + m[p].word = a => m[p].is_hole # TRUE

\* Setting is_hole marks the block and nothing else.
LEMMA IsMarked ==
  ASSUME NEW m \in Mem, NEW a \in Space
  PROVE  MarkedAt([m EXCEPT ![a].is_hole = TRUE], m, a)
PROOF
  BY DEF MarkedAt, Mem, Cell, Space

\* The marked block, when no hole ends before it, in the form the proofs use.
LEMMA MarkedIsFreeing ==
  ASSUME NEW m, NEW idx, NEW e, NEW L, NEW B, Sound(m, idx, e, L, B),
         FreeRule = "safe", NEW b \in L, NEW a, a = b.addr - 1,
         NEW n, MarkedAt(n, m, a), NoHoleBefore(m, B, a)
  PROVE  Freeing(n, idx, e, a, TRUE, B, L \ {b}) /\ Footed(n, a)
PROOF
  <1>1. /\ n \in Mem /\ n[a].is_hole = TRUE /\ n[a].magic = m[a].magic /\ n[a].word = m[a].word
        /\ \A c \in Space : c # a => n[c] = m[c]
    BY DEF MarkedAt
  <1>2. \A p \in B : p + m[p].word = a => m[p].is_hole # TRUE
    BY DEF NoHoleBefore
  <1>3. QED
    BY <1>1, <1>2, MarkedFreeing

\* Marking and MergeLeft, when a hole ends before the block.
LEMMA FreeLeftMerged ==
  ASSUME NEW m, NEW idx, NEW e, NEW L, NEW B, Sound(m, idx, e, L, B), FreeRule = "safe",
         NEW b \in L, NEW a, a = b.addr - 1, NEW f, f = a + m[a].word - 1,
         NEW k, MarkedAt(k, m, a),
         NEW p \in B, p + m[p].word = a, m[p].is_hole = TRUE
  PROVE  \E n, h, d, C : /\ MergeLeft(StageOf(k, idx, e, a, f, TRUE)) = StageOf(n, idx, e, h, f, d)
                         /\ LeftDone(n, h, d, C, m, idx, e, L, B, b, a + m[a].word)
PROOF
  <1>1. Held(m, B, L)
    BY DEF Sound
  <1>2. b.addr - 1 \in B /\ m[b.addr - 1].is_hole # TRUE
    BY <1>1, HeldFacts
  <1>3. a \in B /\ m[a].is_hole # TRUE
    BY <1>2
  <1>4. /\ a \in Nat /\ a \in Space /\ m[a].word \in Nat /\ m[a].word >= 2 /\ a + m[a].word <= e
        /\ p \in Nat /\ p \in Space /\ m[p].word \in Nat /\ m[p].word >= 2
        /\ m \in Mem /\ Top \in Nat /\ e \in Nat /\ e <= Top
    BY <1>3, SoundFacts
  <1>5. Word \in Nat /\ 4 * Top < Word
    BY HeapAssumption
  <1>6. p < a /\ a < f /\ f \in Space /\ p + m[p].word - 1 = a - 1 /\ a - 1 \in Space /\ a - 1 # a
        /\ p \in 0 .. Word - 1 /\ m[p].word + m[a].word < Word /\ m[p].word + m[a].word \in 0 .. Word - 1
    BY ONLY <1>4, <1>5, f = a + m[a].word - 1, p + m[p].word = a DEF Space
  <1>7. Footed(m, p)
    BY DEF Sound
  <1>8. m[a - 1].magic /\ m[a - 1].word = p
    BY <1>6, <1>7 DEF Footed
  <1>9. /\ k \in Mem /\ k[a].magic = m[a].magic /\ k[a].word = m[a].word
        /\ \A c \in Space : c # a => k[c] = m[c]
    BY DEF MarkedAt
  <1>10. k[a - 1] = m[a - 1] /\ k[p] = m[p]
    BY <1>4, <1>6, <1>9
  <1> DEFINE j == m[p].word + m[a].word
             q == WithWord(k, f, p)
             n == WithWord(q, p, j)
  <1>11. Add(k[p].word, k[a].word) = j
    BY <1>4, <1>6, <1>9, <1>10, AddSmall
  <1>12. MergeLeft(StageOf(k, idx, e, a, f, TRUE)) = StageOf(n, idx, e, p, f, FALSE)
    <2>1. p = k[a - 1].word /\ k[a - 1].magic /\ k[p].is_hole
      BY <1>8, <1>10
    <2>2. MergeLeft(StageOf(k, idx, e, a, f, TRUE))
           = StageOf(WithWord(WithWord(k, f, p), p, Add(k[p].word, k[a].word)), idx, e, p, f, FALSE)
      BY <2>1 DEF MergeLeft, StageOf
    <2>3. QED
      BY <1>11, <2>2
  <1>13. WroteWord(q, k, f, p)
    BY <1>6, <1>9, WordWritten
  <1>14. q \in Mem /\ j \in 0 .. Word - 1
    BY <1>6, <1>13 DEF WroteWord
  <1> HIDE DEF q, j
  <1>15. WroteWord(n, q, p, j)
    BY <1>4, <1>14, WordWritten
  <1> HIDE DEF n
  <1>16. /\ n \in Mem /\ n[p].is_hole = TRUE /\ n[p].magic = m[p].magic /\ n[p].word = j
         /\ n[f].magic = m[f].magic /\ n[f].word = p
         /\ \A c \in Space : c # a /\ c # p /\ c # f => n[c] = m[c]
    <2>1. q[p] = m[p]
      BY <1>4, <1>6, <1>10, <1>13 DEF WroteWord
    <2>2. n \in Mem /\ n[p].is_hole = TRUE /\ n[p].magic = m[p].magic /\ n[p].word = j
      BY <1>15, <2>1 DEF WroteWord
    <2>3. n[f] = q[f] /\ k[f] = m[f]
      BY <1>4, <1>6, <1>9, <1>15 DEF WroteWord
    <2>4. q[f].magic = k[f].magic /\ q[f].word = p
      BY <1>13 DEF WroteWord
    <2>5. \A c \in Space : c # a /\ c # p /\ c # f => n[c] = m[c]
      BY <1>9, <1>13, <1>15 DEF WroteWord
    <2>6. QED
      BY <2>2, <2>3, <2>4, <2>5
  <1> DEFINE C == B \ {a}
             t == a + m[a].word
  <1>17. Freeing(n, idx, e, p, FALSE, C, L \ {b}) /\ Footed(n, p)
    <2>1. n[p].word = m[p].word + m[a].word
      BY <1>16 DEF j
    <2>2. TookLeft(n, m, p, a, f)
      BY <1>16, <2>1 DEF TookLeft
    <2>3. QED
      BY <2>2, LeftFreeing
  <1>18. p + n[p].word = t
    BY <1>4, <1>16 DEF j
  <1>19. t \in B => t \in C /\ n[t] = m[t]
    <2>1. t # a /\ t # p /\ t # f
      BY ONLY <1>4, <1>6, f = a + m[a].word - 1
    <2>2. t \in B => t \in Space
      BY SoundFacts
    <2>3. QED
      BY <1>16, <2>1, <2>2
  <1>20. Kept(n, m, L \ {b})
    <2>1. ASSUME NEW y \in L \ {b}, NEW c \in Payload(y) PROVE n[c] = m[c]
      <3> DEFINE z == y.addr - 1
      <3>1. /\ z \in B /\ m[z].is_hole # TRUE
            /\ c \in z .. (z + m[z].word) - 1
        BY PayloadInside
      <3>2. z # a /\ z # p
        <4>1. \A x \in L : x.addr \in Nat
          BY <1>1, HeldFacts
        <4>2. y.addr # b.addr
          BY <1>1 DEF Held
        <4>3. z # a
          BY <4>1, <4>2
        <4>4. QED
          BY <3>1, <4>3
      <3> HIDE DEF z
      <3>3. c \in Space /\ ~(a <= c /\ c < a + m[a].word)
        BY <1>3, <3>1, <3>2, BlocksDisjoint
      <3>4. ~(p <= c /\ c < p + m[p].word)
        BY <3>1, <3>2, BlocksDisjoint
      <3>5. c # a /\ c # p /\ c # f
        BY ONLY <1>4, <1>6, <3>3, <3>4, f = a + m[a].word - 1
      <3>6. QED
        BY <1>16, <3>3, <3>5
    <2>2. QED
      BY <2>1 DEF Kept
  <1> HIDE DEF C, t
  <1>21. LeftDone(n, p, FALSE, C, m, idx, e, L, B, b, t)
    BY <1>17, <1>18, <1>19, <1>20 DEF LeftDone
  <1>22. QED
    BY <1>12, <1>21 DEF t

\* Marking and MergeLeft, when none does: the footer of the block before names a
\* block in use, and the cell before the heap is no footer.
LEMMA FreeLeftAlone ==
  ASSUME NEW m, NEW idx, NEW e, NEW L, NEW B, Sound(m, idx, e, L, B), FreeRule = "safe",
         NEW b \in L, NEW a, a = b.addr - 1, NEW f, f = a + m[a].word - 1,
         NEW k, MarkedAt(k, m, a),
         NoHoleBefore(m, B, a)
  PROVE  \E n, h, d, C : /\ MergeLeft(StageOf(k, idx, e, a, f, TRUE)) = StageOf(n, idx, e, h, f, d)
                         /\ LeftDone(n, h, d, C, m, idx, e, L, B, b, a + m[a].word)
PROOF
  <1>1. Held(m, B, L)
    BY DEF Sound
  <1>2. b.addr - 1 \in B /\ m[b.addr - 1].is_hole # TRUE
    BY <1>1, HeldFacts
  <1>3. a \in B /\ m[a].is_hole # TRUE
    BY <1>2
  <1>4. /\ a \in Nat /\ a \in Space /\ m[a].word \in Nat /\ m[a].word >= 2 /\ a + m[a].word <= e
        /\ m \in Mem /\ Top \in Nat /\ e \in Nat /\ e <= Top /\ -1 \in Space
    BY <1>3, SoundFacts
  <1>5. /\ k \in Mem /\ k[a].magic = m[a].magic /\ k[a].word = m[a].word /\ k[a].is_hole = TRUE
        /\ \A c \in Space : c # a => k[c] = m[c]
    BY DEF MarkedAt
  <1>6. ~(k[a - 1].magic /\ k[k[a - 1].word].is_hole)
    <2>1. CASE a = 0
      <3>1. a - 1 = -1 /\ -1 # a
        BY <2>1
      <3>2. k[a - 1] = m[-1]
        BY <1>4, <1>5, <3>1
      <3>3. QED
        BY <3>2 DEF Sound
    <2>2. CASE a # 0
      <3>1. Tiled(m, e, B)
        BY DEF Sound
      <3>2. PICK p \in B : p + m[p].word = a /\ p < a
        BY <1>3, <2>2, <3>1, BlockBefore
      <3>3. p \in Nat /\ p \in Space /\ m[p].word \in Nat /\ m[p].word >= 2
        BY SoundFacts
      <3>4. Footed(m, p)
        BY DEF Sound
      <3>5. p + m[p].word - 1 = a - 1 /\ a - 1 \in Space /\ a - 1 # a /\ p # a
        BY ONLY <1>4, <3>2, <3>3 DEF Space
      <3>6. k[a - 1].word = p /\ k[p] = m[p]
        BY <1>5, <3>3, <3>4, <3>5 DEF Footed
      <3>7. m[p].is_hole # TRUE
        BY <3>2 DEF NoHoleBefore
      <3>8. m[p].is_hole \in BOOLEAN
        BY <1>4, <3>3 DEF Mem, Cell, Space
      <3>9. QED
        BY <3>6, <3>7, <3>8
    <2>3. QED
      BY <2>1, <2>2
  <1>7. MergeLeft(StageOf(k, idx, e, a, f, TRUE)) = StageOf(k, idx, e, a, f, TRUE)
    BY ONLY <1>6, NoMergeLeftStage
  <1>8. Freeing(k, idx, e, a, TRUE, B, L \ {b}) /\ Footed(k, a)
    BY MarkedIsFreeing
  <1> DEFINE t == a + m[a].word
  <1>9. a + k[a].word = t
    BY <1>5
  <1>10. t \in B => k[t] = m[t]
    <2>1. t # a
      BY <1>4
    <2>2. t \in B => t \in Space
      BY SoundFacts
    <2>3. QED
      BY <1>5, <2>1, <2>2
  <1>11. Kept(k, m, L \ {b})
    <2>1. ASSUME NEW y \in L \ {b}, NEW c \in Payload(y) PROVE k[c] = m[c]
      <3> DEFINE z == y.addr - 1
      <3>1. /\ z \in B
            /\ c \in z .. (z + m[z].word) - 1
        BY PayloadInside
      <3>2. z # a
        <4>1. \A x \in L : x.addr \in Nat
          BY <1>1, HeldFacts
        <4>2. y.addr # b.addr
          BY <1>1 DEF Held
        <4>3. z # a
          BY <4>1, <4>2
        <4>4. QED
          BY <3>1, <4>3
      <3> HIDE DEF z
      <3>3. c \in Space /\ ~(a <= c /\ c < a + m[a].word)
        BY <1>3, <3>1, <3>2, BlocksDisjoint
      <3>4. c # a
        BY ONLY <1>4, <3>3
      <3>5. QED
        BY <1>5, <3>3, <3>4
    <2>2. QED
      BY <2>1 DEF Kept
  <1> HIDE DEF t
  <1>12. LeftDone(k, a, TRUE, B, m, idx, e, L, B, b, t)
    BY <1>8, <1>9, <1>10, <1>11 DEF LeftDone
  <1>13. QED
    BY <1>7, <1>12 DEF t

\* Marking and MergeLeft.
LEMMA FreeLeft ==
  ASSUME NEW m, NEW idx, NEW e, NEW L, NEW B, Sound(m, idx, e, L, B), FreeRule = "safe",
         NEW b \in L, NEW a, a = b.addr - 1, NEW f, f = a + m[a].word - 1,
         NEW k, MarkedAt(k, m, a)
  PROVE  \E n, h, d, C : /\ MergeLeft(StageOf(k, idx, e, a, f, TRUE)) = StageOf(n, idx, e, h, f, d)
                         /\ LeftDone(n, h, d, C, m, idx, e, L, B, b, a + m[a].word)
PROOF
  <1>1. CASE NoHoleBefore(m, B, a)
    BY <1>1, FreeLeftAlone
  <1>2. CASE \E p \in B : p + m[p].word = a /\ m[p].is_hole = TRUE
    BY <1>2, FreeLeftMerged
  <1>3. QED
    BY <1>1, <1>2 DEF NoHoleBefore

\* What kfree leaves: a sound heap for the blocks K, not longer than before or
\* than HeapCreate made it, with every payload of K as it was.
FreedTo(s, m, e, K) ==
  /\ \E B : Sound(s.mem, s.index, s.end, K, B)
  /\ s.end = e \/ s.end <= HeapSize
  /\ Kept(s.mem, m, K)

\* Footer f is the last cell before t.
Before(f, t) == f + 1 = t

\* The freed hole h is the last of the heap.
IsLast(m, e, h) == h + m[h].word = e

\* MergeRight, when the last hole of the heap follows.
LEMMA MergedRight ==
  ASSUME NEW m, NEW idx, NEW e, NEW h, NEW d, NEW L, NEW B, Freeing(m, idx, e, h, d, B, L),
         NEW t, LastAfter(m, e, h, B, t), NEW f, Before(f, t)
  PROVE  \E n, idx1, f1, C : /\ MergeRight(StageOf(m, idx, e, h, f, d)) = StageOf(n, idx1, e, h, f1, d)
                             /\ Before(f1, e) /\ IsLast(n, e, h)
                             /\ Freeing(n, idx1, e, h, d, C, L) /\ Kept(n, m, L)
PROOF
  <1>1. t \in B /\ t = h + m[h].word /\ m[t].is_hole = TRUE /\ t + m[t].word = e /\ f + 1 = t
    BY DEF LastAfter, Before
  <1> USE <1>1
  <1>2. /\ Top \in Nat /\ e \in Nat /\ e > 0 /\ e <= Top /\ m \in Mem
        /\ \A y \in B : /\ y \in Nat /\ y < e /\ y \in Space /\ m[y].word \in Nat /\ m[y].word >= 2
                        /\ y + m[y].word <= e
    BY FreeingFacts
  <1>3. h \in B /\ m[h].is_hole = TRUE /\ d \in BOOLEAN /\ m[t].magic
    BY DEF Freeing
  <1>4. /\ h \in Nat /\ h \in Space /\ m[h].word \in Nat /\ m[h].word >= 2
        /\ t \in Nat /\ t \in Space /\ m[t].word \in Nat /\ m[t].word >= 2
    BY <1>2, <1>3
  <1>5. Word \in Nat /\ 4 * Top < Word
    BY HeapAssumption
  <1> DEFINE w == m[h].word + m[t].word
             n == WithWord(m, h, w)
             idx1 == ArrayRemove(idx, PositionOf(idx, t))
             f1 == e - 1
             S == ToList(m, B, h, d)
  <1>6. /\ m[h].word + m[t].word < Word /\ w \in 0 .. Word - 1 /\ t + m[t].word < Word
        /\ e < Word /\ 1 <= e /\ 1 <= Word /\ t # h
    BY ONLY <1>2, <1>4, <1>5, t = h + m[h].word, t + m[t].word = e
  <1>7. Add(m[h].word, m[t].word) = w
    BY <1>4, <1>6, AddSmall
  <1>8. Add(t, m[t].word) = e
    BY <1>4, <1>6, AddSmall
  <1>9. Sub(e, 1) = e - 1
    BY <1>2, <1>6, SubIs
  <1>10. MergeRight(StageOf(m, idx, e, h, f, d)) = StageOf(n, idx1, e, h, f1, d)
    <2>1. t = f + 1 /\ m[t].magic /\ m[t].is_hole
      BY <1>3
    <2>2. MergeRight(StageOf(m, idx, e, h, f, d))
           = StageOf(WithWord(m, h, Add(m[h].word, m[t].word)),
                     ArrayRemove(idx, PositionOf(idx, t)), e, h, Sub(Add(t, m[t].word), 1), d)
      BY ONLY <2>1, MergeRightStage
    <2>3. QED
      BY <1>7, <1>8, <1>9, <2>2
  <1>11. Lists(idx, S)
    BY DEF Freeing, ToList
  <1>12. t \in S
    BY <1>3, <1>6 DEF HolesOf, ToList
  <1> HIDE DEF w, n, S
  <1>13. Lists(idx1, S \ {t})
    <2> DEFINE q == PositionOf(idx, t)
    <2>1. q \in 1 .. Len(idx) /\ idx[q] = t
      BY <1>11, <1>12, PositionOfListed
    <2> HIDE DEF q
    <2>2. Lists(ArrayRemove(idx, q), S \ {idx[q]})
      BY <1>11, <2>1, ArrayRemoveLists
    <2>3. QED
      BY <2>1, <2>2 DEF q
  <1> HIDE DEF idx1
  <1>14. WroteWord(n, m, h, w)
    BY <1>2, <1>4, <1>6, WordWritten DEF n
  <1> DEFINE C == B \ {t}
  <1>15. Freeing(n, idx1, e, h, d, C, L) /\ h + n[h].word = e
    <2>1. Lists(idx1, ToList(m, B, h, d) \ {t})
      BY <1>13 DEF S
    <2>2. TookRight(n, m, h, t)
      BY <1>14 DEF w, TookRight
    <2>3. LastAfter(m, e, h, B, t)
      BY DEF LastAfter
    <2>4. QED
      BY <2>1, <2>2, <2>3, RightFreeing
  <1>16. Kept(n, m, L)
    <2>1. ASSUME NEW y \in L, NEW c \in Payload(y) PROVE n[c] = m[c]
      <3>1. c \in Space /\ c # h
        BY PayloadApart
      <3>2. QED
        BY <1>14, <3>1 DEF WroteWord
    <2>2. QED
      BY <2>1 DEF Kept
  <1>17. f1 + 1 = e
    BY <1>2
  <1> HIDE DEF f1, C
  <1>18. Before(f1, e) /\ IsLast(n, e, h)
    BY <1>15, <1>17 DEF Before, IsLast
  <1>19. QED
    BY <1>10, <1>15, <1>16, <1>18

\* HeapContract leaves a rest of the hole, whether it shortens the heap or makes
\* it longer: it can do both.
LEMMA Contracted ==
  ASSUME NEW m, NEW idx, NEW e, NEW h, NEW d, NEW L, NEW B, Freeing(m, idx, e, h, d, B, L),
         IsLast(m, e, h), HighWater < HeapMinSize, NEW f, Before(f, e), NEW t
  PROVE  \E n, x : /\ Contract(StageOf(m, idx, e, h, f, d), t) = StageOf(n, idx, x, h, f, d)
                   /\ x <= HeapSize /\ IsLast(n, x, h)
                   /\ Freeing(n, idx, x, h, d, B, L) /\ Footed(n, h) /\ Kept(n, m, L)
PROOF
  <1>1. h + m[h].word = e /\ f + 1 = e
    BY DEF IsLast, Before
  <1> USE <1>1
  <1>2. /\ Top \in Nat /\ e \in Nat /\ e > 0 /\ e <= Top /\ m \in Mem /\ HeapMinSize \in Nat /\ HighWater \in Nat
        /\ \A y \in B : y \in Nat /\ m[y].word \in Nat
    BY FreeingFacts
  <1>3. h \in B /\ m[h].is_hole = TRUE /\ m[h].magic /\ h + 2 <= HighWater
    BY DEF Freeing
  <1>4. h \in Nat /\ h \in Space /\ m[h].word \in Nat /\ m[h].magic \in BOOLEAN
    <2>1. h \in Nat /\ h \in Space /\ m[h].word \in Nat
      BY <1>3, FreeingFacts
    <2>2. QED
      BY <1>2, <2>1 DEF Mem, Cell, Space
  <1>5. Word \in Nat /\ 4 * Top < Word /\ HeapSize \in Nat /\ HeapSize <= Top
    BY HeapAssumption
  <1> DEFINE x == ContractedLength(h)
  <1>6. h < HeapMinSize
    BY ONLY <1>2, <1>3, <1>4, HighWater < HeapMinSize
  <1>7. x \in HeapMinSize .. HeapSize
    BY <1>4, <1>6, ContractedFacts
  <1> HIDE DEF x
  <1>8. x \in Nat /\ x <= HeapSize /\ x >= h + 2 /\ x \in HeapMinSize .. Top /\ x <= Top
    BY ONLY <1>2, <1>3, <1>4, <1>5, <1>7, HighWater < HeapMinSize
  <1> DEFINE r == x - h
  <1>9. Sub(m[h].word, Sub(e, x)) = r
    <2>1. e < Word /\ x <= Word /\ m[h].word < Word /\ m[h].word = e - h
      BY ONLY <1>2, <1>4, <1>5, <1>8, h + m[h].word = e
    <2>2. CASE x <= e
      <3> DEFINE y == e - x
      <3>1. Sub(e, x) = y
        BY <1>2, <1>8, <2>1, <2>2, SubIs
      <3>2. y \in Nat /\ y <= Word /\ y <= m[h].word /\ m[h].word - y = r
        BY ONLY <1>2, <1>4, <1>5, <1>8, <2>1, <2>2 DEF y, r
      <3> HIDE DEF y
      <3>3. Sub(m[h].word, y) = m[h].word - y
        BY <1>4, <2>1, <3>2, SubIs
      <3>4. QED
        BY <3>1, <3>2, <3>3
    <2>3. CASE ~(x <= e)
      <3> DEFINE y == (e - x) + Word
      <3>1. Sub(e, x) = y
        BY <1>2, <1>8, <2>1, <2>3, SubIs
      <3>2. y \in Nat /\ y <= Word /\ ~(y <= m[h].word) /\ (m[h].word - y) + Word = r
        BY ONLY <1>2, <1>4, <1>5, <1>8, <2>1, <2>3 DEF y, r
      <3> HIDE DEF y
      <3>3. Sub(m[h].word, y) = (m[h].word - y) + Word
        BY <1>4, <2>1, <3>2, SubIs
      <3>4. QED
        BY <3>1, <3>2, <3>3
    <2>4. QED
      BY <2>2, <2>3
  <1>10. r \in Nat /\ r >= 2 /\ h + r = x /\ h + r < Word /\ 1 <= h + r /\ x < Word /\ 1 <= x /\ 1 <= Word
        /\ h + r - 1 = x - 1 /\ h + r <= Top /\ r > 0
    BY ONLY <1>2, <1>4, <1>5, <1>8 DEF r
  <1> HIDE DEF r
  <1>11. Sub(Add(h, r), 1) = h + r - 1
    <2>1. Add(h, r) = x
      BY <1>4, <1>10, AddSmall
    <2>2. Sub(x, 1) = x - 1
      BY <1>8, <1>10, SubIs
    <2>3. QED
      BY <1>10, <2>1, <2>2
  <1> DEFINE n == WithFooter(WithWord(m, h, r), h + r - 1, h)
  <1>12. Contract(StageOf(m, idx, e, h, f, d), t) = StageOf(n, idx, x, h, f, d)
    <2>1. Contract(StageOf(m, idx, e, h, f, d), t)
           = StageOf(WithFooter(WithWord(m, h, r), Sub(Add(h, r), 1), h), idx, x, h, f, d)
      BY <1>9, <1>10, ContractStage DEF x
    <2>2. QED
      BY <1>11, <2>1
  <1>13. WroteHole(n, m, h, r)
    BY <1>2, <1>3, <1>4, <1>10, HoleResized
  <1> HIDE DEF n
  <1>14. Freeing(n, idx, x, h, d, B, L) /\ Footed(n, h) /\ h + n[h].word = x
    BY <1>8, <1>13, ContractFreeing DEF r
  <1>15. Kept(n, m, L)
    <2>1. ASSUME NEW y \in L, NEW c \in Payload(y) PROVE n[c] = m[c]
      <3>1. c \in Space /\ c < h
        BY PayloadApart
      <3>2. c # h /\ c # h + r - 1
        BY ONLY <1>2, <1>4, <1>10, <3>1 DEF Space
      <3>3. QED
        BY <1>13, <3>1, <3>2 DEF WroteHole
    <2>2. QED
      BY <2>1 DEF Kept
  <1>16. IsLast(n, x, h)
    BY <1>14 DEF IsLast
  <1>17. QED
    BY <1>8, <1>12, <1>14, <1>15, <1>16

\* The rest of HeapFree, when a block in use follows.
LEMMA FreedAlone ==
  ASSUME NEW m, NEW idx, NEW e, NEW h, NEW d, NEW L, NEW B, Freeing(m, idx, e, h, d, B, L),
         Footed(m, h), FreeRule = "safe",
         NEW t \in B, t = h + m[h].word, m[t].is_hole # TRUE, NEW f, f + 1 = t
  PROVE  FreedTo(AddToIndex(Contract(MergeRight(StageOf(m, idx, e, h, f, d)), t)), m, e, L)
PROOF
  <1> DEFINE r == MergeRight(StageOf(m, idx, e, h, f, d))
             c == Contract(r, t)
             idx1 == IF d THEN IndexInsert(m, idx, h) ELSE idx
  <1>1. m[t].is_hole \in BOOLEAN /\ t # e
    <2>1. m \in Mem /\ t \in Space /\ t \in Nat /\ t < e /\ e \in Nat
      BY FreeingFacts
    <2>2. QED
      BY <2>1 DEF Mem, Cell, Space
  <1>2. r = StageOf(m, idx, e, h, f, d)
    <2>1. ~(m[f + 1].magic /\ m[f + 1].is_hole)
      BY <1>1
    <2>2. QED
      BY ONLY <2>1, NoMergeRightStage
  <1> HIDE DEF r
  <1>3. c = StageOf(m, idx, e, h, f, d)
    <2>1. f + 1 # e
      BY <1>1
    <2>2. Contract(StageOf(m, idx, e, h, f, d), t) = StageOf(m, idx, e, h, f, d)
      BY ONLY <2>1, NoContractStage
    <2>3. QED
      BY <1>2, <2>2
  <1> HIDE DEF c
  <1>4. AddToIndex(c) = StageOf(m, idx1, e, h, f, d)
    BY <1>3, AddStage
  <1>5. Sound(m, idx1, e, L, B)
    <2>1. ~(h + m[h].word \in B /\ m[h + m[h].word].is_hole)
      BY <1>1
    <2>2. QED
      BY <2>1, AddSound
  <1>6. Kept(m, m, L)
    BY DEF Kept
  <1> HIDE DEF idx1
  <1>7. FreedTo(StageOf(m, idx1, e, h, f, d), m, e, L)
    BY <1>5, <1>6 DEF FreedTo, StageOf
  <1>8. QED
    BY <1>4, <1>7 DEF c, r

\* The rest of HeapFree, when the last hole of the heap follows.
LEMMA FreedMerged ==
  ASSUME NEW m, NEW idx, NEW e, NEW h, NEW d, NEW L, NEW B, Freeing(m, idx, e, h, d, B, L),
         FreeRule = "safe", HighWater < HeapMinSize,
         NEW t, LastAfter(m, e, h, B, t), NEW f, Before(f, t)
  PROVE  FreedTo(AddToIndex(Contract(MergeRight(StageOf(m, idx, e, h, f, d)), t)), m, e, L)
PROOF
  <1>1. PICK n, idx1, f1, C : /\ MergeRight(StageOf(m, idx, e, h, f, d)) = StageOf(n, idx1, e, h, f1, d)
                              /\ Before(f1, e) /\ IsLast(n, e, h)
                              /\ Freeing(n, idx1, e, h, d, C, L) /\ Kept(n, m, L)
    BY MergedRight
  <1>2. PICK k, x : /\ Contract(StageOf(n, idx1, e, h, f1, d), t) = StageOf(k, idx1, x, h, f1, d)
                    /\ x <= HeapSize /\ IsLast(k, x, h)
                    /\ Freeing(k, idx1, x, h, d, C, L) /\ Footed(k, h) /\ Kept(k, n, L)
    BY <1>1, Contracted
  <1> DEFINE idx2 == IF d THEN IndexInsert(k, idx1, h) ELSE idx1
  <1>3. AddToIndex(StageOf(k, idx1, x, h, f1, d)) = StageOf(k, idx2, x, h, f1, d)
    BY AddStage
  <1>4. Sound(k, idx2, x, L, C)
    <2>1. x \notin C
      <3>1. \A a \in C : a \in Nat /\ a < x
        BY <1>2, FreeingFacts
      <3>2. QED
        BY <3>1
    <2>2. ~(h + k[h].word \in C /\ k[h + k[h].word].is_hole)
      BY <1>2, <2>1 DEF IsLast
    <2>3. QED
      BY <1>2, <2>2, AddSound
  <1>5. Kept(k, m, L)
    BY <1>1, <1>2 DEF Kept
  <1> HIDE DEF idx2
  <1>6. FreedTo(StageOf(k, idx2, x, h, f1, d), m, e, L)
    BY <1>2, <1>4, <1>5 DEF FreedTo, StageOf
  <1>7. QED
    BY <1>1, <1>2, <1>3, <1>6

\* HeapFree of a block the rule "safe" allows.
LEMMA FreeSound ==
  ASSUME NEW m, NEW idx, NEW e, NEW L, NEW B, Sound(m, idx, e, L, B), FreeRule = "safe",
         HighWater < HeapMinSize, NEW b \in L,
         NEW t, t = (b.addr - 1) + m[b.addr - 1].word,
         ~m[t].is_hole \/ t + m[t].word = e
  PROVE  /\ t \in B /\ Mark(m, idx, e, b.addr).footer + 1 = t
         /\ FreedTo(AddToIndex(Contract(MergeRight(MergeLeft(Mark(m, idx, e, b.addr))), t)), m, e, L \ {b})
PROOF
  <1> DEFINE a == b.addr - 1
             f == a + m[a].word - 1
             k == [m EXCEPT ![a].is_hole = TRUE]
  <1>1. /\ Mark(m, idx, e, b.addr) = StageOf(k, idx, e, a, f, TRUE)
        /\ a \in B /\ f + 1 = a + m[a].word /\ f \in Space
    BY FreeMarked
  <1>2. m \in Mem /\ a \in Space /\ \A y \in B : y + m[y].word \in B \cup {e}
    BY <1>1, SoundFacts
  <1>3. MarkedAt(k, m, a)
    BY <1>2, IsMarked
  <1>4. t \in B
    <2>1. PICK h \in B : h + m[h].word = e /\ m[h].is_hole = TRUE /\ \A y \in B : y <= h
      BY LastHole
    <2>2. Held(m, B, L)
      BY DEF Sound
    <2>3. m[a].is_hole # TRUE
      BY <2>2, HeldFacts
    <2>4. a # h
      BY <2>1, <2>3
    <2>5. a + m[a].word <= h /\ h < e /\ h \in Nat /\ e \in Nat /\ a \in Nat /\ m[a].word \in Nat
      <3>1. a \in Nat /\ h \in Nat /\ a <= h
        BY <1>1, <2>1, SoundFacts
      <3>2. a < h
        BY <2>4, <3>1
      <3>3. QED
        BY <1>1, <3>2, SoundFacts
    <2>6. t # e
      BY <2>5
    <2>7. QED
      BY <1>1, <1>2, <2>6
  <1>5. a = b.addr - 1 /\ f = a + m[a].word - 1 /\ t = a + m[a].word
    OBVIOUS
  <1> HIDE DEF a, f, k
  <1>6. PICK n, h, d, C : /\ MergeLeft(StageOf(k, idx, e, a, f, TRUE)) = StageOf(n, idx, e, h, f, d)
                          /\ LeftDone(n, h, d, C, m, idx, e, L, B, b, a + m[a].word)
    BY <1>3, <1>5, FreeLeft
  <1> DEFINE K == L \ {b}
  <1>7. /\ Freeing(n, idx, e, h, d, C, K)
        /\ Footed(n, h) /\ h + n[h].word = t
        /\ t \in C /\ n[t] = m[t] /\ Kept(n, m, K) /\ f + 1 = t
    BY <1>1, <1>4, <1>5, <1>6 DEF LeftDone
  <1> HIDE DEF K
  <1> DEFINE s == AddToIndex(Contract(MergeRight(StageOf(n, idx, e, h, f, d)), t))
  <1>8. FreedTo(s, n, e, K)
    <2>1. m[t].is_hole \in BOOLEAN
      <3>1. t \in Space
        BY <1>4, SoundFacts
      <3>2. QED
        BY <1>2, <3>1 DEF Mem, Cell, Space
    <2>2. CASE m[t].is_hole = TRUE
      <3>1. LastAfter(n, e, h, C, t) /\ Before(f, t)
        BY <1>7, <2>2 DEF LastAfter, Before
      <3>2. QED
        BY <1>7, <3>1, FreedMerged
    <2>3. CASE m[t].is_hole = FALSE
      <3>1. n[t].is_hole # TRUE
        BY <1>7, <2>3
      <3>2. QED
        BY <1>7, <3>1, FreedAlone
    <2>4. QED
      BY <2>1, <2>2, <2>3
  <1> HIDE DEF s
  <1>9. FreedTo(s, m, e, K)
    BY <1>7, <1>8 DEF FreedTo, Kept
  <1>10. Mark(m, idx, e, b.addr).footer = f
    BY <1>1 DEF StageOf
  <1>11. AddToIndex(Contract(MergeRight(MergeLeft(Mark(m, idx, e, b.addr))), t)) = s
    BY <1>1, <1>6 DEF s
  <1>12. QED
    BY <1>4, <1>7, <1>9, <1>10, <1>11 DEF K

-----------------------------------------------------------------------------
(***************************************************************************)
(* The theorems.                                                           *)
(***************************************************************************)
\* The instances the theorems are about.
Bounded ==
  /\ HeapSize >= Overhead
  /\ FreeRule = "none" \/ (FreeRule = "safe" /\ HighWater < HeapMinSize)

\* The inductive invariant.
HeapIInv ==
  /\ fault = FALSE
  /\ mapped_end \in 0 .. Top /\ end_address <= mapped_end
  /\ FreeRule = "safe" => mapped_end = HeapSize
  /\ \E B : Sound(mem, index, end_address, live, B)

\* HeapCreate establishes the invariant.
LEMMA InitInv ==
  ASSUME Bounded, Init
  PROVE  HeapIInv
PROOF
  <1>1. /\ PageSize \in Nat \ {0} /\ HeapMinSize \in Nat /\ Top \in Nat /\ Word \in Nat
        /\ HeapSize \in Nat /\ HeapMinSize <= HeapSize /\ HeapSize <= Top /\ HeapSize % PageSize = 0 /\ 4 * Top < Word
    BY HeapAssumption
  <1>2. HeapSize >= 2
    BY DEF Bounded, Overhead
  <1>3. HeapSize \in 0 .. Word - 1 /\ 0 \in -1 .. Top - 1 /\ -1 \in -1 .. Top - 1 /\ 0 \in 0 .. Word - 1
    BY <1>1, <1>2
  <1>4. /\ mem[0] = [magic |-> TRUE, is_hole |-> TRUE, word |-> HeapSize]
        /\ mem[-1] = Junk
    BY <1>3 DEF Init
  <1>5. mem \in Mem
    BY <1>3 DEF Init, Mem, Cell, Junk
  <1>6. Tiled(mem, HeapSize, {0})
    BY <1>1, <1>2, <1>4 DEF Tiled
  <1>7. Lists(<<0>>, HolesOf(mem, {0}))
    <2>1. HolesOf(mem, {0}) = {0}
      BY <1>4 DEF HolesOf
    <2>2. <<0>> \in Seq(Int) /\ Len(<<0>>) = 1 /\ <<0>>[1] = 0
      OBVIOUS
    <2> DEFINE q == <<0>>
    <2> HIDE DEF q
    <2>3. q \in Seq(Int) /\ Len(q) = 1 /\ q[1] = 0
      BY <2>2 DEF q
    <2>4. Lists(q, {0})
      <3>1. \A i \in 1 .. Len(q) : i = 1
        BY <2>3
      <3>2. 1 \in 1 .. Len(q)
        BY <2>3
      <3>3. QED
        BY <2>3, <3>1, <3>2 DEF Lists
    <2>5. QED
      BY <2>1, <2>4 DEF q
  <1>8. Held(mem, {0}, {})
    BY <1>4 DEF Held
  <1>9. Apart(mem, {0})
    BY <1>1, <1>2, <1>4 DEF Apart
  <1>10. Ruled(mem, HeapSize, {}, {0})
    BY <1>1, <1>4 DEF Ruled
  <1>11. Sound(mem, <<0>>, HeapSize, {}, {0})
    <2>1. mem[-1].magic = FALSE /\ mem[0].magic
      BY <1>4 DEF Junk
    <2>2. HeapSize \in HeapMinSize .. Top
      BY <1>1
    <2>3. QED
      BY <1>5, <1>6, <1>7, <1>8, <1>9, <1>10, <2>1, <2>2 DEF Sound
  <1>12. \E B : Sound(mem, index, end_address, live, B)
    <2>1. index = <<0>> /\ end_address = HeapSize /\ live = {}
      BY DEF Init
    <2>2. Sound(mem, index, end_address, live, {0})
      BY ONLY <1>11, <2>1
    <2>3. QED
      BY ONLY <2>2
  <1>13. fault = FALSE /\ mapped_end = HeapSize /\ end_address = HeapSize
    BY DEF Init
  <1>14. QED
    BY <1>1, <1>12, <1>13 DEF HeapIInv

\* kmalloc keeps the invariant.
LEMMA AllocateStep ==
  ASSUME Bounded, HeapIInv, NEW size \in Sizes, kmallocFromHole(size) \/ kmallocGrowing(size)
  PROVE  HeapIInv' /\ Allocated
PROOF
  <1>1. PICK B : Sound(mem, index, end_address, live, B)
    BY DEF HeapIInv
  <1>2. CASE kmallocFromHole(size)
    <2>1. (\E C : Sound(mem', index', end_address', live', C)) /\ Allocated
      BY <1>1, <1>2, FromHoleSound
    <2>2. UNCHANGED <<end_address, mapped_end, fault>>
      BY <1>2 DEF kmallocFromHole
    <2>3. QED
      BY <2>1, <2>2 DEF HeapIInv
  <1>3. CASE kmallocGrowing(size)
    <2>1. FreeRule = "none"
      BY <1>1, <1>3, NoGrowth DEF Bounded
    <2>2. (\E C : Sound(mem', index', end_address', live', C)) /\ Allocated
      BY <1>1, <1>3, <2>1, GrowingSound
    <2>3. /\ mapped_end' = IF end_address' > mapped_end THEN end_address' ELSE mapped_end
          /\ fault' = fault
      BY <1>3 DEF kmallocGrowing
    <2>4. end_address' \in Nat /\ end_address' <= Top /\ Top \in Nat
      BY <2>2, SoundFacts
    <2>5. mapped_end' \in 0 .. Top /\ end_address' <= mapped_end'
      BY <2>3, <2>4 DEF HeapIInv
    <2>6. QED
      BY <2>1, <2>2, <2>3, <2>5 DEF HeapIInv
  <1>4. QED
    BY <1>2, <1>3

\* kfree keeps the invariant, takes the block from its caller and touches no
\* payload of the others.
LEMMA FreeStep ==
  ASSUME Bounded, HeapIInv, NEW block \in live, kfree(block)
  PROVE  HeapIInv' /\ live' = live \ {block} /\ Kept(mem', mem, live')
PROOF
  <1>1. PICK B : Sound(mem, index, end_address, live, B)
    BY DEF HeapIInv
  <1> DEFINE a == block.addr - 1
             t == a + mem[a].word
             marked == Mark(mem, index, end_address, block.addr)
             after == marked.footer + 1
             done == AddToIndex(Contract(MergeRight(MergeLeft(marked)), after))
             runsOff == \/ ~Mapped(after)
                        \/ index = <<>> /\ mem[after].magic /\ mem[after].is_hole
             K == live \ {block}
  <1>2. /\ FreeAllowed(block)
        /\ live' = K
        /\ fault' = runsOff
        /\ mem' = IF runsOff THEN mem ELSE done.mem
        /\ index' = IF runsOff THEN index ELSE done.index
        /\ end_address' = IF runsOff THEN end_address ELSE done.end
        /\ mapped_end' = mapped_end
    BY DEF kfree
  <1>3. FreeRule = "safe" /\ HighWater < HeapMinSize
    BY <1>2 DEF FreeAllowed, Bounded
  <1>4. ~mem[t].is_hole \/ t + mem[t].word = end_address
    BY <1>2, <1>3 DEF FreeAllowed
  <1>5. /\ t \in B /\ after = t
        /\ FreedTo(AddToIndex(Contract(MergeRight(MergeLeft(marked)), t)), mem, end_address, K)
    BY <1>1, <1>3, <1>4, FreeSound
  <1>6. FreedTo(done, mem, end_address, K)
    BY <1>5
  <1>7. runsOff = FALSE
    <2>1. t \in Nat /\ t < end_address /\ end_address \in Nat
      BY <1>1, <1>5, SoundFacts
    <2>2. Mapped(after)
      BY <1>5, <2>1 DEF Mapped, HeapIInv
    <2>3. ~(index = <<>> /\ mem[after].is_hole)
      <3>1. Lists(index, HolesOf(mem, B))
        BY <1>1 DEF Sound
      <3>2. mem[t].is_hole => t \in HolesOf(mem, B)
        BY <1>5 DEF HolesOf
      <3>3. index = <<>> => HolesOf(mem, B) = {}
        BY <3>1 DEF Lists
      <3>4. QED
        BY <1>5, <3>2, <3>3
    <2>4. QED
      BY <2>2, <2>3
  <1> HIDE DEF runsOff, done, K
  <1>8. mem' = done.mem /\ index' = done.index /\ end_address' = done.end /\ fault' = FALSE
    BY <1>2, <1>7
  <1>9. /\ \E C : Sound(mem', index', end_address', live', C)
        /\ end_address' = end_address \/ end_address' <= HeapSize
        /\ Kept(mem', mem, live')
    BY <1>2, <1>6, <1>8 DEF FreedTo
  <1>10. HeapIInv'
    BY <1>2, <1>3, <1>8, <1>9 DEF HeapIInv
  <1>11. QED
    BY <1>2, <1>9, <1>10 DEF K

\* The invariant is inductive.
LEMMA StepInv ==
  ASSUME Bounded, HeapIInv, [Next]_vars
  PROVE  HeapIInv'
PROOF
  <1>1. CASE \E size \in Sizes : kmallocFromHole(size) \/ kmallocGrowing(size)
    BY <1>1, AllocateStep
  <1>2. CASE \E block \in live : kfree(block)
    BY <1>2, FreeStep
  <1>3. CASE UNCHANGED vars
    BY <1>3 DEF vars, HeapIInv
  <1>4. QED
    BY <1>1, <1>2, <1>3 DEF Next

\* The inductive invariant holds in every state: kmalloc and kfree keep the heap
\* sound.
THEOREM HeapInvariant == Bounded => (Spec => []HeapIInv)
PROOF
  <1> SUFFICES ASSUME Bounded PROVE Spec => []HeapIInv
    OBVIOUS
  <1>1. Init => HeapIInv
    BY InitInv
  <1>2. HeapIInv /\ [Next]_vars => HeapIInv'
    BY StepInv
  <1>3. QED
    BY <1>1, <1>2, PTL DEF Spec

\* The invariant implies what the runs check.
LEMMA InvWellFormed ==
  ASSUME HeapIInv
  PROVE  TypeOK /\ HeapWellFormed /\ HolesSound
PROOF
  <1>1. PICK B : Sound(mem, index, end_address, live, B)
    BY DEF HeapIInv
  <1>2. Starts = B \cup {end_address} /\ BlockStarts = B
    BY <1>1, StartsAre DEF Sound
  <1>3. Holes = HolesOf(mem, B)
    BY <1>2 DEF Holes, HolesOf
  <1>4. Lists(index, HolesOf(mem, B)) /\ Held(mem, B, live) /\ Apart(mem, B)
    BY <1>1 DEF Sound
  <1>5. Indexed = Holes
    BY <1>3, <1>4 DEF Lists, Indexed
  <1>6. /\ end_address \in Nat /\ HeapMinSize \in Nat /\ end_address >= HeapMinSize
        /\ \A a \in B : a \in Nat /\ a < end_address
    BY <1>1, SoundFacts
  <1>7. TypeOK
    <2>1. mem \in Mem /\ live \subseteq [addr : 1 .. Top, size : Sizes]
      BY <1>1, <1>4 DEF Sound, Held
    <2>2. Indexed \subseteq 0 .. end_address - 1
      BY <1>3, <1>5, <1>6 DEF HolesOf
    <2>3. end_address \in HeapMinSize .. mapped_end /\ mapped_end \in 0 .. Top /\ ~fault
      BY <1>6, HeapAssumption DEF HeapIInv
    <2>4. DOMAIN mem = -1 .. Top - 1 /\ \A a \in DOMAIN mem : mem[a] \in Cell
      BY <2>1 DEF Mem
    <2>5. QED
      BY <2>1, <2>2, <2>3, <2>4 DEF TypeOK, Cell
  <1>8. HeapWellFormed
    <2>1. \A a \in B : mem[a].magic /\ (a # 0 \/ live # {} => Footed(mem, a))
      BY <1>1 DEF Sound
    <2>2. BlockStarts \ Holes = {block.addr - 1 : block \in live}
      BY <1>2, <1>3, <1>4 DEF Held, HolesOf
    <2>3. \A block \in live : mem[block.addr - 1].word >= block.size + Overhead
      BY <1>4 DEF Held
    <2>4. end_address \in Starts
      BY <1>2
    <2>5. QED
      BY <1>2, <2>1, <2>2, <2>3, <2>4 DEF HeapWellFormed, Footed
  <1>9. HolesSound
    <2>1. HolesIndexed
      BY <1>4, <1>5 DEF HolesIndexed, Lists
    <2>2. Coalesced
      BY <1>3, <1>4 DEF Coalesced, Apart, HolesOf
    <2>3. QED
      BY <2>1, <2>2 DEF HolesSound
  <1>10. QED
    BY <1>7, <1>8, <1>9

\* The state of the heap keeps its type, the heap is never shorter than
\* HEAP_MIN_SIZE, and kfree neither reads unmapped memory nor removes from an
\* empty index.
THEOREM TypeCorrect == Bounded => (Spec => []TypeOK)
PROOF
  <1>1. HeapIInv => TypeOK
    BY InvWellFormed
  <1>2. QED
    BY <1>1, HeapInvariant, PTL

\* Headers and footers tile the heap after every kmalloc and kfree, and the
\* blocks in use are those the callers hold.
THEOREM WellFormed == Bounded => (Spec => []HeapWellFormed)
PROOF
  <1>1. HeapIInv => HeapWellFormed
    BY InvWellFormed
  <1>2. QED
    BY <1>1, HeapInvariant, PTL

\* The index lists every hole exactly once, and no two holes touch: HeapFree
\* merges all it can.
THEOREM HolesAreSound == Bounded => (Spec => []HolesSound)
PROOF
  <1>1. HeapIInv => HolesSound
    BY InvWellFormed
  <1>2. QED
    BY <1>1, HeapInvariant, PTL

\* No kmalloc and no kfree writes into a block a caller holds.
THEOREM PayloadKept == Bounded => (Spec => PayloadUntouched)
PROOF
  <1> SUFFICES ASSUME Bounded PROVE Spec => PayloadUntouched
    OBVIOUS
  <1> DEFINE Untouched == \A block \in live \cap live' : \A a \in Payload(block) : mem'[a] = mem[a]
  <1>1. HeapIInv /\ [Next]_vars => [Untouched]_vars
    <2> SUFFICES ASSUME HeapIInv, Next PROVE Untouched
      OBVIOUS
    <2>1. CASE \E size \in Sizes : kmallocFromHole(size) \/ kmallocGrowing(size)
      <3>1. Allocated
        BY <2>1, AllocateStep
      <3>2. QED
        BY <3>1 DEF Allocated, Served
    <2>2. CASE \E block \in live : kfree(block)
      <3>1. Kept(mem', mem, live')
        BY <2>2, FreeStep
      <3>2. QED
        BY <3>1 DEF Kept
    <2>3. QED
      BY <2>1, <2>2 DEF Next
  <1>2. QED
    BY <1>1, HeapInvariant, PTL DEF Spec, PayloadUntouched

\* The heap implements the abstract block allocator: kmalloc hands out a block
\* that overlaps no other, and kfree takes back that block only.
THEOREM HeapImplementsBlocks == Bounded => (Spec => ImplementsBlockAllocator)
PROOF
  <1> SUFFICES ASSUME Bounded PROVE Spec => ImplementsBlockAllocator
    OBVIOUS
  <1>1. Init => Blocks!Init
    BY DEF Init, Blocks!Init
  <1>2. HeapIInv /\ [Next]_vars => [Blocks!Next]_live
    <2> SUFFICES ASSUME HeapIInv, Next PROVE Blocks!Next
      BY DEF vars
    <2>1. CASE \E size \in Sizes : kmallocFromHole(size) \/ kmallocGrowing(size)
      <3>1. PICK g : live' = live \cup {g} /\ Served(mem', mem, live, g)
        BY <2>1, AllocateStep DEF Allocated
      <3>2. g \in live' \ live
        BY <3>1 DEF Served
      <3>3. \A other \in live : Blocks!Cells(other) \cap Blocks!Cells(g) = {}
        BY <3>1 DEF Served, Payload, Blocks!Cells
      <3>4. QED
        BY <3>1, <3>2, <3>3 DEF Blocks!Next, Blocks!Allocate
    <2>2. CASE \E block \in live : kfree(block)
      <3>1. \E block \in live : live' = live \ {block}
        BY <2>2, FreeStep
      <3>2. QED
        BY <3>1 DEF Blocks!Next, Blocks!Free
    <2>3. QED
      BY <2>1, <2>2 DEF Next
  <1>3. QED
    BY <1>1, <1>2, HeapInvariant, PTL DEF Spec, ImplementsBlockAllocator, Blocks!Spec
=============================================================================

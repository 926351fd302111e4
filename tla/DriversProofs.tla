--------------------------- MODULE DriversProofs ---------------------------
(***************************************************************************)
(* Proofs about the parts of the system of MCDrivers, for any set of       *)
(* elements, any memory, any set of tasks, any ring, any set of commands,  *)
(* any buses and any firmware: the LIST_ macros keep a list that can be    *)
(* walked both ways, memmove and memset do what they promise byte by byte, *)
(* the tasks are on their list once each, in the order of their numbers,   *)
(* the cycle bits tell the driver's slots from the controller's and the    *)
(* ring is a first-in first-out queue, ComPrint loses at most one          *)
(* character per interrupt, the PCI drivers are in order and their         *)
(* interrupts have a handler, and the bytes of the mouse are those of      *)
(* whole packets.                                                          *)
(***************************************************************************)
EXTENDS MCDrivers, ArithmeticLemmas, FiniteSetTheorems, SequenceTheorems, TLAPS

(***************************************************************************)
(* Lists.                                                                  *)
(***************************************************************************)
(* A sequence without its element at k.                                    *)
LEMMA RemoveAtIs ==
  ASSUME NEW S, NEW s \in Seq(S), NEW k \in 1..Len(s)
  PROVE  /\ RemoveAt(s, k) \in Seq(S) /\ Len(RemoveAt(s, k)) = Len(s) - 1
         /\ \A j \in 1..(k - 1) : RemoveAt(s, k)[j] = s[j]
         /\ \A j \in k..(Len(s) - 1) : RemoveAt(s, k)[j] = s[j + 1]
PROOF
  <1> DEFINE a == SubSeq(s, 1, k - 1)
             b == SubSeq(s, k + 1, Len(s))
             n == Len(s)
  <1>1. n \in Nat /\ k \in 1..n
    OBVIOUS
  <1>2. a \in Seq(S) /\ Len(a) = k - 1 /\ \A j \in 1..(k - 1) : a[j] = s[j]
    BY <1>1
  <1>3. b \in Seq(S) /\ Len(b) = n - k /\ \A j \in 1..(n - k) : b[j] = s[k + j]
    <2>1. \A j \in (k + 1)..n : s[j] \in S
      OBVIOUS
    <2>2. Len(b) = IF k + 1 <= n THEN n - (k + 1) + 1 ELSE 0
      BY <1>1
    <2>3. Len(b) = n - k
      BY <1>1, <2>2
    <2>4. \A j \in 1..(n - k) : b[j] = s[(k + 1) + j - 1]
      BY <1>1, <2>3
    <2>5. \A j \in 1..(n - k) : (k + 1) + j - 1 = k + j
      BY <1>1
    <2>6. b \in Seq(S)
      BY <1>1, <2>1
    <2>7. QED
      BY <2>3, <2>4, <2>5, <2>6
  <1>4. RemoveAt(s, k) = a \o b
    BY DEF RemoveAt
  <1> HIDE DEF a, b, n
  <1>5. /\ a \o b \in Seq(S) /\ Len(a \o b) = Len(a) + Len(b)
        /\ \A j \in 1..(Len(a) + Len(b)) : (a \o b)[j] = IF j <= Len(a) THEN a[j] ELSE b[j - Len(a)]
    BY <1>2, <1>3, ConcatProperties
  <1>6. Len(a) + Len(b) = n - 1
    BY <1>1, <1>2, <1>3
  <1>7. \A j \in 1..(k - 1) : (a \o b)[j] = s[j]
    <2> TAKE j \in 1..(k - 1)
    <2>1. j \in 1..(n - 1) /\ j <= Len(a)
      BY <1>1, <1>2
    <2>2. QED
      BY <1>2, <1>5, <1>6, <2>1
  <1>8. ASSUME NEW j \in k..(n - 1)
        PROVE  (a \o b)[j] = s[j + 1]
    <2>1. j \in 1..(n - 1) /\ ~(j <= Len(a)) /\ j - Len(a) \in 1..(n - k) /\ k + (j - Len(a)) = j + 1
      BY <1>1, <1>2
    <2>2. (a \o b)[j] = b[j - Len(a)]
      BY <1>5, <1>6, <2>1
    <2>3. b[j - Len(a)] = s[k + (j - Len(a))]
      BY <1>3, <2>1
    <2>4. QED
      BY <2>1, <2>2, <2>3
  <1>9. QED
    BY <1>4, <1>5, <1>6, <1>7, <1>8 DEF n

LEMMA ListInitSound == ListInit => ListIInv
PROOF
  BY DEF ListInit, ListIInv, Linked, Links

LEMMA ListAddSound ==
  ASSUME ListIInv, NEW el \in Elements, LIST_ADD(el)
  PROVE  ListIInv'
PROOF
  <1> DEFINE n == Len(list)
             r == Append(list, el)
  <1>1. /\ list \in Seq(Elements) /\ n \in Nat /\ next \in Links /\ prev \in Links
        /\ \A j, k \in 1..n : list[j] = list[k] => j = k
        /\ \A k \in 1..(n - 1) : next[list[k]] = list[k + 1] /\ prev[list[k + 1]] = list[k]
        /\ n = 0 => first = Null
        /\ n # 0 => first = list[1] /\ last = list[n] /\ next[last] = Null /\ prev[first] = Null
    BY DEF ListIInv, Linked
  <1>2. \A k \in 1..n : list[k] \in Elements /\ list[k] # el
    BY <1>1 DEF LIST_ADD, Contains
  <1>3. r \in Seq(Elements) /\ Len(r) = n + 1 /\ r[n + 1] = el /\ \A k \in 1..n : r[k] = list[k]
    BY <1>1
  <1>4. list' = r /\ last' = el
    BY DEF LIST_ADD
  <1>5. Null \notin Elements
    BY ListAssumption
  <1> HIDE DEF r, n
  <1>6. \A j, k \in 1..(n + 1) : r[j] = r[k] => j = k
    <2>1. \A k \in 1..(n + 1) : k \in 1..n \/ k = n + 1
      BY <1>1
    <2> TAKE j, k \in 1..(n + 1)
    <2>2. CASE j \in 1..n /\ k \in 1..n
      BY <1>1, <1>3, <2>2
    <2>3. CASE j = n + 1 \/ k = n + 1
      BY <1>2, <1>3, <2>1, <2>3
    <2>4. QED
      BY <2>1, <2>2, <2>3
  <1>7. CASE n = 0
    <2>1. /\ first' = el /\ next' = [next EXCEPT ![el] = Null] /\ prev' = [prev EXCEPT ![el] = Null]
      BY <1>1, <1>7 DEF LIST_ADD
    <2>2. next' \in Links /\ prev' \in Links /\ next'[el] = Null /\ prev'[el] = Null
      BY <1>1, <2>1 DEF Links
    <2>3. Linked(r, el, el, next', prev')
      BY <1>3, <1>6, <1>7, <2>2 DEF Linked
    <2>4. QED
      BY <1>4, <2>1, <2>3 DEF ListIInv
  <1>8. CASE n # 0
    <2>1. first # Null /\ n \in 1..n /\ 1 \in 1..n
      BY <1>1, <1>2, <1>5, <1>8
    <2>2. first' = first /\ next' = [next EXCEPT ![last] = el, ![el] = Null] /\ prev' = [prev EXCEPT ![el] = last]
      BY <2>1 DEF LIST_ADD
    <2>3. last \in Elements /\ first \in Elements /\ last # el /\ first # el
      BY <1>1, <1>2, <1>8, <2>1
    <2>4. /\ next' \in Links /\ prev' \in Links
          /\ next'[el] = Null /\ prev'[el] = last /\ next'[last] = el
          /\ \A x \in Elements \ {el, last} : next'[x] = next[x]
          /\ \A x \in Elements \ {el} : prev'[x] = prev[x]
      BY <1>1, <2>2, <2>3 DEF Links
    <2>5. ASSUME NEW k \in 1..n
          PROVE  next'[r[k]] = r[k + 1] /\ prev'[r[k + 1]] = r[k]
      <3>1. CASE k = n
        BY <1>1, <1>3, <1>8, <2>4, <3>1
      <3>2. CASE k # n
        <4>1. k \in 1..(n - 1) /\ k + 1 \in 1..n
          BY <1>1, <3>2
        <4>2. list[k] # last /\ list[k] # el /\ list[k + 1] # el
          BY <1>1, <1>2, <1>8, <2>1, <3>2, <4>1
        <4>3. next'[list[k]] = list[k + 1] /\ prev'[list[k + 1]] = list[k]
          BY <1>1, <1>2, <2>4, <4>1, <4>2
        <4>4. QED
          BY <1>3, <4>1, <4>3
      <3>3. QED
        BY <3>1, <3>2
    <2>6. r[1] = first /\ prev'[first] = Null
      BY <1>1, <1>3, <1>8, <2>1, <2>3, <2>4
    <2>7. /\ \A k \in 1..(Len(r) - 1) : next'[r[k]] = r[k + 1] /\ prev'[r[k + 1]] = r[k]
          /\ Len(r) # 0 /\ r[Len(r)] = el
          /\ \A j, k \in 1..Len(r) : r[j] = r[k] => j = k
      <3>1. Len(r) - 1 = n
        BY <1>1, <1>3
      <3>2. QED
        BY <1>1, <1>3, <1>6, <2>5, <3>1
    <2>8. Linked(r, first, el, next', prev')
      BY <1>3, <2>4, <2>6, <2>7 DEF Linked
    <2>9. QED
      BY <1>4, <2>2, <2>8 DEF ListIInv
  <1>9. QED
    BY <1>7, <1>8

LEMMA ListAddFrontSound ==
  ASSUME ListIInv, NEW el \in Elements, LIST_ADD_FRONT(el)
  PROVE  ListIInv'
PROOF
  <1> DEFINE n == Len(list)
             r == <<el>> \o list
  <1>1. /\ list \in Seq(Elements) /\ n \in Nat /\ next \in Links /\ prev \in Links
        /\ \A j, k \in 1..n : list[j] = list[k] => j = k
        /\ \A k \in 1..(n - 1) : next[list[k]] = list[k + 1] /\ prev[list[k + 1]] = list[k]
        /\ n = 0 => first = Null
        /\ n # 0 => first = list[1] /\ last = list[n] /\ next[last] = Null /\ prev[first] = Null
    BY DEF ListIInv, Linked
  <1>2. \A k \in 1..n : list[k] \in Elements /\ list[k] # el
    BY <1>1 DEF LIST_ADD_FRONT, Contains
  <1>3. r \in Seq(Elements) /\ Len(r) = n + 1 /\ r[1] = el /\ \A k \in 1..n : r[k + 1] = list[k]
    <2> DEFINE one == <<el>>
    <2>1. one \in Seq(Elements) /\ Len(one) = 1 /\ one[1] = el
      OBVIOUS
    <2> HIDE DEF one
    <2>2. /\ one \o list \in Seq(Elements) /\ Len(one \o list) = 1 + n
          /\ \A k \in 1..(1 + n) : (one \o list)[k] = IF k <= 1 THEN one[k] ELSE list[k - 1]
      <3>1. /\ one \o list \in Seq(Elements) /\ Len(one \o list) = Len(one) + Len(list)
            /\ \A k \in 1..(Len(one) + Len(list)) :
                 (one \o list)[k] = IF k <= Len(one) THEN one[k] ELSE list[k - Len(one)]
        <4>1. one \in Seq(Elements) /\ list \in Seq(Elements)
          BY <1>1, <2>1
        <4>2. QED
          BY ONLY <4>1, ConcatProperties
      <3>2. QED
        BY <2>1, <3>1
    <2>3. \A k \in 1..n : k + 1 \in 1..(1 + n) /\ ~(k + 1 <= 1) /\ (k + 1) - 1 = k
      BY <1>1
    <2>4. 1 \in 1..(1 + n) /\ 1 + n = n + 1
      BY <1>1
    <2>5. (one \o list)[1] = el
      BY <2>1, <2>2, <2>4
    <2>6. \A k \in 1..n : (one \o list)[k + 1] = list[k]
      BY <2>2, <2>3
    <2>7. QED
      BY <2>2, <2>4, <2>5, <2>6 DEF one
  <1>4. list' = r /\ first' = el
    BY DEF LIST_ADD_FRONT
  <1>5. Null \notin Elements
    BY ListAssumption
  <1> HIDE DEF r, n
  <1>6. \A k \in 1..(n + 1) : k = 1 \/ (k - 1 \in 1..n /\ r[k] = list[k - 1])
    <2> TAKE k \in 1..(n + 1)
    <2>1. k = 1 \/ (k - 1 \in 1..n /\ (k - 1) + 1 = k)
      BY <1>1
    <2>2. QED
      BY <1>3, <2>1
  <1>7. \A j, k \in 1..(n + 1) : r[j] = r[k] => j = k
    <2> TAKE j, k \in 1..(n + 1)
    <2>1. CASE j = 1 \/ k = 1
      BY <1>2, <1>3, <1>6, <2>1
    <2>2. CASE j # 1 /\ k # 1
      <3>1. j - 1 \in 1..n /\ k - 1 \in 1..n /\ r[j] = list[j - 1] /\ r[k] = list[k - 1]
        BY <1>6, <2>2
      <3>2. list[j - 1] = list[k - 1] => j - 1 = k - 1
        BY <1>1, <3>1
      <3>3. QED
        BY <1>1, <3>1, <3>2
    <2>3. QED
      BY <2>1, <2>2
  <1>8. CASE n = 0
    <2>1. /\ last' = el /\ next' = [next EXCEPT ![el] = Null] /\ prev' = [prev EXCEPT ![el] = Null]
      BY <1>1, <1>8 DEF LIST_ADD_FRONT
    <2>2. next' \in Links /\ prev' \in Links /\ next'[el] = Null /\ prev'[el] = Null
      BY <1>1, <2>1 DEF Links
    <2>3. Linked(r, el, el, next', prev')
      BY <1>3, <1>7, <1>8, <2>2 DEF Linked
    <2>4. QED
      BY <1>4, <2>1, <2>3 DEF ListIInv
  <1>9. CASE n # 0
    <2>1. first # Null /\ n \in 1..n /\ 1 \in 1..n
      BY <1>1, <1>2, <1>5, <1>9
    <2>2. last' = last /\ prev' = [prev EXCEPT ![first] = el, ![el] = Null] /\ next' = [next EXCEPT ![el] = first]
      BY <2>1 DEF LIST_ADD_FRONT
    <2>3. last \in Elements /\ first \in Elements /\ last # el /\ first # el
      BY <1>1, <1>2, <1>9, <2>1
    <2>4. /\ next' \in Links /\ prev' \in Links
          /\ prev'[el] = Null /\ next'[el] = first /\ prev'[first] = el
          /\ \A x \in Elements \ {el, first} : prev'[x] = prev[x]
          /\ \A x \in Elements \ {el} : next'[x] = next[x]
      BY <1>1, <2>2, <2>3 DEF Links
    <2>5. ASSUME NEW k \in 1..n
          PROVE  next'[r[k]] = r[k + 1] /\ prev'[r[k + 1]] = r[k]
      <3>1. CASE k = 1
        BY <1>1, <1>3, <1>9, <2>1, <2>4, <3>1
      <3>2. CASE k # 1
        <4> DEFINE m == k - 1
        <4>1. m \in 1..(n - 1) /\ m \in 1..n /\ m + 1 \in 1..n /\ k = m + 1
          BY <1>1, <3>2
        <4> HIDE DEF m
        <4>2. list[m + 1] # first /\ list[m] # el /\ list[m + 1] # el
          <5>1. m + 1 # 1
            BY <3>2, <4>1
          <5>2. QED
            BY <1>1, <1>2, <1>9, <2>1, <4>1, <5>1
        <4>3. next'[list[m]] = list[m + 1] /\ prev'[list[m + 1]] = list[m]
          BY <1>1, <1>2, <2>4, <4>1, <4>2
        <4>4. r[k] = list[m] /\ r[k + 1] = list[m + 1]
          BY <1>3, <4>1
        <4>5. QED
          BY <4>3, <4>4
      <3>3. QED
        BY <3>1, <3>2
    <2>6. r[n + 1] = last /\ next'[last] = Null
      BY <1>1, <1>3, <1>9, <2>1, <2>3, <2>4
    <2>7. /\ \A k \in 1..(Len(r) - 1) : next'[r[k]] = r[k + 1] /\ prev'[r[k + 1]] = r[k]
          /\ Len(r) # 0 /\ r[Len(r)] = last /\ r[1] = el
          /\ \A j, k \in 1..Len(r) : r[j] = r[k] => j = k
      <3>1. Len(r) - 1 = n
        BY <1>1, <1>3
      <3>2. QED
        BY <1>1, <1>3, <1>7, <2>5, <2>6, <3>1
    <2>8. Linked(r, el, last, next', prev')
      BY <1>3, <2>4, <2>6, <2>7 DEF Linked
    <2>9. QED
      BY <1>4, <2>2, <2>8 DEF ListIInv
  <1>10. QED
    BY <1>8, <1>9

LEMMA ListRemoveSound ==
  ASSUME ListIInv, NEW el \in Elements, LIST_REMOVE(el)
  PROVE  ListIInv'
PROOF
  <1>a. PICK k \in 1..Len(list) : list[k] = el /\ Unlink(el) /\ list' = RemoveAt(list, k)
    BY DEF LIST_REMOVE
  <1> DEFINE n == Len(list)
             r == RemoveAt(list, k)
  <1>1. /\ list \in Seq(Elements) /\ n \in Nat /\ k \in 1..n /\ next \in Links /\ prev \in Links
        /\ \A j, m \in 1..n : list[j] = list[m] => j = m
        /\ \A j \in 1..(n - 1) : next[list[j]] = list[j + 1] /\ prev[list[j + 1]] = list[j]
        /\ first = list[1] /\ last = list[n] /\ next[last] = Null /\ prev[first] = Null
        /\ \A j \in 1..n : list[j] \in Elements
    <2>1. n \in Nat /\ k \in 1..n /\ n # 0 /\ list \in Seq(Elements)
      BY DEF ListIInv, Linked
    <2>2. \A j \in 1..n : list[j] \in Elements
      BY <2>1
    <2>3. QED
      BY <2>1, <2>2 DEF ListIInv, Linked
  <1>2. /\ r \in Seq(Elements) /\ Len(r) = n - 1
        /\ \A j \in 1..(k - 1) : r[j] = list[j]
        /\ \A j \in k..(n - 1) : r[j] = list[j + 1]
    BY <1>1, RemoveAtIs
  <1>3. list' = r
    BY <1>a
  <1> HIDE DEF r, n
  <1>4. 1 \in 1..n /\ n \in 1..n /\ (el = first <=> k = 1) /\ (el = last <=> k = n)
    <2>1. 1 \in 1..n /\ n \in 1..n
      BY <1>1
    <2>2. QED
      BY <1>a, <1>1, <2>1
  <1>5. \A j \in 1..(n - 1) : IF j < k THEN j \in 1..n /\ r[j] = list[j] ELSE j + 1 \in 1..n /\ r[j] = list[j + 1]
    <2> TAKE j \in 1..(n - 1)
    <2>1. CASE j < k
      <3>1. j \in 1..(k - 1) /\ j \in 1..n
        BY <1>1, <2>1
      <3>2. QED
        BY <1>2, <2>1, <3>1
    <2>2. CASE ~(j < k)
      <3>1. j \in k..(n - 1) /\ j + 1 \in 1..n
        BY <1>1, <2>2
      <3>2. QED
        BY <1>2, <2>2, <3>1
    <2>3. QED
      BY <2>1, <2>2
  <1>6. \A j, m \in 1..(n - 1) : r[j] = r[m] => j = m
    <2> TAKE j, m \in 1..(n - 1)
    <2>1. CASE j < k /\ m < k
      BY <1>1, <1>5, <2>1
    <2>2. CASE ~(j < k) /\ ~(m < k)
      <3>1. j + 1 \in 1..n /\ m + 1 \in 1..n /\ r[j] = list[j + 1] /\ r[m] = list[m + 1]
        BY <1>5, <2>2
      <3>2. list[j + 1] = list[m + 1] => j + 1 = m + 1
        BY <1>1, <3>1
      <3>3. QED
        BY <3>1, <3>2
    <2>3. CASE j < k /\ ~(m < k)
      <3>1. j \in 1..n /\ m + 1 \in 1..n /\ r[j] = list[j] /\ r[m] = list[m + 1] /\ j # m + 1
        <4>1. j # m + 1
          BY <1>1, <2>3
        <4>2. QED
          BY <1>5, <2>3, <4>1
      <3>2. list[j] # list[m + 1]
        BY <1>1, <3>1
      <3>3. QED
        BY <3>1, <3>2
    <2>4. CASE ~(j < k) /\ m < k
      <3>1. j + 1 \in 1..n /\ m \in 1..n /\ r[j] = list[j + 1] /\ r[m] = list[m] /\ m # j + 1
        <4>1. m # j + 1
          BY <1>1, <2>4
        <4>2. QED
          BY <1>5, <2>4, <4>1
      <3>2. list[j + 1] # list[m]
        BY <1>1, <3>1
      <3>3. QED
        BY <3>1, <3>2
    <2>5. QED
      BY <2>1, <2>2, <2>3, <2>4
  <1>7. Null \notin Elements
    BY ListAssumption
  <1>8. CASE n = 1
    <2>1. k = 1 /\ k = n
      BY <1>1, <1>8
    <2>2. el = first /\ el = last
      BY <1>4, <2>1
    <2>3. first' = Null /\ last' = Null /\ next' = next /\ prev' = prev
      BY <1>a, <2>2 DEF Unlink
    <2>4. Linked(r, Null, Null, next, prev)
      BY <1>1, <1>2, <1>8 DEF Linked
    <2>5. QED
      BY <1>3, <2>3, <2>4 DEF ListIInv
  <1>9. CASE n # 1 /\ k = 1
    <2>1. k # n /\ 1 \in 1..(n - 1) /\ 2 \in 1..n /\ 1 + 1 = 2
      BY <1>1, <1>9
    <2>2. el = first /\ el # last
      BY <1>4, <1>9, <2>1
    <2> DEFINE second == list[2]
    <2>3. next[el] = second /\ second \in Elements /\ second # el
      <3>1. next[list[1]] = list[1 + 1]
        BY <1>1, <2>1
      <3>2. second # el
        BY <1>a, <1>1, <1>4, <1>9, <2>1
      <3>3. QED
        BY <1>a, <1>1, <1>9, <2>1, <3>1, <3>2
    <2>4. /\ first' = second /\ prev' = [prev EXCEPT ![second] = Null]
          /\ next' = [next EXCEPT ![el] = Null] /\ last' = last
      BY <1>a, <2>2, <2>3 DEF Unlink
    <2>5. /\ next' \in Links /\ prev' \in Links /\ prev'[second] = Null
          /\ \A x \in Elements \ {second} : prev'[x] = prev[x]
          /\ \A x \in Elements \ {el} : next'[x] = next[x]
      BY <1>1, <2>3, <2>4 DEF Links
    <2> HIDE DEF second
    <2>6. ASSUME NEW j \in 1..(n - 2)
          PROVE  next'[r[j]] = r[j + 1] /\ prev'[r[j + 1]] = r[j]
      <3> DEFINE x == j + 1
                 y == x + 1
      <3>1. j \in 1..(n - 1) /\ x \in 1..(n - 1) /\ ~(j < k) /\ ~(x < k) /\ x \in 1..n /\ y \in 1..n /\ x # 1 /\ y # 2
        BY <1>1, <1>9
      <3>2. r[j] = list[x] /\ r[x] = list[y]
        BY <1>5, <3>1
      <3>3. next[list[x]] = list[y] /\ prev[list[y]] = list[x]
        BY <1>1, <3>1
      <3> HIDE DEF x, y
      <3>4. list[x] \in Elements \ {el} /\ list[y] \in Elements \ {second}
        BY <1>a, <1>1, <1>4, <1>9, <2>1, <3>1 DEF second
      <3>5. QED
        BY <2>5, <3>2, <3>3, <3>4 DEF x
    <2>7. r[1] = second /\ r[n - 1] = last /\ last \in Elements \ {el} /\ next'[last] = Null
      <3>1. 1 \in 1..(n - 1) /\ n - 1 \in 1..(n - 1) /\ ~(1 < k) /\ ~(n - 1 < k) /\ (n - 1) + 1 = n
        BY <1>1, <1>9
      <3>2. r[1] = list[1 + 1] /\ r[n - 1] = list[(n - 1) + 1]
        BY <1>5, <3>1
      <3>3. last \in Elements \ {el}
        BY <1>1, <1>4, <2>2
      <3>4. QED
        BY <1>1, <2>1, <2>5, <3>1, <3>2, <3>3 DEF second
    <2>8. Linked(r, second, last, next', prev')
      <3>1. Len(r) - 1 = n - 2 /\ Len(r) # 0 /\ Len(r) = n - 1
        BY <1>1, <1>2, <1>9
      <3>2. \A j \in 1..(Len(r) - 1) : next'[r[j]] = r[j + 1] /\ prev'[r[j + 1]] = r[j]
        BY <2>6, <3>1
      <3>3. \A j, m \in 1..Len(r) : r[j] = r[m] => j = m
        BY <1>6, <3>1
      <3>4. second = r[1] /\ last = r[Len(r)] /\ next'[last] = Null /\ prev'[second] = Null
        BY <2>5, <2>7, <3>1
      <3>5. QED
        BY <1>2, <2>5, <3>1, <3>2, <3>3, <3>4 DEF Linked
    <2>9. QED
      BY <1>3, <2>4, <2>8 DEF ListIInv
  <1>10. CASE n # 1 /\ k = n
    <2>1. k # 1 /\ n - 1 \in 1..(n - 1) /\ n - 1 \in 1..n /\ (n - 1) + 1 = n
      BY <1>1, <1>10
    <2>2. el # first /\ el = last
      BY <1>4, <1>10, <2>1
    <2> DEFINE second == list[n - 1]
    <2>3. prev[el] = second /\ second \in Elements /\ second # el
      <3>1. prev[list[(n - 1) + 1]] = list[n - 1]
        BY <1>1, <2>1
      <3>2. second # el
        BY <1>a, <1>1, <1>4, <1>10, <2>1
      <3>3. QED
        BY <1>a, <1>1, <1>10, <2>1, <3>1, <3>2
    <2>4. /\ last' = second /\ next' = [next EXCEPT ![second] = Null]
          /\ prev' = [prev EXCEPT ![el] = Null] /\ first' = first
      BY <1>a, <2>2, <2>3 DEF Unlink
    <2>5. /\ next' \in Links /\ prev' \in Links /\ next'[second] = Null
          /\ \A x \in Elements \ {second} : next'[x] = next[x]
          /\ \A x \in Elements \ {el} : prev'[x] = prev[x]
      BY <1>1, <2>3, <2>4 DEF Links
    <2> HIDE DEF second
    <2>6. ASSUME NEW j \in 1..(n - 2)
          PROVE  next'[r[j]] = r[j + 1] /\ prev'[r[j + 1]] = r[j]
      <3> DEFINE x == j + 1
      <3>1. j \in 1..(n - 1) /\ x \in 1..(n - 1) /\ j < k /\ x < k /\ j \in 1..n /\ x \in 1..n /\ x # n /\ j # n - 1
        BY <1>1, <1>10
      <3>2. r[j] = list[j] /\ r[x] = list[x]
        BY <1>5, <3>1
      <3>3. next[list[j]] = list[x] /\ prev[list[x]] = list[j]
        BY <1>1, <3>1
      <3> HIDE DEF x
      <3>4. list[x] \in Elements \ {el} /\ list[j] \in Elements \ {second}
        BY <1>a, <1>1, <1>4, <1>10, <2>1, <3>1 DEF second
      <3>5. QED
        BY <2>5, <3>2, <3>3, <3>4 DEF x
    <2>7. r[1] = first /\ r[n - 1] = second /\ first \in Elements \ {el} /\ prev'[first] = Null
      <3>1. 1 \in 1..(n - 1) /\ n - 1 \in 1..(n - 1) /\ 1 < k /\ n - 1 < k
        BY <1>1, <1>10
      <3>2. r[1] = list[1] /\ r[n - 1] = list[n - 1]
        BY <1>5, <3>1
      <3>3. first \in Elements \ {el}
        BY <1>1, <1>4, <2>2
      <3>4. QED
        BY <1>1, <2>5, <3>2, <3>3 DEF second
    <2>8. Linked(r, first, second, next', prev')
      <3>1. Len(r) - 1 = n - 2 /\ Len(r) # 0 /\ Len(r) = n - 1
        BY <1>1, <1>2, <1>10
      <3>2. \A j \in 1..(Len(r) - 1) : next'[r[j]] = r[j + 1] /\ prev'[r[j + 1]] = r[j]
        BY <2>6, <3>1
      <3>3. \A j, m \in 1..Len(r) : r[j] = r[m] => j = m
        BY <1>6, <3>1
      <3>4. first = r[1] /\ second = r[Len(r)] /\ next'[second] = Null /\ prev'[first] = Null
        BY <2>5, <2>7, <3>1
      <3>5. QED
        BY <1>2, <2>5, <3>1, <3>2, <3>3, <3>4 DEF Linked
    <2>9. QED
      BY <1>3, <2>4, <2>8 DEF ListIInv
  <1>11. CASE k # 1 /\ k # n
    <2>1. /\ n - 1 \in 1..(n - 1) /\ k - 1 \in 1..(n - 1) /\ k \in 1..(n - 1) /\ k - 1 \in 1..n /\ k + 1 \in 1..n
          /\ (k - 1) + 1 = k /\ k - 1 # k /\ k + 1 # k /\ k - 1 # k + 1 /\ k - 1 # n /\ k + 1 # 1
      <3>1. n \in Nat /\ k \in Nat /\ 1 < k /\ k < n
        BY <1>1, <1>11
      <3>2. QED
        BY ONLY <3>1
    <2>2. el # first /\ el # last
      BY <1>4, <1>11
    <2> DEFINE a == list[k - 1]
               b == list[k + 1]
    <2>3. /\ prev[el] = a /\ next[el] = b /\ a \in Elements /\ b \in Elements /\ a # el /\ b # el /\ a # b
          /\ a # last /\ b # first
      <3>1. prev[list[(k - 1) + 1]] = list[k - 1] /\ next[list[k]] = list[k + 1]
        BY <1>1, <2>1
      <3>2. a # el /\ b # el /\ a # b /\ a # last /\ b # first
        BY <1>a, <1>1, <1>4, <2>1
      <3>3. QED
        BY <1>a, <1>1, <2>1, <3>1, <3>2
    <2> HIDE DEF a, b
    <2>4. /\ last' = last /\ first' = first
          /\ next' = [next EXCEPT ![a] = b, ![el] = Null]
          /\ prev' = [prev EXCEPT ![b] = a, ![el] = Null]
      BY <1>a, <2>2, <2>3 DEF Unlink
    <2>5. /\ next' \in Links /\ prev' \in Links /\ next'[a] = b /\ prev'[b] = a
          /\ \A x \in Elements \ {a, el} : next'[x] = next[x]
          /\ \A x \in Elements \ {b, el} : prev'[x] = prev[x]
      BY <1>1, <2>3, <2>4 DEF Links
    <2>6. ASSUME NEW j \in 1..(n - 2)
          PROVE  next'[r[j]] = r[j + 1] /\ prev'[r[j + 1]] = r[j]
      <3> DEFINE x == j + 1
                 y == x + 1
      <3>1. j \in 1..(n - 1) /\ x \in 1..(n - 1) /\ j \in 1..n /\ x \in 1..n /\ y \in 1..n
        BY <1>1
      <3>2. CASE x < k
        <4>1. j < k /\ j # k - 1 /\ j # k /\ x # k /\ x # k + 1
          BY <1>1, <3>2
        <4>2. r[j] = list[j] /\ r[x] = list[x]
          BY <1>5, <3>1, <3>2, <4>1
        <4>3. next[list[j]] = list[x] /\ prev[list[x]] = list[j]
          BY <1>1, <3>1
        <4> HIDE DEF x
        <4>4. list[j] \in Elements \ {a, el} /\ list[x] \in Elements \ {b, el}
          BY <1>a, <1>1, <2>1, <3>1, <4>1 DEF a, b
        <4>5. QED
          BY <2>5, <4>2, <4>3, <4>4 DEF x
      <3>3. CASE x = k
        <4>1. j < k /\ ~(x < k) /\ j = k - 1
          BY <1>1, <3>3
        <4>2. r[j] = list[j] /\ r[x] = list[x + 1]
          BY <1>5, <3>1, <4>1
        <4>3. r[j] = a /\ r[x] = b
          BY <3>3, <4>1, <4>2 DEF a, b
        <4>4. QED
          BY <2>5, <4>3
      <3>4. CASE x > k
        <4>1. ~(j < k) /\ ~(x < k) /\ x # k - 1 /\ x # k /\ y # k /\ y # k + 1
          BY <1>1, <3>4
        <4>2. r[j] = list[x] /\ r[x] = list[y]
          BY <1>5, <3>1, <4>1
        <4>3. next[list[x]] = list[y] /\ prev[list[y]] = list[x]
          BY <1>1, <3>1
        <4> HIDE DEF x, y
        <4>4. list[x] \in Elements \ {a, el} /\ list[y] \in Elements \ {b, el}
          BY <1>a, <1>1, <2>1, <3>1, <4>1 DEF a, b
        <4>5. QED
          BY <2>5, <4>2, <4>3, <4>4 DEF x
      <3>5. QED
        BY <1>1, <3>2, <3>3, <3>4
    <2>7. r[1] = first /\ r[n - 1] = last /\ prev'[first] = Null /\ next'[last] = Null
      <3>1. 1 \in 1..(n - 1) /\ n - 1 \in 1..(n - 1) /\ 1 < k /\ ~(n - 1 < k) /\ (n - 1) + 1 = n
        BY <1>1, <1>11
      <3>2. r[1] = list[1] /\ r[n - 1] = list[(n - 1) + 1]
        BY <1>5, <3>1
      <3>3. first \in Elements \ {b, el} /\ last \in Elements \ {a, el}
        BY <1>1, <1>4, <2>2, <2>3
      <3>4. QED
        BY <1>1, <2>5, <3>1, <3>2, <3>3
    <2>8. Linked(r, first, last, next', prev')
      <3>1. Len(r) - 1 = n - 2 /\ Len(r) # 0 /\ Len(r) = n - 1
        BY <1>1, <1>2, <1>11
      <3>2. \A j \in 1..(Len(r) - 1) : next'[r[j]] = r[j + 1] /\ prev'[r[j + 1]] = r[j]
        BY <2>6, <3>1
      <3>3. \A j, m \in 1..Len(r) : r[j] = r[m] => j = m
        BY <1>6, <3>1
      <3>4. first = r[1] /\ last = r[Len(r)] /\ next'[last] = Null /\ prev'[first] = Null
        BY <2>7, <3>1
      <3>5. QED
        BY <1>2, <2>5, <3>1, <3>2, <3>3, <3>4 DEF Linked
    <2>9. QED
      BY <1>3, <2>4, <2>8 DEF ListIInv
  <1>12. QED
    BY <1>8, <1>9, <1>10, <1>11

(* A list that is linked can be walked both ways.                          *)
LEMMA ListWalks == ListIInv => ListCorrect
PROOF
  <1> SUFFICES ASSUME ListIInv PROVE ListCorrect
    OBVIOUS
  <1> DEFINE n == Len(list)
  <1>1. /\ list \in Seq(Elements) /\ n \in Nat
        /\ \A k \in 1..(n - 1) : next[list[k]] = list[k + 1] /\ prev[list[k + 1]] = list[k]
        /\ n = 0 => first = Null /\ last = Null
        /\ n # 0 => first = list[1] /\ last = list[n] /\ next[last] = Null /\ prev[first] = Null
    BY DEF ListIInv, Linked
  <1>2. n = 0 <=> list = <<>>
    BY <1>1
  <1>3. EndsProperly
    BY <1>1, <1>2 DEF EndsProperly
  <1>4. ASSUME NEW k \in 1..n
        PROVE  /\ list[k] = IF k = 1 THEN first ELSE next[list[k - 1]]
               /\ list[n + 1 - k] = IF k = 1 THEN last ELSE prev[list[n + 2 - k]]
    <2> HIDE DEF n
    <2>1. CASE k = 1
      <3>1. n # 0 /\ n + 1 - k = n
        BY <1>1, <2>1
      <3>2. QED
        BY <1>1, <2>1, <3>1
    <2>2. CASE k # 1
      <3> DEFINE x == k - 1
                 y == n + 1 - k
      <3>1. x \in 1..(n - 1) /\ y \in 1..(n - 1) /\ x + 1 = k /\ y + 1 = n + 2 - k
        <4>1. n \in Nat /\ k \in Nat /\ 1 < k /\ k <= n
          BY <1>1, <2>2
        <4>2. QED
          BY ONLY <4>1
      <3>2. next[list[x]] = list[x + 1] /\ prev[list[y + 1]] = list[y]
        BY <1>1, <3>1
      <3>3. QED
        BY <2>2, <3>1, <3>2
    <2>3. QED
      BY <2>1, <2>2
  <1>5. QED
    BY <1>3, <1>4 DEF ListCorrect, IsList

(* Every step of the list keeps it linked.                                 *)
LEMMA ListStepSound == ListIInv /\ [ListNext]_listVars => ListIInv'
PROOF
  <1> SUFFICES ASSUME ListIInv, [ListNext]_listVars PROVE ListIInv'
    OBVIOUS
  <1>1. CASE ListNext
    BY <1>1, ListAddSound, ListAddFrontSound, ListRemoveSound DEF ListNext
  <1>2. CASE UNCHANGED listVars
    BY <1>2 DEF listVars, ListIInv
  <1>3. QED
    BY <1>1, <1>2

(***************************************************************************)
(* Memory functions.  A forward copy is right when no byte of the source   *)
(* is written before it is read, which is what Backwards = FALSE says.     *)
(***************************************************************************)
LEMMA MemInitSound == MemInit => MemIInv
PROOF
  BY DEF MemInit, MemIInv, MovedSoFar, Idle

LEMMA CallSound == ASSUME MemIInv, NEW c \in Calls, Call(c) PROVE MemIInv'
PROOF
  <1>1. c.size \in Nat /\ c.dest \in Nat
    BY MemoryAssumption DEF Calls, Addresses
  <1>2. call' = c /\ i' = 0 /\ before' = memory /\ memory' = memory
    BY DEF Call
  <1>3. QED
    BY <1>1, <1>2 DEF MemIInv, MovedSoFar

LEMMA CopySound == ASSUME Backwards = FALSE, MemIInv, RtCopyMemory PROVE MemIInv'
PROOF
  <1> DEFINE d == call.dest
             s == call.source
             n == call.size
  <1>1. call.name = "memmove" /\ i < n /\ memory' = [memory EXCEPT ![d + i] = memory[s + i]] /\ i' = i + 1
        /\ before' = before /\ call' = call
    BY DEF RtCopyMemory
  <1>2. call # Idle
    BY <1>1 DEF Idle
  <1>3. call \in Calls
    BY <1>2 DEF MemIInv
  <1>4. /\ d \in 0..(Size - 1) /\ s \in 0..(Size - 1) /\ n \in 0..Size /\ Size \in Nat /\ i \in 0..n
        /\ d + n <= Size /\ s + n <= Size /\ (d <= s \/ d >= s + n)
    BY <1>1, <1>3, MemoryAssumption DEF Calls, Addresses, MemIInv
  <1>5. /\ memory \in [Addresses -> Values] /\ before \in [Addresses -> Values] /\ MovedSoFar
    BY DEF MemIInv
  <1> HIDE DEF d, s, n
  <1>6. d + i \in Addresses /\ s + i \in Addresses /\ s + i \notin d..(d + i - 1)
    BY <1>1, <1>4 DEF Addresses
  <1>7. memory[s + i] = before[s + i]
    BY <1>5, <1>6 DEF MovedSoFar, d
  <1>8. ASSUME NEW a \in Addresses
        PROVE  memory'[a] = IF a \notin d..(d + (i + 1) - 1) THEN before[a] ELSE before[s + a - d]
    <2>1. memory[a] = IF a \notin d..(d + i - 1) THEN before[a] ELSE before[s + a - d]
      BY <1>1, <1>5 DEF MovedSoFar, d, s
    <2>2. CASE a = d + i
      <3>1. a \in d..(d + (i + 1) - 1) /\ s + a - d = s + i
        BY <1>4, <2>2
      <3>2. memory'[a] = memory[s + i]
        BY <1>1, <1>5, <1>6, <2>2
      <3>3. QED
        BY <1>7, <3>1, <3>2
    <2>3. CASE a # d + i
      <3>1. a \in d..(d + (i + 1) - 1) <=> a \in d..(d + i - 1)
        BY <1>4, <2>3 DEF Addresses
      <3>2. memory'[a] = memory[a]
        BY <1>1, <1>5, <1>6, <2>3
      <3>3. QED
        BY <2>1, <3>1, <3>2
    <2>4. QED
      BY <2>2, <2>3
  <1>9. MovedSoFar'
    BY <1>1, <1>8 DEF MovedSoFar, d, s
  <1>10. memory' \in [Addresses -> Values] /\ i + 1 \in 0..n
    BY <1>1, <1>4, <1>5, <1>6
  <1>11. QED
    BY <1>1, <1>3, <1>5, <1>9, <1>10 DEF MemIInv, n

LEMMA FillSound == ASSUME MemIInv, RtFillMemory PROVE MemIInv'
PROOF
  <1> DEFINE d == call.dest
             v == call.value
             n == call.size
  <1>1. call.name = "memset" /\ i < n /\ memory' = [memory EXCEPT ![d + i] = v] /\ i' = i + 1
        /\ before' = before /\ call' = call
    BY DEF RtFillMemory
  <1>2. call # Idle
    BY <1>1 DEF Idle
  <1>3. call \in Calls
    BY <1>2 DEF MemIInv
  <1>4. /\ d \in 0..(Size - 1) /\ n \in 0..Size /\ Size \in Nat /\ i \in 0..n /\ d + n <= Size /\ v \in Values
    BY <1>1, <1>3, MemoryAssumption DEF Calls, Addresses, MemIInv
  <1>5. /\ memory \in [Addresses -> Values] /\ before \in [Addresses -> Values] /\ MovedSoFar
    BY DEF MemIInv
  <1> HIDE DEF d, v, n
  <1>6. d + i \in Addresses
    BY <1>1, <1>4 DEF Addresses
  <1>7. ASSUME NEW a \in Addresses
        PROVE  memory'[a] = IF a \notin d..(d + (i + 1) - 1) THEN before[a] ELSE v
    <2>1. memory[a] = IF a \notin d..(d + i - 1) THEN before[a] ELSE v
      BY <1>1, <1>5 DEF MovedSoFar, d, v
    <2>2. CASE a = d + i
      <3>1. a \in d..(d + (i + 1) - 1)
        BY <1>4, <2>2
      <3>2. memory'[a] = v
        BY <1>1, <1>5, <1>6, <2>2
      <3>3. QED
        BY <3>1, <3>2
    <2>3. CASE a # d + i
      <3>1. a \in d..(d + (i + 1) - 1) <=> a \in d..(d + i - 1)
        BY <1>4, <2>3 DEF Addresses
      <3>2. memory'[a] = memory[a]
        BY <1>1, <1>5, <1>6, <2>3
      <3>3. QED
        BY <2>1, <3>1, <3>2
    <2>4. QED
      BY <2>2, <2>3
  <1>8. MovedSoFar'
    BY <1>1, <1>7 DEF MovedSoFar, d, v
  <1>9. memory' \in [Addresses -> Values] /\ i + 1 \in 0..n
    BY <1>1, <1>4, <1>5, <1>6
  <1>10. QED
    BY <1>1, <1>3, <1>5, <1>8, <1>9 DEF MemIInv, n

LEMMA ReturnSound == ASSUME MemIInv, Return PROVE MemIInv'
PROOF
  BY DEF Return, MemIInv, MovedSoFar, Idle

LEMMA MemStepSound == ASSUME Backwards = FALSE PROVE MemIInv /\ [MemNext]_memVars => MemIInv'
PROOF
  <1> SUFFICES ASSUME MemIInv, [MemNext]_memVars PROVE MemIInv'
    OBVIOUS
  <1>1. CASE MemNext
    BY <1>1, CallSound, CopySound, FillSound, ReturnSound DEF MemNext
  <1>2. CASE UNCHANGED memVars
    BY <1>2 DEF memVars, MemIInv, MovedSoFar
  <1>3. QED
    BY <1>1, <1>2

LEMMA MemMoves == MemIInv => Moved
PROOF
  BY DEF MemIInv, Moved, MovedSoFar

(***************************************************************************)
(* The scheduler.                                                          *)
(***************************************************************************)
LEMMA SchedInitSound == SchedInit => SchedIInv
PROOF
  BY FS_EmptySet DEF SchedInit, SchedIInv, ListInPidOrder

LEMMA CreateSound == ASSUME SchedIInv, NEW task \in Tasks, TskCreateKernelTask(task) PROVE SchedIInv'
PROOF
  <1>1. /\ created \subseteq Tasks /\ IsFiniteSet(created) /\ kNextPid \in Nat
        /\ taskNext \in [Tasks -> Tasks \cup {NoTask}] /\ pid \in [Tasks -> Nat]
        /\ kNextPid = Cardinality(created) /\ NoTask \notin Tasks
    BY SchedAssumption DEF SchedIInv, ListInPidOrder
  <1>2. /\ task \notin created /\ created' = created \cup {task} /\ kNextPid' = kNextPid + 1
        /\ pid' = [pid EXCEPT ![task] = kNextPid]
    BY DEF TskCreateKernelTask
  <1>3. IsFiniteSet(created') /\ Cardinality(created') = kNextPid + 1 /\ created' \subseteq Tasks
    BY <1>1, <1>2, FS_AddElement
  <1>4. pid' \in [Tasks -> Nat] /\ pid'[task] = kNextPid /\ \A t \in created : pid'[t] = pid[t]
    BY <1>1, <1>2
  <1>5. kLastTask' = task
    BY DEF TskCreateKernelTask, AppendTask
  <1>6. CASE created = {}
    <2>1. kNextPid = 0
      BY <1>1, <1>6, FS_EmptySet
    <2>2. kTasks' = task /\ taskNext' = [taskNext EXCEPT ![task] = NoTask]
      BY <1>6 DEF TskCreateKernelTask, AppendTask, SchedIInv
    <2>3. taskNext' \in [Tasks -> Tasks \cup {NoTask}] /\ taskNext'[task] = NoTask
      BY <1>1, <2>2
    <2>4. created' = {task}
      BY <1>2, <1>6
    <2>5. ListInPidOrder'
      BY <1>2, <1>3, <1>4, <1>5, <2>1, <2>2, <2>3, <2>4 DEF ListInPidOrder
    <2>6. QED
      BY <1>1, <1>2, <1>3, <1>4, <1>5, <2>2, <2>3, <2>4, <2>5 DEF SchedIInv
  <1>7. CASE created # {}
    <2>1. kTasks \in created /\ kLastTask \in created /\ kTasks # NoTask
      BY <1>1, <1>7 DEF SchedIInv
    <2>2. kTasks' = kTasks /\ taskNext' = [taskNext EXCEPT ![kLastTask] = task, ![task] = NoTask]
      BY <2>1 DEF TskCreateKernelTask, AppendTask
    <2>3. /\ taskNext' \in [Tasks -> Tasks \cup {NoTask}] /\ taskNext'[task] = NoTask /\ taskNext'[kLastTask] = task
          /\ \A t \in created \ {kLastTask} : taskNext'[t] = taskNext[t]
      BY <1>1, <1>2, <2>1, <2>2
    <2>4. ASSUME NEW t \in created'
          PROVE  IF t = task THEN taskNext'[t] = NoTask /\ pid'[t] = (kNextPid + 1) - 1
                 ELSE taskNext'[t] \in created' /\ pid'[taskNext'[t]] = pid'[t] + 1
      <3>1. CASE t = task
        BY <1>1, <1>4, <2>3, <3>1
      <3>2. CASE t = kLastTask
        <4>1. pid[t] = kNextPid - 1 /\ t \in created
          BY <2>1, <3>2 DEF SchedIInv, ListInPidOrder
        <4>2. pid'[t] + 1 = kNextPid
          BY <1>1, <1>4, <4>1
        <4>3. QED
          BY <1>2, <1>4, <2>3, <3>2, <4>1, <4>2
      <3>3. CASE t # task /\ t # kLastTask
        <4>1. t \in created
          BY <1>2, <3>3
        <4>2. taskNext[t] \in created /\ pid[taskNext[t]] = pid[t] + 1
          BY <3>3, <4>1 DEF SchedIInv, ListInPidOrder
        <4>3. QED
          BY <1>2, <1>4, <2>3, <3>3, <4>1, <4>2
      <3>4. QED
        BY <3>1, <3>2, <3>3
    <2>5. pid'[kTasks] = 0
      BY <1>4, <1>7, <2>1 DEF SchedIInv, ListInPidOrder
    <2>6. ListInPidOrder'
      BY <1>2, <1>3, <1>5, <2>2, <2>4, <2>5 DEF ListInPidOrder
    <2>7. QED
      BY <1>1, <1>2, <1>3, <1>4, <1>5, <2>1, <2>2, <2>3, <2>6 DEF SchedIInv
  <1>8. QED
    BY <1>6, <1>7

LEMMA SchedStepSound == SchedIInv /\ [SchedNext]_schedVars => SchedIInv'
PROOF
  <1> SUFFICES ASSUME SchedIInv, [SchedNext]_schedVars PROVE SchedIInv'
    OBVIOUS
  <1>1. ASSUME NEW task \in Tasks, TskCreateKernelTask(task) PROVE SchedIInv'
    BY <1>1, CreateSound
  <1>2. CASE TskSchedule
    BY <1>2 DEF TskSchedule, FirstSchedule, ScheduleNext, SchedIInv, ListInPidOrder
  <1>3. CASE UNCHANGED schedVars
    BY <1>3 DEF schedVars, SchedIInv, ListInPidOrder
  <1>4. QED
    BY <1>1, <1>2, <1>3 DEF SchedNext

(***************************************************************************)
(* The system of MCDrivers: a step is a step of one part and leaves the    *)
(* variables of the others alone.                                          *)
(***************************************************************************)
LEMMA PartSteps ==
  [Next]_vars => [ListNext]_listVars /\ [MemNext]_memVars /\ [SchedNext]_schedVars
PROOF
  BY DEF Next, vars

(***************************************************************************)
(* After any sequence of LIST_ADD, LIST_ADD_FRONT and LIST_REMOVE a walk   *)
(* of the list in either direction visits its elements in order and stops, *)
(* and memmove (called with a destination that does not overlap its source *)
(* from above, which the forward copy of RtCopyMemory cannot do) and       *)
(* memset change what they are asked to change and nothing else: for every *)
(* set of elements, every size of the memory and every value of its bytes. *)
(***************************************************************************)
THEOREM LibraryIsCorrect == ASSUME Backwards = FALSE PROVE Spec => []LibraryCorrect
PROOF
  <1>1. Init => ListIInv /\ MemIInv
    BY ListInitSound, MemInitSound DEF Init
  <1>2. (ListIInv /\ MemIInv) /\ [Next]_vars => (ListIInv /\ MemIInv)'
    BY PartSteps, ListStepSound, MemStepSound
  <1>3. ListIInv /\ MemIInv => LibraryCorrect
    BY ListWalks, MemMoves DEF LibraryCorrect
  <1>4. QED
    BY <1>1, <1>2, <1>3, PTL DEF Spec

(***************************************************************************)
(* The tasks that TskCreateKernelTask made are on the scheduler's list     *)
(* once each, in the order of their numbers, and the list ends: the safety *)
(* half of RoundRobin, for every set of tasks.                             *)
(***************************************************************************)
THEOREM TasksInPidOrder == Spec => []ListInPidOrder
PROOF
  <1>1. Init => SchedIInv
    BY SchedInitSound DEF Init
  <1>2. SchedIInv /\ [Next]_vars => SchedIInv'
    BY PartSteps, SchedStepSound
  <1>3. SchedIInv => ListInPidOrder
    BY DEF SchedIInv
  <1>4. QED
    BY <1>1, <1>2, <1>3, PTL DEF Spec

-----------------------------------------------------------------------------
(***************************************************************************)
(* The command ring.                                                       *)
(*                                                                         *)
(* Its theorems need memory without cycle bits: StaleCycles \subseteq {0}. *)
(* XhciRingCreate does not clear what it gets from kmalloc.                *)
(***************************************************************************)
(* The ring has at least the slots that were asked for, the last of which  *)
(* is the link.                                                            *)
LEMMA RingSize ==
  /\ LinkSlot \in Nat /\ LinkSlot >= 2 /\ max_index = LinkSlot + 1 /\ Slots = 0..LinkSlot
  /\ MaxOutstanding \in Nat /\ MaxOutstanding < LinkSlot
PROOF
  <1>1. /\ PAGE_TRBS \in Nat \ {0} /\ SIZE \in Nat /\ SIZE >= 3
        /\ MaxOutstanding \in 1..(SIZE - 2)
    BY RingAssumption
  <1> DEFINE n == SIZE + PAGE_TRBS - 1
  <1>2. n \in Nat
    BY <1>1
  <1>3. n \div PAGE_TRBS \in Nat /\ n % PAGE_TRBS \in 0..(PAGE_TRBS - 1)
        /\ n = PAGE_TRBS * (n \div PAGE_TRBS) + (n % PAGE_TRBS)
    <2> HIDE DEF n
    <2>1. QED
      BY <1>1, <1>2, DivMod
  <1>4. num_pages = n \div PAGE_TRBS
    BY DEF num_pages
  <1>5. num_pages * PAGE_TRBS = PAGE_TRBS * num_pages /\ num_pages * PAGE_TRBS \in Nat
    <2>1. num_pages \in Nat
      BY <1>3, <1>4
    <2>2. QED
      BY <1>1, <2>1
  <1>6. num_pages * PAGE_TRBS = n - (n % PAGE_TRBS)
    <2> DEFINE p == PAGE_TRBS * num_pages
    <2>1. n = p + (n % PAGE_TRBS) /\ p \in Nat /\ n % PAGE_TRBS \in Nat
      BY <1>1, <1>3, <1>4, <1>5
    <2> HIDE DEF p, n
    <2>2. p = n - (n % PAGE_TRBS)
      BY <1>2, <2>1
    <2>3. QED
      BY <1>5, <2>2 DEF p
  <1>7. max_index \in Nat /\ max_index >= SIZE
    BY <1>1, <1>3, <1>5, <1>6 DEF max_index
  <1>8. QED
    BY <1>1, <1>7 DEF LinkSlot, Slots

(* The slots of the next lap.                                              *)
LEMMA Wrapped ==
  /\ \A x \in 0..(LinkSlot - 1) : x % LinkSlot = x
  /\ \A x \in LinkSlot..(2 * LinkSlot - 1) : x % LinkSlot = x - LinkSlot
PROOF
  <1>1. LinkSlot \in Nat \ {0}
    BY RingSize
  <1>2. \A x \in 0..(LinkSlot - 1) : x % LinkSlot = x
    BY <1>1, DivSmall
  <1>3. ASSUME NEW x \in LinkSlot..(2 * LinkSlot - 1)
        PROVE  x % LinkSlot = x - LinkSlot
    <2>1. x \in Nat /\ x - LinkSlot \in 0..(LinkSlot - 1) /\ x = LinkSlot * 1 + (x - LinkSlot)
      BY <1>1
    <2>2. QED
      BY <1>1, <2>1, DivUnique
  <1>4. QED
    BY <1>2, <1>3

LEMMA RingInitSound ==
  ASSUME RingInit, StaleCycles \subseteq {0}
  PROVE  RingIInv
PROOF
  <1> USE DEF RingInit
  <1>1. slots \in [Slots -> [param : {NoCommand}, type : {"none"}, cycle : {0}]]
    OBVIOUS
  <1>2. RingTypeOK
    BY <1>1, RingSize DEF RingTypeOK
  <1>3. \A sl \in Slots : slots[sl].cycle = 0 /\ slots[sl].type = "none"
    BY <1>1
  <1>4. CyclesSound
    BY <1>3, RingSize DEF CyclesSound
  <1>5. LinkSound /\ PositionsSound
    BY <1>3, RingSize DEF LinkSound, PositionsSound, Distance
  <1>6. QED
    BY <1>2, <1>4, <1>5 DEF RingIInv

(***************************************************************************)
(* Outstanding counts the slots between the controller and the driver.     *)
(***************************************************************************)
LEMMA CountedRight ==
  ASSUME RingIInv
  PROVE  /\ Distance \in 0..MaxOutstanding
         /\ \A k \in 0..(Distance - 1) :
              /\ Owned(k)
              /\ (deq + k) % LinkSlot \in 0..(LinkSlot - 1) /\ (deq + k) % LinkSlot # index
         /\ ~Owned(Distance)
         /\ index < LinkSlot => (deq + Distance) % LinkSlot = index
PROOF
  <1> DEFINE d == Distance
  <1>1. /\ LinkSlot \in Nat /\ LinkSlot >= 2 /\ Slots = 0..LinkSlot
        /\ MaxOutstanding \in Nat /\ MaxOutstanding < LinkSlot
    BY RingSize
  <1>2. /\ index \in 0..LinkSlot /\ deq \in 0..LinkSlot /\ cycle \in {0, 1} /\ ccs \in {0, 1}
        /\ d \in 0..MaxOutstanding
        /\ index = LinkSlot => cycle = ccs
        /\ \A sl \in 0..LinkSlot : slots[sl].cycle = IF sl < index THEN cycle ELSE 1 - cycle
    BY <1>1 DEF RingIInv, RingTypeOK, PositionsSound, CyclesSound
  <1>3. d = (IF cycle = ccs THEN index ELSE index + LinkSlot) - deq
    BY DEF Distance
  <1>4. \A k \in Nat : Owned(k) <=>
          slots[(deq + k) % LinkSlot].cycle = (IF deq + k >= LinkSlot THEN 1 - ccs ELSE ccs)
    BY DEF Owned, Ahead
  <1> HIDE DEF d
  <1>5. ASSUME NEW k \in 0..(d - 1)
        PROVE  /\ Owned(k)
               /\ (deq + k) % LinkSlot \in 0..(LinkSlot - 1) /\ (deq + k) % LinkSlot # index
    <2> DEFINE ahead == deq + k
               slot == ahead % LinkSlot
    <2>a. ahead \in Nat /\ ahead = deq + k /\ (Owned(k) <=> slots[slot].cycle = (IF ahead >= LinkSlot THEN 1 - ccs ELSE ccs))
      BY <1>2, <1>4
    <2>b. /\ ahead \in 0..(LinkSlot - 1) => slot = ahead
          /\ ahead \in LinkSlot..(2 * LinkSlot - 1) => slot = ahead - LinkSlot
      BY Wrapped
    <2>c. (deq + k) % LinkSlot = slot
      OBVIOUS
    <2> HIDE DEF ahead, slot
    <2>1. CASE cycle = ccs
      <3>1. ahead \in 0..(LinkSlot - 1) /\ ahead < index
        BY <1>1, <1>2, <1>3, <2>1, <2>a
      <3>2. slot = ahead /\ ~(ahead >= LinkSlot) /\ slots[slot].cycle = ccs
        BY <1>1, <1>2, <2>1, <2>b, <3>1
      <3>3. QED
        BY <1>2, <2>a, <2>c, <3>1, <3>2
    <2>2. CASE cycle # ccs /\ ahead < LinkSlot
      <3>1. ahead \in 0..(LinkSlot - 1) /\ ahead > index
        BY <1>1, <1>2, <1>3, <2>2, <2>a
      <3>2. slot = ahead /\ ~(ahead >= LinkSlot) /\ slots[slot].cycle = 1 - cycle
        BY <1>1, <1>2, <2>b, <3>1
      <3>3. 1 - cycle = ccs
        BY <1>2, <2>2
      <3>4. QED
        BY <1>2, <2>a, <2>c, <3>1, <3>2, <3>3
    <2>3. CASE cycle # ccs /\ ahead >= LinkSlot
      <3>1. ahead \in LinkSlot..(2 * LinkSlot - 1) /\ ahead - LinkSlot < index
        <4>1. d = index + LinkSlot - deq /\ index < LinkSlot /\ k < d
          BY <1>1, <1>2, <1>3, <2>3
        <4>2. /\ ahead = deq + k /\ ahead >= LinkSlot /\ ahead \in Nat
              /\ index \in Nat /\ deq \in Nat /\ k \in Nat /\ LinkSlot \in Nat
          BY <1>1, <1>2, <2>3, <2>a
        <4>3. QED
          BY ONLY <4>1, <4>2
      <3>2. slot = ahead - LinkSlot /\ slot \in 0..(LinkSlot - 1) /\ slot < index
        BY <1>1, <1>2, <2>b, <3>1
      <3>3. slots[slot].cycle = cycle /\ cycle = 1 - ccs
        BY <1>1, <1>2, <2>3, <3>2
      <3>4. QED
        BY <1>1, <1>2, <2>3, <2>a, <2>c, <3>2, <3>3
    <2>4. QED
      BY <1>1, <2>1, <2>2, <2>3, <2>a
  <1>6. ~Owned(d)
    <2> DEFINE ahead == deq + d
               slot == ahead % LinkSlot
    <2>a. ahead \in Nat /\ ahead = deq + d /\ (Owned(d) <=> slots[slot].cycle = (IF ahead >= LinkSlot THEN 1 - ccs ELSE ccs))
      BY <1>1, <1>2, <1>4
    <2>b. /\ ahead \in 0..(LinkSlot - 1) => slot = ahead
          /\ ahead \in LinkSlot..(2 * LinkSlot - 1) => slot = ahead - LinkSlot
      BY Wrapped
    <2> HIDE DEF ahead, slot
    <2>1. CASE cycle = ccs /\ index < LinkSlot
      <3>1. ahead = index /\ ahead \in 0..(LinkSlot - 1)
        BY <1>1, <1>2, <1>3, <2>1, <2>a
      <3>2. slots[slot].cycle = 1 - ccs /\ ~(ahead >= LinkSlot)
        BY <1>1, <1>2, <2>1, <2>b, <3>1
      <3>3. QED
        BY <1>2, <2>a, <3>2
    <2>2. CASE cycle = ccs /\ index = LinkSlot
      <3>1. ahead = LinkSlot
        BY <1>1, <1>2, <1>3, <2>2, <2>a
      <3>2. slot = 0
        BY <1>1, <2>b, <3>1
      <3>3. slots[slot].cycle = ccs
        BY <1>1, <1>2, <2>2, <3>2
      <3>4. QED
        BY <1>1, <1>2, <2>a, <3>1, <3>3
    <2>3. CASE cycle # ccs
      <3>1. ahead = index + LinkSlot /\ index < LinkSlot
        BY <1>1, <1>2, <1>3, <2>3, <2>a
      <3>2. slot = index /\ ahead >= LinkSlot
        BY <1>1, <1>2, <2>b, <3>1
      <3>3. slots[slot].cycle = ccs
        BY <1>2, <2>3, <3>2
      <3>4. QED
        BY <1>2, <2>a, <3>2, <3>3
    <2>4. QED
      BY <1>1, <1>2, <2>1, <2>2, <2>3
  <1>7. ASSUME index < LinkSlot
        PROVE  (deq + d) % LinkSlot = index
    <2>1. CASE cycle = ccs
      <3>1. deq + d = index /\ index \in 0..(LinkSlot - 1)
        BY <1>1, <1>2, <1>3, <1>7, <2>1
      <3>2. QED
        BY <3>1, Wrapped
    <2>2. CASE cycle # ccs
      <3>1. deq + d = index + LinkSlot /\ index + LinkSlot \in LinkSlot..(2 * LinkSlot - 1)
        BY <1>1, <1>2, <1>3, <1>7, <2>2
      <3>2. (index + LinkSlot) % LinkSlot = (index + LinkSlot) - LinkSlot
        BY <3>1, Wrapped
      <3>3. QED
        BY <1>1, <1>2, <3>1, <3>2
    <2>3. QED
      BY <2>1, <2>2
  <1>8. QED
    BY <1>2, <1>5, <1>6, <1>7 DEF d

LEMMA OutstandingIs == RingIInv => Outstanding = Distance
PROOF
  <1> SUFFICES ASSUME RingIInv
               PROVE  Outstanding = Distance
    OBVIOUS
  <1> DEFINE d == Distance
             S == {n \in 0..LinkSlot : \A k \in 0..(n - 1) : Owned(k)}
  <1>1. LinkSlot \in Nat /\ MaxOutstanding \in Nat /\ MaxOutstanding < LinkSlot
    BY RingSize
  <1>2. d \in 0..MaxOutstanding /\ (\A k \in 0..(d - 1) : Owned(k)) /\ ~Owned(d)
    BY CountedRight
  <1> HIDE DEF d
  <1>3. d \in S
    BY <1>1, <1>2
  <1>4. \A n \in S : n \in Int /\ n <= d
    BY <1>1, <1>2
  <1>5. Outstanding = Max(S)
    BY DEF Outstanding
  <1> HIDE DEF S
  <1>6. \E x \in S : \A y \in S : x >= y
    BY <1>1, <1>2, <1>3, <1>4
  <1>7. Max(S) \in S /\ \A y \in S : Max(S) >= y
    BY <1>6 DEF Max
  <1>8. Max(S) \in Int /\ d \in Int /\ Max(S) <= d /\ Max(S) >= d
    BY <1>2, <1>3, <1>4, <1>7
  <1>9. QED
    BY <1>5, <1>8 DEF d

(***************************************************************************)
(* The steps keep the invariant.                                           *)
(***************************************************************************)
LEMMA StoreParamSound ==
  ASSUME RingIInv, NEW c \in Commands, StoreParam(c)
  PROVE  RingIInv'
PROOF
  <1>1. /\ LinkSlot \in Nat /\ LinkSlot >= 2 /\ Slots = 0..LinkSlot
        /\ MaxOutstanding \in Nat /\ MaxOutstanding < LinkSlot
    BY RingSize
  <1>2. /\ ringPc = "idle" /\ Distance < MaxOutstanding
        /\ slots' = [slots EXCEPT ![index].param = c]
        /\ ringPc' = "store"
        /\ UNCHANGED <<index, cycle, deq, ccs, got>>
    BY OutstandingIs DEF StoreParam, controller
  <1>3. /\ slots \in [Slots -> [param : Commands \cup {NoCommand}, type : {"none", "command", "link"},
                                cycle : {0, 1}]]
        /\ index \in Slots
    BY DEF RingIInv, RingTypeOK
  <1>4. /\ slots' \in [Slots -> [param : Commands \cup {NoCommand}, type : {"none", "command", "link"},
                                 cycle : {0, 1}]]
        /\ slots'[index].param = c
        /\ \A sl \in Slots : slots'[sl].cycle = slots[sl].cycle /\ slots'[sl].type = slots[sl].type
    BY <1>2, <1>3
  <1>5. RingTypeOK'
    BY <1>2, <1>4 DEF RingIInv, RingTypeOK
  <1>6. CyclesSound' /\ LinkSound'
    BY <1>1, <1>2, <1>4 DEF RingIInv, CyclesSound, LinkSound
  <1>7. Distance' = Distance
    BY <1>2 DEF Distance
  <1>8. PositionsSound'
    BY <1>2, <1>4, <1>7 DEF RingIInv, PositionsSound
  <1>9. QED
    BY <1>5, <1>6, <1>8 DEF RingIInv

LEMMA StoreCycleSound ==
  ASSUME RingIInv, StoreCycle
  PROVE  RingIInv'
PROOF
  <1>1. /\ LinkSlot \in Nat /\ LinkSlot >= 2 /\ Slots = 0..LinkSlot /\ max_index - 1 = LinkSlot
        /\ MaxOutstanding \in Nat /\ MaxOutstanding < LinkSlot
    BY RingSize
  <1>2. /\ ringPc = "store"
        /\ slots' = [slots EXCEPT ![index] = [param |-> slots[index].param, type |-> "command", cycle |-> cycle]]
        /\ index' = index + 1
        /\ ringPc' = IF index + 1 = LinkSlot THEN "link" ELSE "idle"
        /\ UNCHANGED <<cycle, deq, ccs, got>>
    BY <1>1 DEF StoreCycle, controller
  <1>3. /\ slots \in [Slots -> [param : Commands \cup {NoCommand}, type : {"none", "command", "link"},
                                cycle : {0, 1}]]
        /\ index \in Slots /\ index < LinkSlot /\ cycle \in {0, 1} /\ ccs \in {0, 1}
        /\ Distance \in Nat /\ Distance < MaxOutstanding /\ deq \in Slots
    BY <1>2 DEF RingIInv, RingTypeOK, PositionsSound
  <1>4. /\ slots' \in [Slots -> [param : Commands \cup {NoCommand}, type : {"none", "command", "link"},
                                 cycle : {0, 1}]]
        /\ slots'[index].cycle = cycle /\ slots'[index].type = "command"
        /\ \A sl \in Slots : sl # index => slots'[sl] = slots[sl]
    BY <1>2, <1>3
  <1>5. index + 1 \in Slots /\ index + 1 <= LinkSlot
    BY <1>1, <1>3
  <1>6. RingTypeOK'
    BY <1>2, <1>4, <1>5 DEF RingIInv, RingTypeOK
  <1>7. CyclesSound'
    <2>1. ASSUME NEW sl \in Slots
          PROVE  slots'[sl].cycle = IF sl < index + 1 THEN cycle ELSE 1 - cycle
      <3>1. CASE sl = index
        BY <1>1, <1>3, <1>4, <3>1
      <3>2. CASE sl # index
        <4>1. slots'[sl].cycle = IF sl < index THEN cycle ELSE 1 - cycle
          BY <1>4, <3>2 DEF RingIInv, CyclesSound
        <4>2. sl < index + 1 <=> sl < index
          BY <1>1, <1>3, <3>2
        <4>3. QED
          BY <4>1, <4>2
      <3>3. QED
        BY <3>1, <3>2
    <2>2. QED
      BY <1>2, <2>1 DEF CyclesSound
  <1>8. LinkSound'
    <2>1. LinkSlot \in Slots /\ LinkSlot # index
      BY <1>1, <1>3
    <2>2. \A sl \in Slots : slots'[sl].type = "link" => sl = LinkSlot
      BY <1>4 DEF RingIInv, LinkSound
    <2>3. cycle # ccs => slots'[LinkSlot].type = "link"
      BY <1>4, <2>1 DEF RingIInv, LinkSound
    <2>4. QED
      BY <1>2, <2>2, <2>3 DEF LinkSound
  <1>9. Distance' = Distance + 1
    BY <1>1, <1>2, <1>3 DEF Distance
  <1>10. index + 1 = LinkSlot => cycle = ccs
    <2>1. CASE cycle # ccs /\ index + 1 = LinkSlot
      <3>1. Distance = (index + LinkSlot) - deq
        BY <2>1 DEF Distance
      <3>2. Distance < LinkSlot /\ deq <= LinkSlot
        BY <1>1, <1>3
      <3>3. QED
        BY <1>1, <1>3, <2>1, <3>1, <3>2
    <2>2. QED
      BY <2>1
  <1>11. PositionsSound'
    <2>1. Distance' \in 0..MaxOutstanding
      BY <1>1, <1>3, <1>9
    <2>2. ringPc' # "store"
      BY <1>2
    <2>3. IF ringPc' \in {"link", "link_cycle"} THEN index' = LinkSlot /\ cycle' = ccs' ELSE index' < LinkSlot
      <3>1. CASE index + 1 = LinkSlot
        BY <1>2, <1>10, <3>1
      <3>2. CASE index + 1 # LinkSlot
        BY <1>1, <1>2, <1>3, <1>5, <3>2
      <3>3. QED
        BY <3>1, <3>2
    <2>4. QED
      BY <2>1, <2>2, <2>3 DEF PositionsSound
  <1>12. QED
    BY <1>6, <1>7, <1>8, <1>11 DEF RingIInv

LEMMA LinkAddressSound ==
  ASSUME RingIInv, LinkAddress
  PROVE  RingIInv'
PROOF
  <1>1. /\ ringPc = "link" /\ ringPc' = "link_cycle"
        /\ slots' = [slots EXCEPT ![index].param = NoCommand]
        /\ UNCHANGED <<index, cycle, deq, ccs, got>>
    BY DEF LinkAddress, controller
  <1>2. /\ slots \in [Slots -> [param : Commands \cup {NoCommand}, type : {"none", "command", "link"},
                                cycle : {0, 1}]]
        /\ index \in Slots /\ LinkSlot \in Slots
    BY RingSize DEF RingIInv, RingTypeOK
  <1>3. /\ slots' \in [Slots -> [param : Commands \cup {NoCommand}, type : {"none", "command", "link"},
                                 cycle : {0, 1}]]
        /\ \A sl \in Slots : slots'[sl].cycle = slots[sl].cycle /\ slots'[sl].type = slots[sl].type
    BY <1>1, <1>2
  <1>4. RingTypeOK'
    BY <1>1, <1>3 DEF RingIInv, RingTypeOK
  <1>5. CyclesSound' /\ LinkSound'
    BY <1>1, <1>2, <1>3 DEF RingIInv, CyclesSound, LinkSound
  <1>6. Distance' = Distance
    BY <1>1 DEF Distance
  <1>7. PositionsSound'
    BY <1>1, <1>6 DEF RingIInv, PositionsSound
  <1>8. QED
    BY <1>4, <1>5, <1>7 DEF RingIInv

LEMMA LinkCycleSound ==
  ASSUME RingIInv, LinkCycle
  PROVE  RingIInv'
PROOF
  <1>1. /\ LinkSlot \in Nat /\ LinkSlot >= 2 /\ Slots = 0..LinkSlot
        /\ MaxOutstanding \in Nat /\ MaxOutstanding < LinkSlot
    BY RingSize
  <1>2. /\ ringPc = "link_cycle" /\ ringPc' = "idle" /\ index' = 0 /\ cycle' = 1 - cycle
        /\ slots' = [slots EXCEPT ![index] = [param |-> slots[index].param, type |-> "link", cycle |-> cycle]]
        /\ UNCHANGED <<deq, ccs, got>>
    BY DEF LinkCycle, controller
  <1>3. /\ slots \in [Slots -> [param : Commands \cup {NoCommand}, type : {"none", "command", "link"},
                                cycle : {0, 1}]]
        /\ index = LinkSlot /\ cycle = ccs /\ cycle \in {0, 1} /\ deq \in Slots
        /\ Distance \in 0..MaxOutstanding
    BY <1>2 DEF RingIInv, RingTypeOK, PositionsSound
  <1>4. /\ slots' \in [Slots -> [param : Commands \cup {NoCommand}, type : {"none", "command", "link"},
                                 cycle : {0, 1}]]
        /\ slots'[LinkSlot].cycle = cycle /\ slots'[LinkSlot].type = "link"
        /\ \A sl \in Slots : sl # LinkSlot => slots'[sl] = slots[sl]
    BY <1>1, <1>2, <1>3
  <1>5. RingTypeOK'
    BY <1>1, <1>2, <1>3, <1>4 DEF RingIInv, RingTypeOK
  <1>6. CyclesSound'
    <2>1. ASSUME NEW sl \in Slots
          PROVE  slots'[sl].cycle = IF sl < index' THEN cycle' ELSE 1 - cycle'
      <3>1. slots'[sl].cycle = cycle
        <4>1. CASE sl = LinkSlot
          BY <1>4, <4>1
        <4>2. CASE sl # LinkSlot
          <5>1. sl < index
            BY <1>1, <1>3, <4>2
          <5>2. QED
            BY <1>4, <4>2, <5>1 DEF RingIInv, CyclesSound
        <4>3. QED
          BY <4>1, <4>2
      <3>2. ~(sl < index') /\ 1 - cycle' = cycle
        BY <1>1, <1>2, <1>3
      <3>3. QED
        BY <3>1, <3>2
    <2>2. QED
      BY <2>1 DEF CyclesSound
  <1>7. LinkSound'
    BY <1>4 DEF RingIInv, LinkSound
  <1>8. Distance' = Distance
    <2>1. cycle' # ccs'
      BY <1>2, <1>3
    <2>2. QED
      BY <1>1, <1>2, <1>3, <2>1 DEF Distance
  <1>9. PositionsSound'
    BY <1>1, <1>2, <1>3, <1>8 DEF PositionsSound
  <1>10. QED
    BY <1>5, <1>6, <1>7, <1>9 DEF RingIInv

(* The controller stops at the driver's slot, and never takes the link for *)
(* a command.                                                              *)
LEMMA FetchFacts ==
  ASSUME RingIInv, Fetch
  PROVE  /\ deq < LinkSlot /\ deq' = deq + 1 /\ Distance > 0 /\ Distance' = Distance - 1
         /\ got' = slots[deq].param
         /\ UNCHANGED <<slots, index, cycle, ringPc, ccs>>
PROOF
  <1>1. /\ LinkSlot \in Nat /\ LinkSlot >= 2 /\ Slots = 0..LinkSlot
        /\ MaxOutstanding \in Nat /\ MaxOutstanding < LinkSlot
    BY RingSize
  <1>2. /\ slots[deq].cycle = ccs /\ slots[deq].type # "link"
        /\ got' = slots[deq].param /\ deq' = deq + 1
        /\ UNCHANGED <<slots, index, cycle, ringPc, ccs>>
    BY DEF Fetch, driver
  <1>3. /\ index \in Slots /\ deq \in Slots /\ cycle \in {0, 1} /\ ccs \in {0, 1}
        /\ Distance \in 0..MaxOutstanding
        /\ slots[deq].cycle = IF deq < index THEN cycle ELSE 1 - cycle
        /\ cycle # ccs => slots[LinkSlot].type = "link"
        /\ index = LinkSlot => cycle = ccs
    BY <1>1 DEF RingIInv, RingTypeOK, PositionsSound, CyclesSound, LinkSound
  <1>4. Distance = (IF cycle = ccs THEN index ELSE index + LinkSlot) - deq
    BY DEF Distance
  <1>5. deq < LinkSlot /\ Distance > 0
    <2>1. CASE cycle = ccs
      <3>1. deq < index
        BY <1>2, <1>3, <2>1
      <3>2. QED
        BY <1>1, <1>3, <1>4, <2>1, <3>1
    <2>2. CASE cycle # ccs
      <3>1. deq # LinkSlot
        BY <1>2, <1>3, <2>2
      <3>2. QED
        BY <1>1, <1>3, <1>4, <2>2, <3>1
    <2>3. QED
      BY <2>1, <2>2
  <1>6. Distance' = Distance - 1
    <2>1. Distance' = (IF cycle = ccs THEN index ELSE index + LinkSlot) - (deq + 1)
      BY <1>2 DEF Distance
    <2>2. QED
      BY <1>1, <1>3, <1>4, <2>1
  <1>7. QED
    BY <1>2, <1>5, <1>6

LEMMA FetchSound ==
  ASSUME RingIInv, Fetch
  PROVE  RingIInv'
PROOF
  <1>1. /\ deq < LinkSlot /\ deq' = deq + 1 /\ Distance > 0 /\ Distance' = Distance - 1
        /\ got' = slots[deq].param
        /\ UNCHANGED <<slots, index, cycle, ringPc, ccs>>
    BY FetchFacts
  <1>2. LinkSlot \in Nat /\ Slots = 0..LinkSlot /\ MaxOutstanding \in Nat
    BY RingSize
  <1>3. /\ slots \in [Slots -> [param : Commands \cup {NoCommand}, type : {"none", "command", "link"},
                                cycle : {0, 1}]]
        /\ deq \in Slots /\ Distance \in 0..MaxOutstanding
    BY DEF RingIInv, RingTypeOK, PositionsSound
  <1>4. got' \in Commands \cup {NoCommand} /\ deq' \in Slots
    BY <1>1, <1>2, <1>3
  <1>5. RingTypeOK'
    BY <1>1, <1>4 DEF RingIInv, RingTypeOK
  <1>6. CyclesSound' /\ LinkSound'
    BY <1>1 DEF RingIInv, CyclesSound, LinkSound
  <1>7. Distance' \in 0..MaxOutstanding /\ (Distance < MaxOutstanding => Distance' < MaxOutstanding)
    BY <1>1, <1>2, <1>3
  <1>8. PositionsSound'
    BY <1>1, <1>7 DEF RingIInv, PositionsSound
  <1>9. QED
    BY <1>5, <1>6, <1>8 DEF RingIInv

LEMMA FollowLinkFacts ==
  ASSUME RingIInv, FollowLink
  PROVE  /\ deq = LinkSlot /\ deq' = 0 /\ cycle # ccs /\ cycle = ccs' /\ Distance' = Distance
         /\ Distance = index /\ index < LinkSlot
         /\ UNCHANGED <<slots, index, cycle, ringPc, got>>
PROOF
  <1>1. LinkSlot \in Nat /\ Slots = 0..LinkSlot /\ MaxOutstanding \in Nat
    BY RingSize
  <1>2. /\ slots[deq].cycle = ccs /\ slots[deq].type = "link"
        /\ deq' = 0 /\ ccs' = 1 - ccs
        /\ UNCHANGED <<slots, index, cycle, ringPc, got>>
    BY DEF FollowLink, driver
  <1>3. /\ index \in Slots /\ deq \in Slots /\ cycle \in {0, 1} /\ ccs \in {0, 1}
        /\ slots[deq].cycle = IF deq < index THEN cycle ELSE 1 - cycle
        /\ deq = LinkSlot
        /\ index = LinkSlot => cycle = ccs
    BY <1>1, <1>2 DEF RingIInv, RingTypeOK, PositionsSound, CyclesSound, LinkSound
  <1>4. cycle # ccs /\ cycle = ccs'
    BY <1>1, <1>2, <1>3
  <1>5. Distance = (index + LinkSlot) - deq /\ Distance' = index - 0
    BY <1>2, <1>4 DEF Distance
  <1>6. QED
    BY <1>1, <1>2, <1>3, <1>4, <1>5

LEMMA FollowLinkSound ==
  ASSUME RingIInv, FollowLink
  PROVE  RingIInv'
PROOF
  <1>1. /\ deq = LinkSlot /\ deq' = 0 /\ cycle = ccs' /\ Distance' = Distance /\ index < LinkSlot
        /\ UNCHANGED <<slots, index, cycle, ringPc, got>>
    BY FollowLinkFacts
  <1>2. RingTypeOK'
    BY <1>1, RingSize DEF RingIInv, RingTypeOK
  <1>3. CyclesSound' /\ LinkSound'
    BY <1>1 DEF RingIInv, CyclesSound, LinkSound
  <1>4. PositionsSound'
    BY <1>1 DEF RingIInv, PositionsSound
  <1>5. QED
    BY <1>2, <1>3, <1>4 DEF RingIInv

LEMMA RingStutterSound ==
  ASSUME RingIInv, UNCHANGED ringVars
  PROVE  RingIInv'
PROOF
  BY DEF ringVars, driver, controller, RingIInv, RingTypeOK, CyclesSound, LinkSound, PositionsSound,
         Distance

(***************************************************************************)
(* The theorems.                                                           *)
(***************************************************************************)
LEMMA RingStepSound ==
  ASSUME RingIInv, [RingNext]_ringVars
  PROVE  RingIInv'
PROOF
  <1>1. CASE \E c \in Commands : StoreParam(c)
    BY <1>1, StoreParamSound
  <1>2. CASE StoreCycle
    BY <1>2, StoreCycleSound
  <1>3. CASE LinkAddress
    BY <1>3, LinkAddressSound
  <1>4. CASE LinkCycle
    BY <1>4, LinkCycleSound
  <1>5. CASE Fetch
    BY <1>5, FetchSound
  <1>6. CASE FollowLink
    BY <1>6, FollowLinkSound
  <1>7. CASE UNCHANGED ringVars
    BY <1>7, RingStutterSound
  <1>8. QED
    BY <1>1, <1>2, <1>3, <1>4, <1>5, <1>6, <1>7 DEF RingNext, Add

(* The invariant is inductive, wherever the controller's look falls        *)
(* between the two stores of XhciRingAdd.                                  *)
THEOREM RingInvariance ==
  ASSUME StaleCycles \subseteq {0}
  PROVE  RingSpec => []RingIInv
PROOF
  <1>1. RingInit => RingIInv
    BY RingInitSound
  <1>2. RingIInv /\ [RingNext]_ringVars => RingIInv'
    BY RingStepSound
  <1>3. QED
    BY <1>1, <1>2, PTL DEF RingSpec

(* XhciRingAdd never stores into a slot the controller may be reading and  *)
(* the cycle bits tell a full ring from an empty one, for every ring size  *)
(* and as long as the caller keeps to max_index - 2 commands.              *)
THEOREM RingIsSafe ==
  ASSUME StaleCycles \subseteq {0}
  PROVE  RingSpec => []RingSafe
PROOF
  <1>1. RingIInv => RingSafe
    <2> SUFFICES ASSUME RingIInv
                 PROVE  SlotNotOwned /\ LapsAgree
      BY DEF RingIInv, RingSafe
    <2>1. /\ LinkSlot \in Nat /\ Slots = 0..LinkSlot /\ MaxOutstanding \in Nat
          /\ MaxOutstanding < LinkSlot
      BY RingSize
    <2>2. /\ index \in Slots /\ deq \in Slots /\ cycle \in {0, 1} /\ ccs \in {0, 1}
          /\ slots[index].cycle = 1 - cycle
          /\ Distance \in 0..MaxOutstanding /\ (index = LinkSlot => cycle = ccs)
      BY <2>1 DEF RingIInv, RingTypeOK, PositionsSound, CyclesSound
    <2>3. Distance = (IF cycle = ccs THEN index ELSE index + LinkSlot) - deq
      BY DEF Distance
    <2>4. ~(deq = index /\ slots[index].cycle = ccs)
      <3>1. CASE cycle = ccs
        BY <2>2, <3>1
      <3>2. CASE cycle # ccs
        BY <2>1, <2>2, <2>3, <3>2
      <3>3. QED
        BY <3>1, <3>2
    <2>5. Outstanding = Distance
      BY OutstandingIs
    <2>6. LapsAgree
      <3>1. CASE index = LinkSlot
        BY <2>2, <2>3, <2>5, <3>1 DEF LapsAgree
      <3>2. CASE index # LinkSlot /\ cycle = ccs
        BY <2>1, <2>2, <2>3, <2>5, <3>2 DEF LapsAgree
      <3>3. CASE index # LinkSlot /\ cycle # ccs
        BY <2>3, <2>5, <3>3 DEF LapsAgree
      <3>4. QED
        BY <3>1, <3>2, <3>3
    <2>7. QED
      BY <2>4, <2>6 DEF SlotNotOwned
  <1>2. QED
    BY <1>1, RingInvariance, PTL

(***************************************************************************)
(* The ring implements the queue.  First two facts about sequences.        *)
(***************************************************************************)
LEMMA AppendIs ==
  ASSUME NEW n \in Nat, NEW s, s = [k \in 1..n |-> s[k]],
         NEW t, t = [k \in 1..(n + 1) |-> t[k]], \A k \in 1..n : t[k] = s[k]
  PROVE  Len(s) = n /\ t = Append(s, t[n + 1])
PROOF
  <1> DEFINE R == {s[k] : k \in 1..n}
  <1>1. s \in [1..n -> R]
    OBVIOUS
  <1> HIDE DEF R
  <1>2. s \in Seq(R) /\ Len(s) = n
    BY <1>1
  <1>3. Append(s, t[n + 1]) = [k \in 1..(n + 1) |-> IF k = n + 1 THEN t[n + 1] ELSE s[k]]
    BY <1>2 DEF Append
  <1>4. \A k \in 1..(n + 1) : t[k] = IF k = n + 1 THEN t[n + 1] ELSE s[k]
    OBVIOUS
  <1>5. [k \in 1..(n + 1) |-> t[k]] = [k \in 1..(n + 1) |-> IF k = n + 1 THEN t[n + 1] ELSE s[k]]
    BY <1>4
  <1>6. t = Append(s, t[n + 1])
    BY <1>3, <1>5, Zenon
  <1>7. QED
    BY <1>2, <1>6

LEMMA TailIs ==
  ASSUME NEW n \in Nat \ {0}, NEW s, s = [k \in 1..n |-> s[k]],
         NEW t, t = [k \in 1..(n - 1) |-> s[k + 1]]
  PROVE  s # <<>> /\ Head(s) = s[1] /\ t = Tail(s)
PROOF
  <1> DEFINE R == {s[k] : k \in 1..n}
  <1>1. s \in [1..n -> R]
    OBVIOUS
  <1> HIDE DEF R
  <1>2. s \in Seq(R) /\ Len(s) = n
    BY <1>1
  <1>3. QED
    BY <1>2

(* The commands in the ring, by their distance from the controller.        *)
LEMMA PendingIs ==
  RingIInv => Pending = [k \in 1..Distance |-> slots[(deq + (k - 1)) % LinkSlot].param]
PROOF
  BY OutstandingIs DEF Pending, Ahead

LEMMA PendingIsNext ==
  (RingIInv => Pending = [k \in 1..Distance |-> slots[(deq + (k - 1)) % LinkSlot].param])'
PROOF
  BY PendingIs, PTL

(* Steps that leave the controller and the pending commands' parameters.   *)
LEMMA QueueKept ==
  ASSUME RingIInv, RingIInv', UNCHANGED <<deq, got>>, Distance' = Distance,
         \A sl \in 0..(LinkSlot - 1) : sl # index => slots'[sl].param = slots[sl].param
  PROVE  UNCHANGED <<Pending, got>>
PROOF
  <1>1. /\ Pending = [k \in 1..Distance |-> slots[(deq + (k - 1)) % LinkSlot].param]
        /\ Pending' = [k \in 1..Distance |-> slots'[(deq + (k - 1)) % LinkSlot].param]
    BY PendingIs, PendingIsNext
  <1>2. Distance \in Nat
    BY RingSize DEF RingIInv, PositionsSound
  <1>3. ASSUME NEW k \in 1..Distance
        PROVE  slots'[(deq + (k - 1)) % LinkSlot].param = slots[(deq + (k - 1)) % LinkSlot].param
    <2>1. k - 1 \in 0..(Distance - 1)
      BY <1>2
    <2>2. /\ (deq + (k - 1)) % LinkSlot \in 0..(LinkSlot - 1)
          /\ (deq + (k - 1)) % LinkSlot # index
      BY <2>1, CountedRight
    <2>3. QED
      BY <2>2
  <1>4. QED
    BY <1>1, <1>3

LEMMA StoreCyclePuts ==
  ASSUME RingIInv, RingIInv', StoreCycle
  PROVE  \E c \in Commands : Queue!Put(c)
PROOF
  <1> DEFINE d == Distance
             c == slots[index].param
  <1>1. /\ LinkSlot \in Nat /\ Slots = 0..LinkSlot /\ max_index - 1 = LinkSlot
        /\ MaxOutstanding \in Nat
    BY RingSize
  <1>2. /\ ringPc = "store"
        /\ slots' = [slots EXCEPT ![index] = [param |-> slots[index].param, type |-> "command", cycle |-> cycle]]
        /\ index' = index + 1
        /\ UNCHANGED <<cycle, deq, ccs, got>>
    BY <1>1 DEF StoreCycle, controller
  <1>3. /\ index \in Slots /\ index < LinkSlot /\ d \in Nat /\ d < MaxOutstanding /\ c \in Commands
        /\ deq \in Slots
        /\ slots \in [Slots -> [param : Commands \cup {NoCommand}, type : {"none", "command", "link"},
                                cycle : {0, 1}]]
    BY <1>1, <1>2 DEF RingIInv, RingTypeOK, PositionsSound
  <1>4. \A sl \in Slots : slots'[sl].param = slots[sl].param
    BY <1>2, <1>3
  <1>5. Distance' = d + 1
    BY <1>1, <1>2, <1>3 DEF Distance
  <1>6. /\ Pending = [k \in 1..d |-> slots[(deq + (k - 1)) % LinkSlot].param]
        /\ Pending' = [k \in 1..(d + 1) |-> slots'[(deq + (k - 1)) % LinkSlot].param]
    BY <1>2, <1>5, PendingIs, PendingIsNext
  <1>7. /\ \A k \in 0..(d - 1) : (deq + k) % LinkSlot \in 0..(LinkSlot - 1)
        /\ (deq + d) % LinkSlot = index
    BY <1>3, CountedRight
  <1> HIDE DEF d
  <1>8. \A k \in 1..d : Pending'[k] = Pending[k]
    <2> TAKE k \in 1..d
    <2>1. k - 1 \in 0..(d - 1) /\ k \in 1..(d + 1)
      BY <1>3
    <2>2. (deq + (k - 1)) % LinkSlot \in Slots
      BY <1>1, <1>7, <2>1
    <2>3. QED
      BY <1>4, <1>6, <2>1, <2>2
  <1>9. Pending'[d + 1] = c
    <2>1. d + 1 \in 1..(d + 1) /\ deq + ((d + 1) - 1) = deq + d
      BY <1>1, <1>3
    <2>2. QED
      BY <1>3, <1>4, <1>6, <1>7, <2>1
  <1>10. Pending = [k \in 1..d |-> Pending[k]] /\ Pending' = [k \in 1..(d + 1) |-> Pending'[k]]
    BY <1>6
  <1>11. Len(Pending) = d /\ Pending' = Append(Pending, c)
    BY <1>3, <1>8, <1>9, <1>10, AppendIs
  <1>12. Queue!Put(c)
    BY <1>2, <1>3, <1>11 DEF Queue!Put
  <1>13. QED
    BY <1>3, <1>12

LEMMA FetchGets ==
  ASSUME RingIInv, RingIInv', Fetch
  PROVE  Queue!Get
PROOF
  <1> DEFINE d == Distance
  <1>1. /\ deq < LinkSlot /\ deq' = deq + 1 /\ d > 0 /\ Distance' = d - 1
        /\ got' = slots[deq].param /\ slots' = slots
    BY FetchFacts
  <1>2. /\ LinkSlot \in Nat /\ deq \in Nat /\ d \in Nat
    BY RingSize DEF RingIInv, RingTypeOK, PositionsSound
  <1>3. /\ Pending = [k \in 1..d |-> slots[(deq + (k - 1)) % LinkSlot].param]
        /\ Pending' = [k \in 1..(d - 1) |-> slots[(deq + 1 + (k - 1)) % LinkSlot].param]
    BY <1>1, PendingIs, PendingIsNext
  <1> HIDE DEF d
  <1>4. Pending[1] = got'
    <2>1. deq + (1 - 1) = deq /\ 1 \in 1..d
      BY <1>1, <1>2
    <2>2. deq % LinkSlot = deq
      BY <1>1, <1>2, Wrapped
    <2>3. QED
      BY <1>1, <1>3, <2>1, <2>2
  <1>5. \A k \in 1..(d - 1) : slots[(deq + 1 + (k - 1)) % LinkSlot].param = Pending[k + 1]
    <2> TAKE k \in 1..(d - 1)
    <2>1. k + 1 \in 1..d /\ deq + 1 + (k - 1) = deq + ((k + 1) - 1)
      BY <1>2
    <2>2. QED
      BY <1>3, <2>1
  <1>6. Pending = [k \in 1..d |-> Pending[k]] /\ Pending' = [k \in 1..(d - 1) |-> Pending[k + 1]]
    BY <1>3, <1>5
  <1>7. Pending # <<>> /\ Head(Pending) = Pending[1] /\ Pending' = Tail(Pending)
    BY <1>1, <1>2, <1>6, TailIs
  <1>8. QED
    BY <1>4, <1>7 DEF Queue!Get

LEMMA FollowLinkKeeps ==
  ASSUME RingIInv, RingIInv', FollowLink
  PROVE  UNCHANGED <<Pending, got>>
PROOF
  <1> DEFINE d == Distance
  <1>1. /\ deq = LinkSlot /\ deq' = 0 /\ Distance' = d /\ d = index /\ index < LinkSlot
        /\ slots' = slots /\ got' = got
    BY FollowLinkFacts
  <1>2. LinkSlot \in Nat /\ d \in Nat
    BY RingSize DEF RingIInv, PositionsSound
  <1>3. /\ Pending = [k \in 1..d |-> slots[(LinkSlot + (k - 1)) % LinkSlot].param]
        /\ Pending' = [k \in 1..d |-> slots[(0 + (k - 1)) % LinkSlot].param]
    BY <1>1, PendingIs, PendingIsNext
  <1> HIDE DEF d
  <1>4. \A k \in 1..d : (LinkSlot + (k - 1)) % LinkSlot = (0 + (k - 1)) % LinkSlot
    <2> TAKE k \in 1..d
    <2>1. /\ LinkSlot + (k - 1) \in LinkSlot..(2 * LinkSlot - 1)
          /\ 0 + (k - 1) \in 0..(LinkSlot - 1)
          /\ (LinkSlot + (k - 1)) - LinkSlot = 0 + (k - 1)
      BY <1>1, <1>2
    <2>2. (LinkSlot + (k - 1)) % LinkSlot = (LinkSlot + (k - 1)) - LinkSlot
      BY <2>1, Wrapped
    <2>3. (0 + (k - 1)) % LinkSlot = 0 + (k - 1)
      BY <2>1, Wrapped
    <2>4. QED
      BY <2>1, <2>2, <2>3
  <1>5. QED
    BY <1>1, <1>3, <1>4

(* XhciRingAdd and the controller implement a first-in first-out queue:    *)
(* the store of the cycle bit puts a command in, a fetch takes the oldest  *)
(* out, and every other store and the link change nothing, whatever order  *)
(* they come in.                                                           *)
THEOREM RingIsQueue ==
  ASSUME StaleCycles \subseteq {0}
  PROVE  RingSpec => IsQueueSafely
PROOF
  <1>1. RingInit => Queue!Init
    <2> SUFFICES ASSUME RingInit
                 PROVE  Pending = <<>> /\ got = NoCommand
      BY DEF Queue!Init
    <2>1. Pending = [k \in 1..Distance |-> slots[(deq + (k - 1)) % LinkSlot].param]
      BY RingInitSound, PendingIs
    <2>2. Distance = 0
      BY DEF RingInit, Distance
    <2>3. QED
      BY <2>1, <2>2 DEF RingInit
  <1>2. RingIInv /\ RingIInv' /\ [RingNext]_ringVars => [Queue!Next]_<<Pending, got>>
    <2> SUFFICES ASSUME RingIInv, RingIInv', [RingNext]_ringVars
                 PROVE  Queue!Next \/ UNCHANGED <<Pending, got>>
      OBVIOUS
    <2>1. LinkSlot \in Nat /\ Slots = 0..LinkSlot /\ \A sl \in 0..(LinkSlot - 1) : sl \in Slots /\ sl # LinkSlot
      BY RingSize
    <2>2. /\ slots \in [Slots -> [param : Commands \cup {NoCommand}, type : {"none", "command", "link"},
                                  cycle : {0, 1}]]
          /\ index \in Slots
      BY DEF RingIInv, RingTypeOK
    <2>3. CASE \E c \in Commands : StoreParam(c)
      <3>1. PICK c \in Commands : StoreParam(c)
        BY <2>3
      <3>2. slots' = [slots EXCEPT ![index].param = c] /\ UNCHANGED <<index, cycle, deq, ccs, got>>
        BY <3>1 DEF StoreParam, controller
      <3>3. Distance' = Distance
        BY <3>2 DEF Distance
      <3>4. \A sl \in 0..(LinkSlot - 1) : sl # index => slots'[sl].param = slots[sl].param
        BY <2>1, <2>2, <3>2
      <3>5. QED
        BY <3>2, <3>3, <3>4, QueueKept
    <2>4. CASE StoreCycle
      BY <2>4, StoreCyclePuts DEF Queue!Next
    <2>5. CASE LinkAddress
      <3>1. slots' = [slots EXCEPT ![index].param = NoCommand] /\ UNCHANGED <<index, cycle, deq, ccs, got>>
        BY <2>5 DEF LinkAddress, controller
      <3>2. Distance' = Distance
        BY <3>1 DEF Distance
      <3>3. \A sl \in 0..(LinkSlot - 1) : sl # index => slots'[sl].param = slots[sl].param
        BY <2>1, <2>2, <3>1
      <3>4. QED
        BY <3>1, <3>2, <3>3, QueueKept
    <2>6. CASE LinkCycle
      <3>1. /\ slots' = [slots EXCEPT ![index] = [param |-> slots[index].param, type |-> "link", cycle |-> cycle]]
            /\ ringPc = "link_cycle" /\ index' = 0 /\ cycle' = 1 - cycle /\ UNCHANGED <<deq, ccs, got>>
        BY <2>6 DEF LinkCycle, controller
      <3>2. index = LinkSlot /\ cycle = ccs /\ cycle \in {0, 1} /\ deq \in Slots
        BY <3>1 DEF RingIInv, RingTypeOK, PositionsSound
      <3>3. Distance' = Distance
        <4>1. cycle' # ccs'
          BY <3>1, <3>2
        <4>2. QED
          BY <2>1, <3>1, <3>2, <4>1 DEF Distance
      <3>4. \A sl \in 0..(LinkSlot - 1) : sl # index => slots'[sl].param = slots[sl].param
        BY <2>1, <2>2, <3>1
      <3>5. QED
        BY <3>1, <3>3, <3>4, QueueKept
    <2>7. CASE Fetch
      BY <2>7, FetchGets DEF Queue!Next
    <2>8. CASE FollowLink
      BY <2>8, FollowLinkKeeps
    <2>9. CASE UNCHANGED ringVars
      <3>1. UNCHANGED <<slots, index, cycle, deq, ccs, got>>
        BY <2>9 DEF ringVars, driver, controller
      <3>2. Distance' = Distance
        BY <3>1 DEF Distance
      <3>3. QED
        BY <3>1, <3>2, QueueKept
    <2>10. QED
      BY <2>3, <2>4, <2>5, <2>6, <2>7, <2>8, <2>9 DEF RingNext, Add
  <1>3. QED
    BY <1>1, <1>2, RingInvariance, PTL DEF RingSpec, IsQueueSafely

(***************************************************************************)
(* The serial port.                                                        *)
(***************************************************************************)
(* Nothing is lost before the first character.                             *)
LEMMA ComInitSound == ComInit => ComIInv
PROOF
  BY DEF ComInit, ComIInv, Charged

(***************************************************************************)
(* Every lost character is charged to an interrupt that came between the   *)
(* wait and the write of ComPutChar, whichever step of ComPrint, of the    *)
(* handler or of the transmitter comes next.                               *)
(***************************************************************************)
LEMMA ComStepSound == ComIInv /\ [ComNext]_comVars => ComIInv'
PROOF
  <1> SUFFICES ASSUME ComIInv, [ComNext]_comVars PROVE ComIInv'
    OBVIOUS
  <1> USE DEF ComIInv, Charged
  <1>1. CASE Start
    BY <1>1 DEF Start, Kernel, Put
  <1>2. CASE Scale
    BY <1>2 DEF Scale, Kernel
  <1>3. CASE Digit
    BY <1>3 DEF Digit, Kernel, Put
  <1>4. CASE WaitEmpty
    BY <1>4 DEF WaitEmpty, Kernel
  <1>5. CASE WriteChar
    BY <1>5 DEF WriteChar
  <1>6. CASE ComInterrupt
    BY <1>6, SerialAssumption DEF ComInterrupt, locals
  <1>7. CASE HandlerPut
    BY <1>7 DEF HandlerPut, locals
  <1>8. CASE Transmit
    BY <1>8 DEF Transmit, locals
  <1>9. CASE UNCHANGED comVars
    BY <1>9 DEF comVars, locals
  <1>10. QED
    BY <1>1, <1>2, <1>3, <1>4, <1>5, <1>6, <1>7, <1>8, <1>9 DEF ComNext, ComPrint, ComDone

(***************************************************************************)
(* ComPrint and the handlers that print in the middle of it (serial.c)     *)
(* lose at most one character per interrupt, for any width and base, any   *)
(* number of characters a handler prints and any number of interrupts:     *)
(* ComPutChar waits for an empty transmitter, so only a handler that comes *)
(* between its wait and its write costs a character.                       *)
(***************************************************************************)
THEOREM LossIsBounded == Spec => []LossBounded
PROOF
  <1>1. Init => ComIInv
    BY ComInitSound DEF Init
  <1>2. ComIInv /\ [Next]_vars => ComIInv'
    <2>1. [Next]_vars => [ComNext]_comVars
      BY DEF Next, vars
    <2>2. QED
      BY <2>1, ComStepSound
  <1>3. ComIInv => LossBounded
    BY DEF ComIInv, Charged, LossBounded
  <1>4. QED
    BY <1>1, <1>2, <1>3, PTL DEF Spec

(***************************************************************************)
(* The enumeration of the PCI bus.                                         *)
(***************************************************************************)
(* The least of some numbers is one of them.                               *)
LEMMA MinIs ==
  ASSUME NEW S \in SUBSET Nat, S # {}
  PROVE  Min(S) \in S
PROOF
  <1>1. \E x \in S : \A y \in S : x <= y
    BY LeastElement
  <1>2. QED
    BY <1>1 DEF Min

(* The numbers of IRQs, vectors and table entries.                         *)
LEMMA PciNumbers ==
  FirstIrq \in Nat /\ SoftwareIrqs \in Nat /\ IRQ_VECTOR_BASE \in Nat /\ DRIVER_LIMIT \in Nat /\ DRIVER_LIMIT > 0
PROOF
  BY PciAssumption

(* The vectors of the software IRQs are vectors, one for each.             *)
LEMMA VectorsOfIrqs ==
  ASSUME NEW v \in FirstIrq..(FirstIrq + SoftwareIrqs - 1)
  PROVE  /\ v + IRQ_VECTOR_BASE \in Vectors
         /\ \A w \in FirstIrq..(FirstIrq + SoftwareIrqs - 1) : v # w => v + IRQ_VECTOR_BASE # w + IRQ_VECTOR_BASE
PROOF
  BY PciNumbers DEF Vectors

(* Counting the functions that a driver accepts.                           *)
LEMMA AcceptedNone == ASSUME NEW b PROVE Accepted(b, 0) = 0
PROOF
  <1>1. {m \in 1..0 : Probed(b[m])} = {}
    OBVIOUS
  <1>2. QED
    BY <1>1, FS_EmptySet DEF Accepted

(* One function more is counted if a driver accepts it.                    *)
LEMMA AcceptedCounts ==
  ASSUME NEW b, NEW n \in Nat
  PROVE  /\ IsFiniteSet({m \in 1..n : Probed(b[m])}) /\ Accepted(b, n) \in Nat
         /\ Accepted(b, n + 1) = IF Probed(b[n + 1]) THEN Accepted(b, n) + 1 ELSE Accepted(b, n)
PROOF
  <1> DEFINE S(k) == {m \in 1..k : Probed(b[m])}
  <1>1. IsFiniteSet(1..n) /\ S(n) \subseteq 1..n
    BY FS_Interval
  <1>2. IsFiniteSet(S(n)) /\ Cardinality(S(n)) \in Nat
    BY <1>1, FS_Subset, FS_CardinalityType
  <1>3. CASE Probed(b[n + 1])
    <2>1. S(n + 1) = S(n) \cup {n + 1} /\ n + 1 \notin S(n)
      BY <1>3
    <2>2. Cardinality(S(n + 1)) = Cardinality(S(n)) + 1
      BY <1>2, <2>1, FS_AddElement
    <2>3. QED
      BY <1>2, <1>3, <2>2 DEF Accepted
  <1>4. CASE ~Probed(b[n + 1])
    <2>1. S(n + 1) = S(n)
      BY <1>4
    <2>2. QED
      BY <1>2, <1>4, <2>1 DEF Accepted
  <1>5. QED
    BY <1>3, <1>4

(* More functions, no fewer drivers.                                       *)
LEMMA AcceptedGrows ==
  ASSUME NEW b, NEW n \in Nat, NEW k \in 0..n
  PROVE  Accepted(b, k) <= Accepted(b, n)
PROOF
  <1>1. {m \in 1..k : Probed(b[m])} \subseteq {m \in 1..n : Probed(b[m])}
    OBVIOUS
  <1>2. QED
    BY <1>1, AcceptedCounts, FS_Subset DEF Accepted

(* A driver that accepted a function is counted.                           *)
LEMMA AcceptedOne ==
  ASSUME NEW b, NEW n \in Nat, n > 0, Probed(b[n])
  PROVE  Accepted(b, n) \in Nat /\ Accepted(b, n - 1) \in Nat /\ Accepted(b, n) = Accepted(b, n - 1) + 1
PROOF
  <1>1. n - 1 \in Nat /\ (n - 1) + 1 = n
    OBVIOUS
  <1>2. QED
    BY <1>1, AcceptedCounts

(* Before the scan no driver is loaded and no IRQ taken.                   *)
LEMMA PciInitSound == PciInit => PciIInv
PROOF
  <1> SUFFICES ASSUME PciInit PROVE PciIInv
    OBVIOUS
  <1> USE PciAssumption
  <1>1. Len(bus) \in Nat /\ DOMAIN bus = 1..Len(bus) /\ bus \in Buses
    BY DEF PciInit
  <1>2. PciTypeOK
    BY <1>1 DEF PciInit, PciTypeOK
  <1>3. \A n \in DOMAIN bus : "bitmap" \in DOMAIN registers[n]
    BY DEF PciInit
  <1>4. \A n \in DOMAIN bus : ~HasInterrupter(n)
    BY DEF PciInit, HasInterrupter
  <1>5. DriversInOrder
    <2>1. Visited = 0 /\ Accepted(bus, 0) = 0
      BY AcceptedNone DEF PciInit, Visited
    <2>2. QED
      BY <2>1 DEF PciInit, DriversInOrder
  <1>6. QED
    BY <1>1, <1>2, <1>3, <1>4, <1>5 DEF PciInit, PciIInv

(* What the steps of XhciInitialize leave alone.                           *)
LEMMA PciTypes ==
  PciIInv => /\ bus \in Buses /\ Len(bus) \in Nat /\ DOMAIN bus = 1..Len(bus)
             /\ at \in 1..(Len(bus) + 1) /\ at \in Nat
             /\ DOMAIN registers = DOMAIN bus /\ DOMAIN interrupter = DOMAIN bus
             /\ \A n \in DOMAIN bus : Readable(bus[n])
PROOF
  BY PciAssumption DEF PciIInv, PciTypeOK

(* The order of the drivers depends on the table and on how far            *)
(* PciInitialize is.                                                       *)
LEMMA OrderKept ==
  ASSUME PciIInv, UNCHANGED <<bus, table>>, Visited' = Visited
  PROVE  DriversInOrder'
PROOF
  <1>1. UNCHANGED <<bus, kLoadedPciDrivers, kLoadedPciDriverCount>>
    BY DEF table
  <1>2. Accepted(bus, Visited)' = Accepted(bus, Visited)
        /\ \A n \in 1..Visited : Accepted(bus, n)' = Accepted(bus, n) /\ (Probed(bus[n])' <=> Probed(bus[n]))
    BY <1>1 DEF Accepted, Probed
  <1>3. QED
    BY <1>1, <1>2 DEF PciIInv, DriversInOrder

(* The initialisation of a driver is over and the scan goes on: the table  *)
(* of drivers was filled when it began.                                    *)
LEMMA PassKeepsOrder ==
  ASSUME PciIInv, pciPc # "scan", pciPc' = "scan", at' = at + 1, UNCHANGED <<bus, table>>
  PROVE  DriversInOrder'
PROOF
  <1>1. Visited' = Visited
    BY PciTypes DEF Visited
  <1>2. QED
    BY <1>1, OrderKept

(* A step in the initialisation of a driver leaves the table alone.        *)
LEMMA StayKeepsOrder ==
  ASSUME PciIInv, pciPc # "scan", pciPc' # "scan", at' = at, UNCHANGED <<bus, table>>
  PROVE  DriversInOrder'
PROOF
  <1>1. Visited' = Visited
    BY DEF Visited
  <1>2. QED
    BY <1>1, OrderKept

(* Every call of a driver's initialisation is for a function of the bus.   *)
LEMMA PciInitializedSound ==
  ASSUME PciIInv, pciPc # "scan", Initialized, UNCHANGED <<apic, registers, interrupter>>
  PROVE  PciIInv'
PROOF
  <1>1. at' \in 1..(Len(bus) + 1) /\ at < at'
    BY PciTypes DEF Initialized, PciIInv
  <1>2. PciTypeOK'
    BY <1>1 DEF Initialized, apic, table, walk, PciIInv, PciTypeOK, Vectors
  <1>3. \A n \in DOMAIN bus : HasInterrupter(n)' => HasInterrupter(n) /\ n < at'
    BY <1>1, PciTypes DEF PciIInv, HasInterrupter
  <1>4. DriversInOrder'
    BY PassKeepsOrder DEF Initialized
  <1>5. QED
    BY <1>1, <1>2, <1>3, <1>4 DEF Initialized, apic, table, walk, PciIInv, Wired

(* A function that no driver accepts is passed.                            *)
LEMMA SkipFunctionSound == ASSUME PciIInv, SkipFunction PROVE PciIInv'
PROOF
  <1>1. at' \in 1..(Len(bus) + 1) /\ at < at' /\ at \in 1..Len(bus)
    BY PciTypes DEF SkipFunction
  <1>2. PciTypeOK'
    BY <1>1 DEF SkipFunction, apic, table, walk, PciIInv, PciTypeOK, Vectors
  <1>3. \A n \in DOMAIN bus : HasInterrupter(n)' => HasInterrupter(n) /\ n < at'
    BY <1>1, PciTypes DEF SkipFunction, PciIInv, HasInterrupter
  <1>4. DriversInOrder'
    <2>1. Visited = at - 1 /\ Visited' = at /\ ~Probed(bus[at]) /\ UNCHANGED <<bus, kLoadedPciDrivers, kLoadedPciDriverCount>>
      BY PciTypes DEF SkipFunction, Visited, Here, table
    <2>2. Accepted(bus, at) = Accepted(bus, at - 1)
      <3>1. at - 1 \in Nat /\ (at - 1) + 1 = at
        BY <1>1
      <3>2. QED
        BY <2>1, <3>1, AcceptedCounts
    <2>3. \A n \in 1..at : n \in 1..(at - 1) \/ n = at
      BY <1>1
    <2>4. Accepted(bus, Visited)' = Accepted(bus, at)
          /\ \A n \in 1..at : Accepted(bus, n)' = Accepted(bus, n) /\ (Probed(bus[n])' <=> Probed(bus[n]))
      BY <2>1 DEF Accepted, Probed
    <2>5. QED
      BY <2>1, <2>2, <2>3, <2>4 DEF PciIInv, DriversInOrder
  <1>5. QED
    BY <1>1, <1>2, <1>3, <1>4 DEF SkipFunction, apic, table, walk, PciIInv, Wired

(* A function that a driver accepts gets the next entry of the table,      *)
(* which has one: fewer than DRIVER_LIMIT functions are accepted.          *)
LEMMA LoadDriverSound == ASSUME PciIInv, LoadDriver PROVE PciIInv'
PROOF
  <1> DEFINE d == kLoadedPciDrivers
             c == kLoadedPciDriverCount
             One == [driver : {"none", "xhci", "gpu"}, device : DOMAIN bus \cup {Unset}]
  <1>1. /\ at \in DOMAIN bus /\ at \in Nat /\ at > 0 /\ at <= Len(bus) /\ Len(bus) \in Nat
        /\ UNCHANGED <<bus, at, walk, apic, registers, interrupter>>
        /\ pciPc = "scan" /\ Probed(bus[at])
    BY PciTypes DEF LoadDriver, Here
  <1>2. pciPc' \in {"xhci", "gpu"} /\ bus[at].kind \in {"xhci", "gpu"}
    BY <1>1 DEF LoadDriver, Probed, Here
  <1>3. Visited = at - 1 /\ Visited' = at
    BY <1>1, <1>2 DEF Visited
  <1>4. /\ Accepted(bus, at) = c + 1 /\ Accepted(bus, at - 1) = c
        /\ c \in 0..(DRIVER_LIMIT - 1) /\ c + 1 < DRIVER_LIMIT
    <2>1. Accepted(bus, at) <= Accepted(bus, Len(bus)) /\ Accepted(bus, Len(bus)) < DRIVER_LIMIT
          /\ Accepted(bus, Len(bus)) \in Nat
      <3>1. at \in 0..Len(bus)
        BY <1>1
      <3>2. Accepted(bus, at) <= Accepted(bus, Len(bus)) /\ Accepted(bus, Len(bus)) \in Nat
        BY <1>1, <3>1, AcceptedGrows, AcceptedCounts
      <3>3. QED
        BY <3>2, PciTypes, PciAssumption
    <2>2. c = Accepted(bus, at - 1) /\ c \in 0..(DRIVER_LIMIT - 1)
      BY <1>3 DEF PciIInv, PciTypeOK, DriversInOrder
    <2>3. QED
      BY <1>1, <2>1, <2>2, AcceptedOne, PciNumbers
  <1>5. c' = c + 1
    <2>1. c' = (c + 1) % DRIVER_LIMIT
      BY DEF LoadDriver
    <2>2. QED
      BY <1>4, <2>1, PciNumbers, DivSmall
  <1>6. d \in [0..(DRIVER_LIMIT - 1) -> One]
    BY DEF PciIInv, PciTypeOK
  <1>7. d' = [d EXCEPT ![c].driver = bus[at].kind, ![c].device = at]
    <2>1. d' = [d EXCEPT ![c].driver = bus[at].kind, ![c' - 1].device = at]
      BY DEF LoadDriver, Here
    <2>2. c' - 1 = c
      BY <1>4, <1>5, PciNumbers
    <2>3. QED
      BY <2>1, <2>2
  <1> HIDE DEF c, d
  <1>8. /\ d' \in [0..(DRIVER_LIMIT - 1) -> One] /\ d'[c] = [driver |-> bus[at].kind, device |-> at]
        /\ \A k \in 0..(DRIVER_LIMIT - 1) : k # c => d'[k] = d[k]
    BY <1>1, <1>2, <1>4, <1>6, <1>7
  <1>9. PciTypeOK'
    BY <1>1, <1>2, <1>4, <1>5, <1>8, PciNumbers DEF apic, walk, PciIInv, PciTypeOK, Vectors, c, d
  <1>10. DriversInOrder'
    <2>1. \A n \in 1..at : Accepted(bus, n)' = Accepted(bus, n) /\ (Probed(bus[n])' <=> Probed(bus[n]))
      BY <1>1 DEF Accepted, Probed
    <2>2. Accepted(bus, Visited)' = Accepted(bus, at)
      BY <1>1, <1>3 DEF Accepted, Probed
    <2>3. ASSUME NEW n \in 1..at, Probed(bus[n])
          PROVE  d'[Accepted(bus, n) - 1] = [driver |-> bus[n].kind, device |-> n]
      <3>1. CASE n = at
        <4>1. Accepted(bus, n) - 1 = c
          BY <1>4, <3>1, PciNumbers
        <4>2. QED
          BY <1>8, <3>1, <4>1
      <3>2. CASE n # at
        <4>1. n \in 1..(at - 1) /\ n \in Nat /\ n > 0 /\ at - 1 \in Nat /\ n \in 0..(at - 1)
          BY <1>1, <2>3, <3>2
        <4>2. Accepted(bus, n) <= c /\ Accepted(bus, n) - 1 \in Nat
          BY <1>4, <2>3, <4>1, AcceptedGrows, AcceptedOne
        <4>3. Accepted(bus, n) - 1 \in 0..(DRIVER_LIMIT - 1) /\ Accepted(bus, n) - 1 # c
          <5>1. Accepted(bus, n) \in Nat
            BY <4>1, AcceptedCounts
          <5>2. QED
            BY <1>4, <4>2, <5>1, PciNumbers
        <4>4. d[Accepted(bus, n) - 1] = [driver |-> bus[n].kind, device |-> n]
          BY <1>3, <2>3, <4>1 DEF PciIInv, DriversInOrder, d
        <4>5. QED
          BY <1>8, <4>3, <4>4
      <3>3. QED
        BY <3>1, <3>2
    <2>4. QED
      BY <1>1, <1>3, <1>4, <1>5, <2>1, <2>2, <2>3 DEF DriversInOrder, c, d
  <1>11. QED
    BY <1>1, <1>2, <1>9, <1>10 DEF apic, walk, PciIInv, Wired, HasInterrupter

(* XhciReset leaves the interrupters alone.                                *)
LEMMA ResetSound == ASSUME PciIInv, Reset PROVE PciIInv'
PROOF
  <1>1. at \in DOMAIN bus /\ UNCHANGED <<bus, at, table, walk, apic, interrupter>> /\ pciPc' = "wait"
    BY DEF Reset, PciIInv
  <1>2. DOMAIN registers' = DOMAIN registers
        /\ \A n \in DOMAIN bus : "bitmap" \in DOMAIN registers'[n] /\ registers'[n].bitmap = registers[n].bitmap
    BY PciTypes DEF Reset, PciIInv
  <1>3. PciTypeOK'
    BY <1>1, <1>2 DEF apic, table, walk, PciIInv, PciTypeOK, Vectors
  <1>4. DriversInOrder'
    BY <1>1, StayKeepsOrder DEF Reset
  <1>5. QED
    BY <1>4, <1>1, <1>2, <1>3 DEF apic, table, walk, PciIInv, Wired, HasInterrupter

(* A controller becomes ready at any time.                                 *)
LEMMA BecomeReadySound == ASSUME PciIInv, NEW m \in DOMAIN bus, BecomeReady(m) PROVE PciIInv'
PROOF
  <1>1. UNCHANGED <<bus, at, table, pciPc, walk, apic, interrupter>>
    BY DEF BecomeReady
  <1>2. DOMAIN registers' = DOMAIN registers
        /\ \A n \in DOMAIN bus : "bitmap" \in DOMAIN registers'[n] /\ registers'[n].bitmap = registers[n].bitmap
    BY PciTypes DEF BecomeReady, PciIInv
  <1>3. PciTypeOK'
    BY <1>1, <1>2 DEF apic, table, walk, PciIInv, PciTypeOK, Vectors
  <1>4. DriversInOrder'
    BY <1>1, OrderKept DEF Visited
  <1>5. QED
    BY <1>4, <1>1, <1>2, <1>3, PciTypes DEF apic, table, walk, PciIInv, Wired, HasInterrupter

(* The registers of a controller are set up; its own interrupters begin    *)
(* empty, and it has none that may interrupt.                              *)
LEMMA XhciSetUpSound == ASSUME PciIInv, XhciSetUp PROVE PciIInv'
PROOF
  <1>1. at \in DOMAIN bus /\ UNCHANGED <<bus, at, table, walk, apic, interrupter>> /\ pciPc' = "interrupter"
    BY DEF XhciSetUp, PciIInv
  <1>2. DOMAIN registers' = DOMAIN registers
        /\ \A n \in DOMAIN bus : "bitmap" \in DOMAIN registers'[n] /\ (n # at => registers'[n].bitmap = registers[n].bitmap)
    BY PciTypes DEF XhciSetUp, PciIInv
  <1>3. PciTypeOK'
    BY <1>1, <1>2 DEF apic, table, walk, PciIInv, PciTypeOK, Vectors
  <1>4. \A n \in DOMAIN bus : HasInterrupter(n) => n # at
    BY PciTypes DEF PciIInv
  <1>5. DriversInOrder'
    BY <1>1, StayKeepsOrder DEF XhciSetUp
  <1>6. QED
    BY <1>5, <1>1, <1>2, <1>3, <1>4 DEF apic, table, walk, PciIInv, Wired, HasInterrupter

(* ApicAllocateSoftwareIrq finds no free IRQ: what was reserved in the     *)
(* controller stays so, and no other controller is touched.                *)
LEMMA NoIrqSound == ASSUME PciIInv, NoIrq PROVE PciIInv'
PROOF
  <1>1. at \in DOMAIN bus /\ pciPc # "scan" /\ Initialized /\ UNCHANGED <<apic, interrupter>>
    BY DEF NoIrq, PciIInv
  <1>2. DOMAIN registers' = DOMAIN registers
        /\ \A n \in DOMAIN bus : "bitmap" \in DOMAIN registers'[n] /\ (n # at => registers'[n].bitmap = registers[n].bitmap)
    BY PciTypes DEF NoIrq, PciIInv
  <1>3. at' \in 1..(Len(bus) + 1) /\ at < at'
    BY <1>1, PciTypes DEF Initialized
  <1>4. PciTypeOK'
    BY <1>1, <1>2, <1>3 DEF Initialized, apic, table, walk, PciIInv, PciTypeOK, Vectors
  <1>5. \A n \in DOMAIN bus : HasInterrupter(n)' => HasInterrupter(n) /\ n < at' /\ n # at
    BY <1>1, <1>3, PciTypes DEF PciIInv, HasInterrupter
  <1>6. DriversInOrder'
    BY <1>1, PassKeepsOrder DEF NoIrq, Initialized
  <1>7. QED
    BY <1>6, <1>1, <1>2, <1>3, <1>4, <1>5 DEF Initialized, apic, table, walk, PciIInv, Wired

(* An interrupter takes a free software IRQ: no other controller has it,   *)
(* so the handler that is installed for its vector replaces none.          *)
LEMMA TakeIrqSound == ASSUME PciIInv, TakeIrq PROVE PciIInv'
PROOF
  <1>1. /\ at \in DOMAIN bus /\ UNCHANGED <<bus, at, table, interrupter>> /\ pciPc' = "walk"
        /\ FreeInterrupters # {} /\ FreeIrqs # {} /\ interrupter_index' = Min(FreeInterrupters) /\ irq' = Min(FreeIrqs)
    BY DEF TakeIrq, PciIInv
  <1>2. irq' \in FirstIrq..(FirstIrq + SoftwareIrqs - 1) /\ irq' \notin kIrqSwBitmap
    <2>1. FreeIrqs \in SUBSET Nat
      BY PciNumbers DEF FreeIrqs
    <2>2. QED
      BY <1>1, <2>1, MinIs DEF FreeIrqs
  <1>3. irq' + IRQ_VECTOR_BASE \in Vectors
    BY <1>2, VectorsOfIrqs
  <1>4. /\ kIrqSwBitmap' = kIrqSwBitmap \cup {irq'} /\ enabled' = enabled \cup {irq'}
        /\ kIrqHandlers' \in [Vectors -> DOMAIN bus \cup {Unset}] /\ kIrqHandlers'[irq' + IRQ_VECTOR_BASE] = at
    BY <1>1, <1>3 DEF TakeIrq, PciIInv, PciTypeOK
  <1>5. \A v \in kIrqSwBitmap : kIrqHandlers'[v + IRQ_VECTOR_BASE] = kIrqHandlers[v + IRQ_VECTOR_BASE]
    <2> TAKE v \in kIrqSwBitmap
    <2>1. v \in FirstIrq..(FirstIrq + SoftwareIrqs - 1) /\ v # irq'
      BY <1>2 DEF PciIInv
    <2>2. v + IRQ_VECTOR_BASE # irq' + IRQ_VECTOR_BASE /\ v + IRQ_VECTOR_BASE \in Vectors
      BY <1>2, <2>1, VectorsOfIrqs
    <2>3. QED
      BY <2>2 DEF TakeIrq, PciIInv, PciTypeOK
  <1>6. DOMAIN registers' = DOMAIN registers
        /\ \A n \in DOMAIN bus : "bitmap" \in DOMAIN registers'[n] /\ registers[n].bitmap \subseteq registers'[n].bitmap
    BY PciTypes DEF TakeIrq, PciIInv
  <1>7. interrupter_index' \in registers'[at].bitmap
    BY <1>1, PciTypes DEF TakeIrq, PciIInv
  <1>8. capabilities_address' \in 0..255
    BY <1>1, PciTypes DEF TakeIrq, Here, Readable
  <1>9. PciTypeOK'
    BY <1>1, <1>4, <1>6, <1>8 DEF table, PciIInv, PciTypeOK, Vectors
  <1>10. kIrqSwBitmap' \subseteq FirstIrq..(FirstIrq + SoftwareIrqs - 1)
    BY <1>2, <1>4 DEF PciIInv
  <1>11. Wired(at, interrupter_index, irq)'
    BY <1>1, <1>4, <1>7 DEF Wired
  <1>12. \A n \in DOMAIN bus : HasInterrupter(n)' => n < at /\ Wired(n, interrupter[n].index, interrupter[n].vector)'
    BY <1>1, <1>4, <1>5, <1>6 DEF PciIInv, Wired, HasInterrupter
  <1>13. DriversInOrder'
    BY <1>1, StayKeepsOrder DEF TakeIrq
  <1>14. QED
    BY <1>13, <1>1, <1>6, <1>9, <1>10, <1>11, <1>12 DEF table, PciIInv

(* The walk along the capabilities changes nothing else.                   *)
LEMMA NextCapabilitySound == ASSUME PciIInv, NextCapability PROVE PciIInv'
PROOF
  <1>1. UNCHANGED <<bus, at, table, pciPc, interrupter_index, irq, apic, registers, interrupter>> /\ at \in DOMAIN bus
    BY DEF NextCapability, PciIInv
  <1>2. capability.next \in 0..255
    <2> DEFINE word == capabilities_address - (capabilities_address % 4)
    <2>1. capability = IF word \in DOMAIN bus[at].caps THEN bus[at].caps[word] ELSE [id |-> 0, next |-> 0]
      BY DEF capability, PciReadCapability, NoCapability, Here
    <2>2. \A a \in DOMAIN bus[at].caps : bus[at].caps[a].next \in 0..255
      BY <1>1, PciTypes DEF Readable
    <2> HIDE DEF word
    <2>3. CASE word \in DOMAIN bus[at].caps
      <3>1. capability = bus[at].caps[word]
        BY <2>1, <2>3
      <3>2. QED
        BY <2>2, <2>3, <3>1
    <2>4. CASE word \notin DOMAIN bus[at].caps
      <3>1. capability = [id |-> 0, next |-> 0]
        BY <2>1, <2>4
      <3>2. QED
        BY <3>1
    <2>5. QED
      BY <2>3, <2>4
  <1>3. capabilities_address' \in 0..255
    <2>1. XCAP_NEXT(capability) \in Nat
      BY <1>2 DEF XCAP_NEXT
    <2>2. capabilities_address \in Nat /\ capabilities_address' = (capabilities_address + XCAP_NEXT(capability)) % 256
      <3>1. capabilities_address \in 0..255
        BY DEF PciIInv, PciTypeOK
      <3>2. QED
        BY <3>1 DEF NextCapability
    <2>3. QED
      BY <2>1, <2>2
  <1>4. PciTypeOK'
    BY <1>1, <1>3 DEF apic, table, PciIInv, PciTypeOK, Vectors
  <1>5. DriversInOrder'
    BY <1>1, StayKeepsOrder DEF NextCapability
  <1>6. QED
    BY <1>5, <1>1, <1>4 DEF apic, table, PciIInv, Wired, HasInterrupter

(* The controller may interrupt from now on, through the IRQ that the call *)
(* took.                                                                   *)
LEMMA CreateInterrupterSound == ASSUME PciIInv, CreateInterrupter PROVE PciIInv'
PROOF
  <1>1. at \in DOMAIN bus /\ pciPc = "walk" /\ Initialized /\ UNCHANGED apic
    BY DEF CreateInterrupter, PciIInv
  <1>2. DOMAIN registers' = DOMAIN registers
        /\ \A n \in DOMAIN bus : "bitmap" \in DOMAIN registers'[n] /\ registers'[n].bitmap = registers[n].bitmap
    BY PciTypes DEF CreateInterrupter, PciIInv
  <1>3. at' \in 1..(Len(bus) + 1) /\ at < at'
    BY <1>1, PciTypes DEF Initialized
  <1>4. /\ DOMAIN interrupter' = DOMAIN interrupter
        /\ interrupter'[at].index = interrupter_index /\ interrupter'[at].vector = irq
        /\ \A n \in DOMAIN bus : n # at => interrupter'[n] = interrupter[n]
    BY <1>1, PciTypes DEF CreateInterrupter
  <1>5. PciTypeOK'
    BY <1>1, <1>2, <1>3, <1>4 DEF Initialized, apic, table, walk, PciIInv, PciTypeOK, Vectors
  <1>6. ASSUME NEW n \in DOMAIN bus, HasInterrupter(n)'
        PROVE  n < at' /\ Wired(n, interrupter[n].index, interrupter[n].vector)'
    <2>1. CASE n = at
      BY <1>1, <1>2, <1>3, <1>4, <2>1 DEF Initialized, apic, PciIInv, Wired
    <2>2. CASE n # at
      <3>1. HasInterrupter(n) /\ interrupter'[n] = interrupter[n]
        BY <1>4, <1>6, <2>2 DEF HasInterrupter
      <3>2. n < at'
        BY <1>3, <3>1, PciTypes DEF PciIInv
      <3>3. QED
        BY <1>1, <1>2, <3>1, <3>2 DEF apic, PciIInv, Wired
    <2>3. QED
      BY <2>1, <2>2
  <1>7. DriversInOrder'
    BY <1>1, PassKeepsOrder DEF CreateInterrupter, Initialized
  <1>8. QED
    BY <1>7, <1>1, <1>2, <1>5, <1>6 DEF Initialized, apic, table, PciIInv

(* Every step of the scan and of the initialisation of a driver keeps the  *)
(* inductive invariant.                                                    *)
LEMMA PciStepSound == PciIInv /\ [PciNext]_pciVars => PciIInv'
PROOF
  <1> SUFFICES ASSUME PciIInv, [PciNext]_pciVars PROVE PciIInv'
    OBVIOUS
  <1>1. CASE InitializeGpu
    BY <1>1, PciInitializedSound DEF InitializeGpu
  <1>2. CASE NoInterrupter
    BY <1>2, PciInitializedSound DEF NoInterrupter
  <1>3. CASE NoMsix
    BY <1>3, PciInitializedSound DEF NoMsix
  <1>4. CASE UNCHANGED pciVars
    <2>1. DriversInOrder'
      BY <1>4, OrderKept DEF pciVars, Visited
    <2>2. QED
      BY <1>4, <2>1 DEF pciVars, apic, table, walk, PciIInv, PciTypeOK, Vectors, Wired, HasInterrupter
  <1>5. QED
    BY <1>1, <1>2, <1>3, <1>4, SkipFunctionSound, LoadDriverSound, ResetSound, BecomeReadySound, XhciSetUpSound, NoIrqSound,
       TakeIrqSound, NextCapabilitySound, CreateInterrupterSound DEF PciNext, Scan, Initialize, PciDone

(***************************************************************************)
(* PciInitialize (pci.c) and XhciInterrupterCreate (xhci.c), for any       *)
(* buses, any number of software IRQs and any size of the table:           *)
(* kLoadedPciDrivers has one entry per accepted function, in the order of  *)
(* the bus, and whenever a controller may send interrupts its IRQ is       *)
(* enabled and leads to its own handler, whichever controllers failed      *)
(* half-way.                                                               *)
(***************************************************************************)
THEOREM EnumerationIsSafe == Spec => [](PciTypeOK /\ DriversInOrder /\ InterruptersReady)
PROOF
  <1>1. Init => PciIInv
    BY PciInitSound DEF Init
  <1>2. PciIInv /\ [Next]_vars => PciIInv'
    <2>1. [Next]_vars => [PciNext]_pciVars
      BY DEF Next, vars
    <2>2. QED
      BY <2>1, PciStepSound
  <1>3. PciIInv => PciTypeOK /\ DriversInOrder /\ InterruptersReady
    BY DEF PciIInv, Wired, InterruptersReady
  <1>4. QED
    BY <1>1, <1>2, <1>3, PTL DEF Spec

(***************************************************************************)
(* Keyboard and mouse.                                                     *)
(***************************************************************************)
(* r is s, of length n, with one or two elements more.                     *)
Longer(r, s, n, S) == r \in Seq(S) /\ s \in Seq(S) /\ n \in Nat /\ Len(s) = n /\ \A k \in 1..n : r[k] = s[k]
PlusOne(r, s, n, x, S) == Longer(r, s, n, S) /\ Len(r) = n + 1 /\ r[n + 1] = x
PlusTwo(r, s, n, x, y, S) == Longer(r, s, n, S) /\ Len(r) = n + 2 /\ r[n + 1] = x /\ r[n + 2] = y

(* What appending one or two elements gives.                               *)
LEMMA Appended ==
  ASSUME NEW S, NEW s \in Seq(S), NEW x \in S, NEW y \in S
  PROVE  PlusOne(s \o <<x>>, s, Len(s), x, S) /\ PlusTwo(s \o <<x, y>>, s, Len(s), x, y, S)
PROOF
  <1> DEFINE t == <<x>>
             u == <<x, y>>
  <1>1. /\ t \in Seq(S) /\ Len(t) = 1 /\ t[1] = x
        /\ u \in Seq(S) /\ Len(u) = 2 /\ u[1] = x /\ u[2] = y /\ Len(s) \in Nat
    OBVIOUS
  <1> HIDE DEF t, u
  <1>2. /\ s \o t \in Seq(S) /\ Len(s \o t) = Len(s) + Len(t)
        /\ \A k \in 1..(Len(s) + Len(t)) : (s \o t)[k] = IF k <= Len(s) THEN s[k] ELSE t[k - Len(s)]
    BY <1>1, ConcatProperties
  <1>3. /\ s \o u \in Seq(S) /\ Len(s \o u) = Len(s) + Len(u)
        /\ \A k \in 1..(Len(s) + Len(u)) : (s \o u)[k] = IF k <= Len(s) THEN s[k] ELSE u[k - Len(s)]
    BY <1>1, ConcatProperties
  <1>4. (s \o t)[Len(s) + 1] = x /\ \A k \in 1..Len(s) : (s \o t)[k] = s[k]
    BY <1>1, <1>2
  <1>5. (s \o u)[Len(s) + 1] = x /\ (s \o u)[Len(s) + 2] = y /\ \A k \in 1..Len(s) : (s \o u)[k] = s[k]
    BY <1>1, <1>3
  <1>6. PlusOne(s \o t, s, Len(s), x, S)
    BY <1>1, <1>2, <1>4 DEF PlusOne, Longer
  <1>7. PlusTwo(s \o u, s, Len(s), x, y, S)
    BY <1>1, <1>3, <1>5 DEF PlusTwo, Longer
  <1>8. QED
    BY <1>6, <1>7 DEF t, u

(* The operations of the set-up, one by one.                               *)
LEMMA SetUpIs ==
  /\ Len(SetUp) = 11
  /\ SetUp[1] = Command("enable mouse")
  /\ SetUp[2] = Command("read config") /\ SetUp[3] = ReadStatus
  /\ SetUp[4] = Command("write config") /\ SetUp[5] = Data("status")
  /\ SetUp[6] = Command("to mouse") /\ SetUp[7] = Data("defaults") /\ SetUp[8] = Read
  /\ SetUp[9] = Command("to mouse") /\ SetUp[10] = Data("report") /\ SetUp[11] = Read
PROOF
  <1> DEFINE a1 == Command("enable mouse")
             a2 == Command("read config")
             a3 == ReadStatus
             a4 == Command("write config")
             a5 == Data("status")
             a6 == Command("to mouse")
             a7 == Data("defaults")
             a8 == Read
             a9 == Data("report")
             S == {a1, a2, a3, a4, a5, a6, a7, a8, a9}
             b1 == <<a1>>
             b2 == b1 \o <<a2, a3>>
             b3 == b2 \o <<a4, a5>>
             b4 == b3 \o <<a6, a7>>
             b5 == b4 \o <<a8>>
             b6 == b5 \o <<a6, a9>>
             b7 == b6 \o <<a8>>
  <1>1. SetUp = b7
    BY DEF SetUp, mouse_write
  <1>2. /\ a1 \in S /\ a2 \in S /\ a3 \in S /\ a4 \in S /\ a5 \in S /\ a6 \in S /\ a7 \in S /\ a8 \in S /\ a9 \in S
    OBVIOUS
  <1> HIDE DEF a1, a2, a3, a4, a5, a6, a7, a8, a9, S
  <1>3. b1 \in Seq(S) /\ Len(b1) = 1 /\ b1[1] = a1
    BY <1>2
  <1> HIDE DEF b1
  <1>4. PlusTwo(b2, b1, 1, a2, a3, S)
    <2>1. PlusTwo(b1 \o <<a2, a3>>, b1, Len(b1), a2, a3, S)
      BY ONLY <1>2, <1>3, Appended
    <2>2. QED
      BY <1>3, <2>1
  <1>5. b2 \in Seq(S) /\ Len(b2) = 3 /\ b2[1] = a1 /\ b2[2] = a2 /\ b2[3] = a3
    BY <1>3, <1>4 DEF PlusTwo, Longer
  <1> HIDE DEF b2
  <1>6. PlusTwo(b3, b2, 3, a4, a5, S)
    <2>1. PlusTwo(b2 \o <<a4, a5>>, b2, Len(b2), a4, a5, S)
      BY ONLY <1>2, <1>5, Appended
    <2>2. QED
      BY <1>5, <2>1
  <1>7. b3 \in Seq(S) /\ Len(b3) = 5 /\ (\A k \in 1..3 : b3[k] = b2[k]) /\ b3[4] = a4 /\ b3[5] = a5
    BY <1>6 DEF PlusTwo, Longer
  <1> HIDE DEF b3
  <1>8. PlusTwo(b4, b3, 5, a6, a7, S)
    <2>1. PlusTwo(b3 \o <<a6, a7>>, b3, Len(b3), a6, a7, S)
      BY ONLY <1>2, <1>7, Appended
    <2>2. QED
      BY <1>7, <2>1
  <1>9. b4 \in Seq(S) /\ Len(b4) = 7 /\ (\A k \in 1..5 : b4[k] = b3[k]) /\ b4[6] = a6 /\ b4[7] = a7
    BY <1>8 DEF PlusTwo, Longer
  <1> HIDE DEF b4
  <1>10. PlusOne(b5, b4, 7, a8, S)
    <2>1. PlusOne(b4 \o <<a8>>, b4, Len(b4), a8, S)
      BY ONLY <1>2, <1>9, Appended
    <2>2. QED
      BY <1>9, <2>1
  <1>11. b5 \in Seq(S) /\ Len(b5) = 8 /\ (\A k \in 1..7 : b5[k] = b4[k]) /\ b5[8] = a8
    BY <1>10 DEF PlusOne, Longer
  <1> HIDE DEF b5
  <1>12. PlusTwo(b6, b5, 8, a6, a9, S)
    <2>1. PlusTwo(b5 \o <<a6, a9>>, b5, Len(b5), a6, a9, S)
      BY ONLY <1>2, <1>11, Appended
    <2>2. QED
      BY <1>11, <2>1
  <1>13. b6 \in Seq(S) /\ Len(b6) = 10 /\ (\A k \in 1..8 : b6[k] = b5[k]) /\ b6[9] = a6 /\ b6[10] = a9
    BY <1>12 DEF PlusTwo, Longer
  <1> HIDE DEF b6
  <1>14. PlusOne(b7, b6, 10, a8, S)
    <2>1. PlusOne(b6 \o <<a8>>, b6, Len(b6), a8, S)
      BY ONLY <1>2, <1>13, Appended
    <2>2. QED
      BY <1>13, <2>1
  <1>15. Len(b7) = 11 /\ (\A k \in 1..10 : b7[k] = b6[k]) /\ b7[11] = a8
    BY <1>14 DEF PlusOne, Longer
  <1> HIDE DEF b7
  <1>16. /\ b7[1] = a1 /\ b7[2] = a2 /\ b7[3] = a3 /\ b7[4] = a4 /\ b7[5] = a5 /\ b7[6] = a6
         /\ b7[7] = a7 /\ b7[8] = a8 /\ b7[9] = a6 /\ b7[10] = a9
    BY <1>5, <1>7, <1>9, <1>11, <1>13, <1>15
  <1>17. QED
    BY <1>1, <1>15, <1>16 DEF a1, a2, a3, a4, a5, a6, a7, a8, a9

(* The fields of an operation.                                             *)
LEMMA OpsAre ==
  /\ \A c : Command(c).op = "command" /\ Command(c).arg = c /\ Data(c).op = "data" /\ Data(c).arg = c
  /\ Read.op = "read" /\ Read.arg = "discard" /\ ReadStatus.op = "read" /\ ReadStatus.arg = "status"
PROOF
  BY DEF Command, Data, Read, ReadStatus

OpAt(k) == SetUp[k].op
ArgAt(k) == SetUp[k].arg

(* The set-up has eleven operations.                                       *)
LEMMA SetUpLength == Len(SetUp) = 11
PROOF
  BY SetUpIs

(* The operation and the argument of every step of the set-up.             *)
LEMMA SetUpOps ==
  /\ OpAt(1) = "command" /\ ArgAt(1) = "enable mouse"
  /\ OpAt(2) = "command" /\ ArgAt(2) = "read config"
  /\ OpAt(3) = "read" /\ ArgAt(3) = "status"
  /\ OpAt(4) = "command" /\ ArgAt(4) = "write config"
  /\ OpAt(5) = "data" /\ ArgAt(5) = "status"
  /\ OpAt(6) = "command" /\ ArgAt(6) = "to mouse"
  /\ OpAt(7) = "data" /\ ArgAt(7) = "defaults"
  /\ OpAt(8) = "read" /\ ArgAt(8) = "discard"
  /\ OpAt(9) = "command" /\ ArgAt(9) = "to mouse"
  /\ OpAt(10) = "data" /\ ArgAt(10) = "report"
  /\ OpAt(11) = "read" /\ ArgAt(11) = "discard"
PROOF
  <1>1. OpAt(1) = "command" /\ ArgAt(1) = "enable mouse"
    <2>1. SetUp[1] = Command("enable mouse")
      BY SetUpIs
    <2>2. QED
      BY <2>1, OpsAre, Zenon DEF OpAt, ArgAt
  <1>2. OpAt(2) = "command" /\ ArgAt(2) = "read config"
    <2>1. SetUp[2] = Command("read config")
      BY SetUpIs
    <2>2. QED
      BY <2>1, OpsAre, Zenon DEF OpAt, ArgAt
  <1>3. OpAt(3) = "read" /\ ArgAt(3) = "status"
    <2>1. SetUp[3] = ReadStatus
      BY SetUpIs
    <2>2. QED
      BY <2>1, OpsAre, Zenon DEF OpAt, ArgAt
  <1>4. OpAt(4) = "command" /\ ArgAt(4) = "write config"
    <2>1. SetUp[4] = Command("write config")
      BY SetUpIs
    <2>2. QED
      BY <2>1, OpsAre, Zenon DEF OpAt, ArgAt
  <1>5. OpAt(5) = "data" /\ ArgAt(5) = "status"
    <2>1. SetUp[5] = Data("status")
      BY SetUpIs
    <2>2. QED
      BY <2>1, OpsAre, Zenon DEF OpAt, ArgAt
  <1>6. OpAt(6) = "command" /\ ArgAt(6) = "to mouse"
    <2>1. SetUp[6] = Command("to mouse")
      BY SetUpIs
    <2>2. QED
      BY <2>1, OpsAre, Zenon DEF OpAt, ArgAt
  <1>7. OpAt(7) = "data" /\ ArgAt(7) = "defaults"
    <2>1. SetUp[7] = Data("defaults")
      BY SetUpIs
    <2>2. QED
      BY <2>1, OpsAre, Zenon DEF OpAt, ArgAt
  <1>8. OpAt(8) = "read" /\ ArgAt(8) = "discard"
    <2>1. SetUp[8] = Read
      BY SetUpIs
    <2>2. QED
      BY <2>1, OpsAre, Zenon DEF OpAt, ArgAt
  <1>9. OpAt(9) = "command" /\ ArgAt(9) = "to mouse"
    <2>1. SetUp[9] = Command("to mouse")
      BY SetUpIs
    <2>2. QED
      BY <2>1, OpsAre, Zenon DEF OpAt, ArgAt
  <1>10. OpAt(10) = "data" /\ ArgAt(10) = "report"
    <2>1. SetUp[10] = Data("report")
      BY SetUpIs
    <2>2. QED
      BY <2>1, OpsAre, Zenon DEF OpAt, ArgAt
  <1>11. OpAt(11) = "read" /\ ArgAt(11) = "discard"
    <2>1. SetUp[11] = Read
      BY SetUpIs
    <2>2. QED
      BY <2>1, OpsAre, Zenon DEF OpAt, ArgAt
  <1>12. QED
    BY <1>1, <1>2, <1>3, <1>4, <1>5, <1>6, <1>7, <1>8, <1>9, <1>10, <1>11

(* KeMain has not begun and the mouse has nothing to send.                 *)
LEMMA Ps2InitSound == Ps2Init => Ps2IInv
PROOF
  <1> SUFFICES ASSUME Ps2Init PROVE Ps2IInv
    OBVIOUS
  <1>1. Byte({}) \in Bytes
    BY DEF Byte, Bytes, NoPosition
  <1>2. out \in [full : BOOLEAN, from : {"kbd", "aux"}, byte : Bytes] /\ out.full = FALSE
    BY <1>1 DEF Ps2Init
  <1>3. mouse_byte \in [0..2 -> -1..2] /\ keys \in 0..MaxKeys /\ moves \in 0..MaxMoves /\ config \subseteq Bits
    BY Ps2Assumption DEF Ps2Init, NoPosition
  <1>8. ps2Pc \in 1..(Len(SetUp) + 2) /\ in.port \in {0, 96, 100}
    <2>1. Len(SetUp) = 11
      BY SetUpIs
    <2>2. QED
      BY <2>1 DEF Ps2Init, Nothing
  <1>4. irq12 \in BOOLEAN /\ reporting \in BOOLEAN /\ disturbed \in BOOLEAN
    BY DEF Ps2Init
  <1>5. Ps2TypeOK
    BY <1>2, <1>3, <1>4, <1>8 DEF Ps2Init, Ps2TypeOK
  <1>6. SettingUp
    BY <1>2 DEF Ps2Init, SettingUp, Answered, Copied, WrittenBack
  <1>7. QED
    BY <1>2, <1>5, <1>6 DEF Ps2Init, Ps2IInv, Nothing

(* Which steps of the set-up write and which read.                         *)
LEMMA WhereItIs ==
  ASSUME ps2Pc \in Nat, ps2Pc > 0, ps2Pc <= Len(SetUp)
  PROVE  /\ OpAt(ps2Pc) = "read" => ps2Pc \in {3, 8, 11}
         /\ OpAt(ps2Pc) \in {"command", "data"} => ps2Pc \in {1, 2, 4, 5, 6, 7, 9, 10}
PROOF
  <1>1. ps2Pc \in {1, 2, 3, 4, 5, 6, 7, 8, 9, 10, 11}
    BY SetUpLength
  <1>2. QED
    BY <1>1, SetUpOps

(* A byte under way is not nothing.                                        *)
LEMMA OrderIs == \A k : Order(k) # Nothing /\ Order(k).bits = _status /\ Order(k).port # 0 /\ Order(k).arg = ArgAt(k)
PROOF
  BY DEF Order, Nothing, ArgAt

(* The phase an undisturbed set-up is in.                                  *)
Phase == (irq12 /\ Reporting) \/ (~irq12 /\ SettingUp)

(* The types, without the mouse's.                                         *)
LEMMA Ps2Types ==
  ASSUME Ps2IInv
  PROVE  /\ ps2Pc \in 1..13 /\ ps2Pc \in Nat
         /\ out.byte \in Bytes /\ out.byte.bits \subseteq Bits /\ out.byte.pos \in -1..2
         /\ out.full \in BOOLEAN /\ irq12 \in BOOLEAN /\ disturbed \in BOOLEAN /\ reporting \in BOOLEAN
         /\ disturbed \/ Phase
PROOF
  <1>1. ps2Pc \in 1..13 /\ ps2Pc \in Nat
    BY SetUpLength DEF Ps2IInv, Ps2TypeOK
  <1>2. out.byte \in Bytes /\ out.byte.bits \subseteq Bits /\ out.byte.pos \in -1..2
    BY DEF Ps2IInv, Bytes
  <1>3. out.full \in BOOLEAN /\ irq12 \in BOOLEAN /\ disturbed \in BOOLEAN /\ reporting \in BOOLEAN
    BY DEF Ps2IInv, Ps2TypeOK
  <1>4. disturbed \/ Phase
    BY DEF Ps2IInv, Phase
  <1>5. QED
    BY <1>1, <1>2, <1>3, <1>4

(* Packets are reported when the set-up is over.                           *)
LEMMA ReportingAt == Reporting => ps2Pc = 13
PROOF
  BY DEF Reporting

(* KeMain writes a byte to the controller, which in an undisturbed set-up  *)
(* has processed the one before.                                           *)
LEMMA WriteSound == ASSUME Ps2IInv, Write PROVE Ps2IInv'
PROOF
  <1>1. /\ ps2Pc <= Len(SetUp) /\ OpAt(ps2Pc) \in {"command", "data"} /\ ps2Pc' = ps2Pc + 1
        /\ in' = [port |-> IF OpAt(ps2Pc) = "command" THEN 100 ELSE 96, arg |-> ArgAt(ps2Pc), bits |-> _status]
        /\ UNCHANGED <<_status, irq12, mouse_cycle, mouse_byte, pending, out, expects, config, aux, reporting, keys, moves>>
    BY DEF Write, Main, mouse, device, OpAt, ArgAt
  <1>2. ps2Pc \in {1, 2, 4, 5, 6, 7, 9, 10}
    BY <1>1, Ps2Types, WhereItIs
  <1>3. disturbed' \in BOOLEAN /\ (~disturbed' => ~disturbed /\ in = Nothing)
    BY DEF Write, mouse_wait, Quiet
  <1>4. Ps2TypeOK' /\ in'.bits \subseteq Bits
    <2>1. ps2Pc' \in 1..(Len(SetUp) + 2) /\ in'.port \in {0, 96, 100} /\ in'.bits = _status
      BY <1>1, <1>2, SetUpLength
    <2>2. QED
      BY <1>1, <1>3, <2>1 DEF Ps2IInv, Ps2TypeOK
  <1>5. ASSUME ~disturbed' PROVE ~irq12' /\ SettingUp'
    <2>1. ~irq12 /\ SettingUp /\ in = Nothing
      <3>1. ~Reporting
        BY <1>1, <1>2, ReportingAt
      <3>2. QED
        BY <1>3, <1>5, <3>1, Ps2Types DEF Phase
    <2>2. Answered
      BY <2>1, OrderIs DEF SettingUp, Ordered
    <2>3. aux = <<>> /\ ~out.full /\ pending = 0
      BY <1>2, <2>2 DEF Answered
    <2>4. in' = Order(ps2Pc - 1)'
      <3>1. ps2Pc' - 1 = ps2Pc
        BY <1>1, Ps2Types
      <3>2. QED
        BY <1>1, <3>1 DEF Order, OpAt, ArgAt
    <2>5. Ordered'
      <3>1. ps2Pc' \in {2, 3, 5, 6, 7, 8, 10, 11}
        BY <1>1, <1>2
      <3>2. expects' = IF ps2Pc' = 6 THEN "config" ELSE IF ps2Pc' \in {8, 11} THEN "mouse" ELSE "keyboard"
        BY <1>1, <1>2, <2>2 DEF Answered
      <3>3. QED
        BY <1>1, <2>3, <2>4, <3>1, <3>2 DEF Ordered
    <2>6. Copied' => Copied
      BY <1>1, <1>2 DEF Copied
    <2>7. WrittenBack' => WrittenBack
      <3>1. in' # Nothing
        BY <1>1 DEF Nothing
      <3>2. QED
        BY <1>1, <1>2, <2>1, <3>1 DEF WrittenBack
    <2>8. QED
      BY <1>1, <2>1, <2>5, <2>6, <2>7 DEF SettingUp
  <1>6. QED
    BY <1>1, <1>4, <1>5 DEF Ps2IInv

(* KeMain reads the answer, or the port again when the keyboard's handler  *)
(* was first; the copy that it takes is the configuration.                 *)
LEMMA ReadDataSound == ASSUME Ps2IInv, ReadData PROVE Ps2IInv'
PROOF
  <1>0. _status' = IF ArgAt(ps2Pc) = "status" THEN out.byte.bits \cup {"aux int"} ELSE _status
    BY DEF ReadData, ArgAt
  <1>1. /\ ps2Pc <= Len(SetUp) /\ OpAt(ps2Pc) = "read" /\ ps2Pc' = ps2Pc + 1 /\ pending = 0
        /\ UNCHANGED <<irq12, mouse_cycle, mouse_byte, pending, in, expects, config, aux, reporting, keys, moves>>
    BY DEF ReadData, Main, mouse, device, OpAt, ArgAt
  <1>2. ps2Pc \in {3, 8, 11}
    BY <1>1, Ps2Types, WhereItIs
  <1>3. disturbed' \in BOOLEAN /\ (~disturbed' => ~disturbed /\ (out.full \/ (in = Nothing /\ aux = <<>>)))
    BY DEF ReadData, mouse_wait, Quiet
  <1>4. out' \in [full : BOOLEAN, from : {"kbd", "aux"}, byte : Bytes] /\ ~out'.full /\ out'.byte = out.byte
    BY DEF ReadData, Ps2IInv
  <1>5. _status' \subseteq Bits
    BY <1>0, Ps2Types DEF Ps2IInv, Ps2TypeOK, Bits
  <1>6. Ps2TypeOK'
    <2>1. ps2Pc' \in 1..(Len(SetUp) + 2)
      BY <1>1, <1>2, SetUpLength
    <2>2. QED
      BY <1>1, <1>3, <1>4, <1>5, <2>1 DEF Ps2IInv, Ps2TypeOK
  <1>7. ASSUME ~disturbed' PROVE ~irq12' /\ SettingUp'
    <2>1. ~irq12 /\ SettingUp /\ (out.full \/ (in = Nothing /\ aux = <<>>))
      <3>1. ~Reporting
        BY <1>1, <1>2, ReportingAt
      <3>2. QED
        BY <1>3, <1>7, <3>1, Ps2Types DEF Phase
    <2>2. Answered
      <3>1. Ordered => ~out.full /\ in # Nothing
        BY OrderIs DEF Ordered
      <3>2. QED
        BY <2>1, <3>1 DEF SettingUp
    <2>3. aux = <<>>
      <3>1. CASE ps2Pc = 3
        BY <2>2, <3>1 DEF Answered
      <3>2. CASE ps2Pc \in {8, 11}
        <4>1. out.full => aux = <<>>
          BY <2>2, <3>2 DEF Answered
        <4>2. QED
          BY <2>1, <4>1
      <3>3. QED
        BY <1>2, <3>1, <3>2
    <2>4. Answered'
      <3>1. ps2Pc' \in {4, 9, 12} /\ ps2Pc' \in 1..12 \ {3, 8, 11}
        BY <1>1, <1>2
      <3>2. expects' = IF ps2Pc' = 5 THEN "config" ELSE IF ps2Pc' \in {7, 10} THEN "mouse" ELSE "keyboard"
        BY <1>1, <1>2, <2>2, <3>1 DEF Answered
      <3>3. QED
        BY <1>1, <1>4, <2>2, <2>3, <3>1, <3>2 DEF Answered
    <2>5. Copied' => _status' = config' \cup {"aux int"}
      <3>1. Copied' => ps2Pc = 3
        BY <1>1, <1>2 DEF Copied
      <3>2. ps2Pc = 3 => out.byte.bits = config
        BY <2>2 DEF Answered
      <3>3. QED
        BY <1>0, <1>1, <3>1, <3>2, SetUpOps
    <2>6. WrittenBack' => WrittenBack
      BY <1>1, <1>2 DEF WrittenBack
    <2>7. QED
      BY <1>1, <2>1, <2>4, <2>5, <2>6 DEF SettingUp
  <1>8. QED
    BY <1>1, <1>4, <1>6, <1>7 DEF Ps2IInv

(* The last acknowledgement has been read when IRQ 12 is enabled.          *)
LEMMA EnableMouseIrqSound == ASSUME Ps2IInv, EnableMouseIrq PROVE Ps2IInv'
PROOF
  <1>1. ps2Pc = 12 /\ ps2Pc' = 13 /\ pending = 0
    BY SetUpLength DEF EnableMouseIrq
  <1>2. UNCHANGED <<_status, mouse_cycle, mouse_byte, pending, out, in, expects, config, aux, reporting, keys, moves, disturbed>>
    BY DEF EnableMouseIrq, mouse, device
  <1>3. irq12' \in BOOLEAN /\ irq12'
    BY DEF EnableMouseIrq
  <1>4. Ps2TypeOK'
    BY <1>1, <1>2, <1>3, SetUpLength DEF Ps2IInv, Ps2TypeOK
  <1>5. ASSUME ~disturbed PROVE Reporting'
    <2>1. SettingUp
      BY <1>1, <1>5, Ps2Types, ReportingAt DEF Phase
    <2>2. Answered /\ WrittenBack
      <3>1. ~Ordered
        BY <1>1 DEF Ordered
      <3>2. WrittenBack
        BY <1>1 DEF WrittenBack
      <3>3. QED
        BY <2>1, <3>1, <3>2 DEF SettingUp
    <2>3. in = Nothing /\ aux = <<>>
      BY <1>1, <2>2 DEF Answered
    <2>4. "aux int" \in config /\ mouse_cycle = 0 /\ \A k \in 0..2 : mouse_byte[k] = NoPosition
      BY <2>1, <2>2 DEF SettingUp
    <2>5. Chain(aux, 0)
      BY <2>3 DEF Chain
    <2>6. pending' = 0 /\ aux' = aux /\ in' = Nothing /\ config' = config /\ mouse_cycle' = 0
      BY <1>1, <1>2, <2>3, <2>4
    <2>7. Chain(aux, Due)'
      <3>1. Due' = 0
        BY <2>6 DEF Due
      <3>2. QED
        BY <2>5, <2>6, <3>1 DEF Chain
    <2>8. pending' = 12 => out'.byte.pos = mouse_cycle'
      BY <2>6
    <2>9. \A k \in 0..2 : mouse_byte'[k] \in {NoPosition, k}
      BY <1>2, <2>4
    <2>10. QED
      BY <1>1, <2>4, <2>6, <2>7, <2>8, <2>9 DEF Reporting
  <1>6. QED
    BY <1>2, <1>3, <1>4, <1>5 DEF Ps2IInv

(* The first byte of a chain is taken.                                     *)
LEMMA ChainTail ==
  ASSUME NEW s \in Seq(Bytes), s # <<>>, NEW k \in 0..2, Chain(s, k)
  PROVE  /\ Head(s) \in Bytes /\ Head(s).pos = k /\ Tail(s) \in Seq(Bytes) /\ Chain(Tail(s), Following(k))
PROOF
  <1> DEFINE n == Len(s)
             t == Tail(s)
  <1>1. n \in Nat /\ n > 0 /\ \A m \in 1..n : s[m] \in Bytes
    OBVIOUS
  <1>2. Head(s) = s[1] /\ t \in Seq(Bytes) /\ Len(t) = n - 1 /\ \A m \in 1..(n - 1) : t[m] = s[m + 1]
    BY <1>1
  <1>3. s[1].pos = k /\ s[n].pos = 2 /\ \A m \in 1..(n - 1) : s[m + 1].pos = Following(s[m].pos)
    BY DEF Chain
  <1> HIDE DEF n, t
  <1>4. t = <<>> => Following(k) = 0
    <2> SUFFICES ASSUME t = <<>> PROVE Following(k) = 0
      OBVIOUS
    <2>1. Len(t) = 0
      OBVIOUS
    <2>2. n = 1
      BY <1>1, <1>2, <2>1
    <2>3. QED
      BY <1>3, <2>2 DEF Following
  <1>5. t # <<>> => t[1].pos = Following(k) /\ t[Len(t)].pos = 2
    <2> SUFFICES ASSUME t # <<>> PROVE t[1].pos = Following(k) /\ t[Len(t)].pos = 2
      OBVIOUS
    <2>1. Len(t) # 0
      BY <1>2
    <2>2. 1 \in 1..(n - 1) /\ n - 1 \in 1..(n - 1) /\ (n - 1) + 1 = n /\ 1 + 1 = 2
      BY <1>1, <1>2, <2>1
    <2>3. t[1] = s[1 + 1] /\ t[n - 1] = s[(n - 1) + 1]
      BY <1>2, <2>2
    <2>4. QED
      BY <1>2, <1>3, <2>2, <2>3
  <1>6. ASSUME NEW m \in 1..(Len(t) - 1) PROVE t[m + 1].pos = Following(t[m].pos)
    <2>1. m \in 1..(n - 1) /\ m + 1 \in 1..(n - 1)
      BY <1>1, <1>2
    <2>2. t[m] = s[m + 1] /\ t[m + 1] = s[(m + 1) + 1]
      BY <1>2, <2>1
    <2>3. QED
      BY <1>3, <2>1, <2>2
  <1>7. Chain(t, Following(k))
    BY <1>4, <1>5, <1>6 DEF Chain
  <1>8. Head(s) \in Bytes /\ Head(s).pos = k
    BY <1>1, <1>2, <1>3
  <1>9. QED
    BY <1>2, <1>7, <1>8 DEF t

(* The bytes of a movement.                                                *)
Packet == [k \in 1..3 |-> [bits |-> {}, pos |-> k - 1]]

(* The three bytes of a packet, in order.                                  *)
LEMMA PacketIs ==
  /\ Packet \in Seq(Bytes) /\ Len(Packet) = 3
  /\ Packet[1].pos = 0 /\ Packet[2].pos = 1 /\ Packet[3].pos = 2
PROOF
  <1>1. \A k \in 1..3 : [bits |-> {}, pos |-> k - 1] \in Bytes
    BY DEF Bytes
  <1>2. Packet \in [1..3 -> Bytes]
    BY <1>1 DEF Packet
  <1>3. Packet \in Seq(Bytes) /\ Len(Packet) = 3
    <2>1. DOMAIN Packet = 1..3 /\ \A k \in 1..3 : Packet[k] \in Bytes
      BY <1>2
    <2>2. Packet \in Seq(Bytes)
      BY <1>2, IsASeq DEF Packet
    <2>3. QED
      BY <2>1, <2>2, LenProperties
  <1>4. Packet[1].pos = 0 /\ Packet[2].pos = 1 /\ Packet[3].pos = 2
    BY DEF Packet
  <1>5. QED
    BY <1>3, <1>4

(* A whole packet follows a chain.                                         *)
LEMMA ChainMore ==
  ASSUME NEW s \in Seq(Bytes), NEW k \in 0..2, Chain(s, k)
  PROVE  s \o Packet \in Seq(Bytes) /\ Chain(s \o Packet, k)
PROOF
  <1> DEFINE n == Len(s)
             t == s \o Packet
  <1>1. n \in Nat /\ (s = <<>> <=> n = 0)
    OBVIOUS
  <1>2. /\ t \in Seq(Bytes) /\ Len(t) = n + 3
        /\ \A m \in 1..(n + 3) : t[m] = IF m <= n THEN s[m] ELSE Packet[m - n]
    <2>1. /\ s \o Packet \in Seq(Bytes) /\ Len(s \o Packet) = Len(s) + Len(Packet)
          /\ \A m \in 1..(Len(s) + Len(Packet)) : (s \o Packet)[m] = IF m <= Len(s) THEN s[m] ELSE Packet[m - Len(s)]
      BY PacketIs, ConcatProperties
    <2>2. QED
      BY <2>1, PacketIs
  <1>3. /\ n = 0 => k = 0
        /\ n # 0 => s[1].pos = k /\ s[n].pos = 2
        /\ \A m \in 1..(n - 1) : s[m + 1].pos = Following(s[m].pos)
    BY <1>1 DEF Chain
  <1> HIDE DEF n, t
  <1>4. /\ \A m \in 1..n : t[m] = s[m]
        /\ t[n + 1] = Packet[1] /\ t[n + 2] = Packet[2] /\ t[n + 3] = Packet[3]
    BY <1>1, <1>2
  <1>5. t # <<>>
    BY <1>1, <1>2
  <1>6. t[1].pos = k
    <2>1. CASE n = 0
      BY <1>3, <1>4, <2>1, PacketIs
    <2>2. CASE n # 0
      BY <1>1, <1>3, <1>4, <2>2
    <2>3. QED
      BY <2>1, <2>2
  <1>7. t[Len(t)].pos = 2
    BY <1>2, <1>4, PacketIs
  <1>8. ASSUME NEW m \in 1..(Len(t) - 1) PROVE t[m + 1].pos = Following(t[m].pos)
    <2>1. m \in 1..(n + 2)
      BY <1>1, <1>2
    <2>2. CASE m \in 1..(n - 1)
      <3>1. m \in 1..n /\ m + 1 \in 1..n
        BY <1>1, <2>2
      <3>2. QED
        BY <1>3, <1>4, <2>2, <3>1
    <2>3. CASE m = n
      <3>1. n \in 1..n /\ n # 0
        BY <1>1, <2>1, <2>3
      <3>2. t[m].pos = 2 /\ t[m + 1].pos = 0
        BY <1>3, <1>4, <2>3, <3>1, PacketIs
      <3>3. QED
        BY <3>2 DEF Following
    <2>4. CASE m = n + 1
      <3>1. m + 1 = n + 2
        BY <1>1, <2>4
      <3>2. t[m].pos = 0 /\ t[m + 1].pos = 1
        BY <1>4, <2>4, <3>1, PacketIs
      <3>3. QED
        BY <3>2 DEF Following
    <2>5. CASE m = n + 2
      <3>1. m + 1 = n + 3
        BY <1>1, <2>5
      <3>2. t[m].pos = 1 /\ t[m + 1].pos = 2
        BY <1>4, <2>5, <3>1, PacketIs
      <3>3. QED
        BY <3>2 DEF Following
    <2>6. QED
      BY <1>1, <2>1, <2>2, <2>3, <2>4, <2>5
  <1>9. Chain(t, k)
    BY <1>5, <1>6, <1>7, <1>8 DEF Chain
  <1>10. QED
    BY <1>2, <1>9 DEF t

(* What the set-up and the reports of the mouse depend on.                 *)
LEMMA SettingUpIs ==
  ASSUME SettingUp
  PROVE  /\ in # Nothing => Ordered
         /\ in = Nothing => Answered
         /\ pending \in {0, 1} /\ (pending = 1 => Answered /\ ps2Pc = 3)
         /\ Copied => _status = config \cup {"aux int"}
         /\ WrittenBack => "aux int" \in config
PROOF
  <1>1. Ordered => in # Nothing /\ pending = 0
    BY OrderIs DEF Ordered
  <1>2. Answered => in = Nothing /\ pending \in {0, 1} /\ (pending = 1 => ps2Pc = 3)
    BY DEF Answered
  <1>3. Ordered \/ Answered
    BY DEF SettingUp
  <1>4. /\ Copied => _status = config \cup {"aux int"}
        /\ WrittenBack => "aux int" \in config
    BY DEF SettingUp
  <1>5. /\ in # Nothing => Ordered
        /\ in = Nothing => Answered
    BY <1>1, <1>2, <1>3
  <1>6. pending \in {0, 1} /\ (pending = 1 => Answered /\ ps2Pc = 3)
    BY <1>1, <1>2, <1>3
  <1>7. QED
    BY <1>4, <1>5, <1>6

(* What keeps the mouse's reports going.                                   *)
LEMMA ReportingKept ==
  ASSUME Reporting, ps2Pc' = ps2Pc, in' = in, "aux int" \in config',
         pending' = 12 => out'.byte.pos = mouse_cycle', Chain(aux, Due)',
         \A k \in 0..2 : mouse_byte'[k] \in {NoPosition, k}
  PROVE  Reporting'
PROOF
  BY DEF Reporting

(* What is so while the mouse reports.                                     *)
LEMMA ReportingGives ==
  ASSUME Reporting
  PROVE  /\ in = Nothing /\ ps2Pc = 13 /\ "aux int" \in config /\ Chain(aux, Due)
         /\ pending = 12 => out.byte.pos = mouse_cycle
         /\ \A k \in 0..2 : mouse_byte[k] \in {NoPosition, k}
PROOF
  BY DEF Reporting

(* The mouse's bytes are as they were.                                     *)
LEMMA ChainSame == ASSUME Chain(aux, Due), aux' = aux, Due' = Due PROVE Chain(aux, Due)'
PROOF
  BY DEF Chain

(* What keeps the set-up going.                                            *)
LEMMA MouseUntouched ==
  ASSUME SettingUp, UNCHANGED <<mouse_cycle, mouse_byte>>,
         (Ordered \/ Answered)', (Copied => _status = config \cup {"aux int"})', (WrittenBack => "aux int" \in config)'
  PROVE  SettingUp'
PROOF
  BY DEF SettingUp

(* The keyboard's handler reads the port: a key, or the controller's       *)
(* reply, which the port gives again.                                      *)
LEMMA Ps2KeyboardHandlerSound == ASSUME Ps2IInv, Ps2KeyboardHandler PROVE Ps2IInv'
PROOF
  <1>1. pending = 1 /\ pending' = 0
    BY DEF Ps2KeyboardHandler, Taken
  <1>2. UNCHANGED <<ps2Pc, _status, irq12, mouse_cycle, mouse_byte, in, expects, config, aux, reporting, keys, moves, disturbed>>
    BY DEF Ps2KeyboardHandler, Taken, main, mouse, device
  <1>3. out' \in [full : BOOLEAN, from : {"kbd", "aux"}, byte : Bytes] /\ ~out'.full /\ out'.byte = out.byte
    BY DEF Ps2KeyboardHandler, Taken, Ps2IInv
  <1>4. Ps2TypeOK'
    BY <1>1, <1>2, <1>3 DEF Ps2IInv, Ps2TypeOK
  <1>5. ASSUME SettingUp PROVE SettingUp'
    <2>1. Answered /\ ps2Pc = 3
      BY <1>1, <1>5, SettingUpIs
    <2>2. Answered'
      BY <1>1, <1>2, <1>3, <2>1 DEF Answered
    <2>3. Copied' = Copied /\ WrittenBack' = WrittenBack
      BY <1>2 DEF Copied, WrittenBack
    <2>4. QED
      BY <1>2, <1>5, <2>2, <2>3 DEF SettingUp
  <1>6. ASSUME Reporting PROVE Reporting'
    <2>1. Due' = Due
      BY <1>1, <1>2 DEF Due
    <2>2. /\ ps2Pc' = ps2Pc /\ in' = in /\ config' = config /\ aux' = aux /\ mouse_byte' = mouse_byte
      BY <1>2
    <2>3. Chain(aux, Due)'
      BY <1>6, <2>1, <2>2, ReportingGives, ChainSame
    <2>4. pending' # 12
      BY <1>1
    <2>5. QED
      BY <1>6, <2>2, <2>3, <2>4, ReportingKept, ReportingGives
  <1>7. QED
    BY <1>2, <1>3, <1>4, <1>5, <1>6 DEF Ps2IInv

(* The mouse's handler stores a byte at its position in the packet.        *)
LEMMA Ps2MouseHandlerSound == ASSUME Ps2IInv, Ps2MouseHandler PROVE Ps2IInv'
PROOF
  <1>1. pending = 12 /\ pending' = 0
    BY DEF Ps2MouseHandler, Taken
  <1>2. UNCHANGED <<ps2Pc, _status, irq12, in, expects, config, aux, reporting, keys, moves, disturbed>>
    BY DEF Ps2MouseHandler, Taken, main, device
  <1>3. out' \in [full : BOOLEAN, from : {"kbd", "aux"}, byte : Bytes]
    BY DEF Ps2MouseHandler, Taken, Ps2IInv
  <1>4. /\ mouse_byte \in [0..2 -> -1..2] /\ mouse_cycle \in 0..2
        /\ mouse_byte' = [mouse_byte EXCEPT ![mouse_cycle] = out.byte.pos]
        /\ mouse_cycle' = Following(mouse_cycle)
    BY DEF Ps2MouseHandler, Ps2IInv, Ps2TypeOK, Following
  <1>5. mouse_byte' \in [0..2 -> -1..2] /\ mouse_cycle' \in 0..2
    BY <1>4, Ps2Types DEF Following
  <1>6. Ps2TypeOK'
    <2>1. out'.full \in BOOLEAN /\ out'.from \in {"kbd", "aux"} /\ pending' \in {0, 1, 12}
      BY <1>1, <1>3
    <2>2. QED
      BY <1>2, <1>5, <2>1 DEF Ps2IInv, Ps2TypeOK
  <1>7. ~SettingUp
    BY <1>1, SettingUpIs
  <1>8. ASSUME Reporting PROVE Reporting'
    <2>1. Due' = Due
      BY <1>1, <1>4 DEF Due
    <2>2. /\ ps2Pc' = ps2Pc /\ in' = in /\ config' = config /\ aux' = aux /\ pending' # 12
      BY <1>1, <1>2
    <2>3. out.byte.pos = mouse_cycle /\ \A k \in 0..2 : mouse_byte[k] \in {NoPosition, k}
      BY <1>1, <1>8 DEF Reporting
    <2>4. \A k \in 0..2 : mouse_byte'[k] \in {NoPosition, k}
      BY <1>4, <2>3
    <2>5. Chain(aux, Due)'
      BY <1>8, <2>1, <2>2, ReportingGives, ChainSame
    <2>6. QED
      BY <1>8, <2>2, <2>4, <2>5, ReportingKept, ReportingGives
  <1>9. QED
    BY <1>2, <1>3, <1>6, <1>7, <1>8 DEF Ps2IInv

(* The controller fills its output byte.                                   *)
LEMMA FillIs ==
  ASSUME Ps2IInv, NEW from \in {"kbd", "aux"}, NEW b \in Bytes, Fill(from, b)
  PROVE  /\ pending = 0 /\ ~out.full /\ pending' \in {0, 1, 12}
         /\ out' \in [full : BOOLEAN, from : {"kbd", "aux"}, byte : Bytes] /\ out'.full /\ out'.byte = b
         /\ out'.full \in BOOLEAN /\ out'.from \in {"kbd", "aux"}
         /\ from = "kbd" => pending' \in {0, 1}
         /\ from = "aux" /\ "aux int" \in config /\ irq12 => pending' = 12
         /\ from = "aux" /\ ~irq12 => pending' = 0
PROOF
  <1>1. pending = 0 /\ ~out.full /\ out' = [full |-> TRUE, from |-> from, byte |-> b]
    BY DEF Fill
  <1>2. /\ out' \in [full : BOOLEAN, from : {"kbd", "aux"}, byte : Bytes] /\ out'.full /\ out'.byte = b
        /\ out'.full \in BOOLEAN /\ out'.from \in {"kbd", "aux"}
    BY <1>1
  <1>3. pending' = CASE from = "kbd" /\ "kbd int" \in config -> 1
                     [] from = "aux" /\ "aux int" \in config /\ irq12 -> 12
                     [] OTHER -> 0
    BY DEF Fill
  <1>4. CASE from = "kbd"
    BY <1>1, <1>2, <1>3, <1>4
  <1>5. CASE from = "aux"
    BY <1>1, <1>2, <1>3, <1>5
  <1>6. QED
    BY <1>4, <1>5

(* A byte that KeMain wrote in an undisturbed set-up.                      *)
LEMMA OrderedAt ==
  ASSUME Ps2IInv, ~disturbed, in.port # 0
  PROVE  /\ SettingUp /\ ~irq12 /\ Ordered /\ in.bits = _status /\ aux = <<>> /\ ~out.full /\ pending = 0
PROOF
  <1>1. Nothing.port = 0
    BY DEF Nothing
  <1>2. ~Reporting
    BY <1>1, ReportingGives
  <1>3. SettingUp /\ ~irq12
    BY <1>2, Ps2Types DEF Phase
  <1>4. Ordered
    BY <1>1, <1>3, SettingUpIs
  <1>5. in = Order(ps2Pc - 1) /\ aux = <<>> /\ ~out.full /\ pending = 0
    BY <1>4 DEF Ordered
  <1>6. in.bits = _status
    BY <1>5, OrderIs
  <1>7. QED
    BY <1>3, <1>4, <1>5, <1>6

(* What the controller has then.                                           *)
LEMMA WroteIs ==
  ASSUME Ordered
  PROVE  /\ ps2Pc = 2 => in.port = 100 /\ in.arg = "enable mouse"
         /\ ps2Pc = 3 => in.port = 100 /\ in.arg = "read config"
         /\ ps2Pc = 5 => in.port = 100 /\ in.arg = "write config"
         /\ ps2Pc = 6 => in.port = 96
         /\ ps2Pc \in {7, 10} => in.port = 100 /\ in.arg = "to mouse"
         /\ ps2Pc \in {8, 11} => in.port = 96
         /\ ps2Pc \in {2, 3, 5, 6, 7, 8, 10, 11}
PROOF
  <1>1. ps2Pc \in {2, 3, 5, 6, 7, 8, 10, 11} /\ in = Order(ps2Pc - 1)
    BY DEF Ordered
  <1> DEFINE k == ps2Pc - 1
  <1>2. k \in {1, 2, 4, 5, 6, 7, 9, 10} /\ ps2Pc = k + 1
    BY <1>1
  <1>3. in.arg = ArgAt(k) /\ in.port = IF OpAt(k) = "command" THEN 100 ELSE 96
    BY <1>1 DEF Order, OpAt, ArgAt
  <1> HIDE DEF k
  <1>a. in.arg = ArgAt(k)
    BY <1>3
  <1>b. OpAt(k) = "command" => in.port = 100
    BY <1>3
  <1>4. k = 1 => in.port = 100 /\ in.arg = "enable mouse"
    BY <1>a, <1>b, SetUpOps, Zenon
  <1>5. k = 2 => in.port = 100 /\ in.arg = "read config"
    BY <1>a, <1>b, SetUpOps, Zenon
  <1>6. k = 4 => in.port = 100 /\ in.arg = "write config"
    BY <1>a, <1>b, SetUpOps, Zenon
  <1>7. k = 5 => in.port = 96
    BY <1>3, SetUpOps
  <1>8. k = 6 => in.port = 100 /\ in.arg = "to mouse"
    <2>1. OpAt(6) = "command" /\ ArgAt(6) = "to mouse"
      BY SetUpOps, Zenon
    <2>2. QED
      BY <1>a, <1>b, <2>1, Zenon
  <1>9. k = 7 => in.port = 96
    BY <1>3, SetUpOps
  <1>10. k = 9 => in.port = 100 /\ in.arg = "to mouse"
    <2>1. OpAt(9) = "command" /\ ArgAt(9) = "to mouse"
      BY SetUpOps, Zenon
    <2>2. QED
      BY <1>a, <1>b, <2>1, Zenon
  <1>11. k = 10 => in.port = 96
    BY <1>3, SetUpOps
  <1>12. /\ ps2Pc = 2 => k = 1
         /\ ps2Pc = 3 => k = 2
         /\ ps2Pc = 5 => k = 4
         /\ ps2Pc = 6 => k = 5
         /\ ps2Pc \in {7, 10} => k \in {6, 9}
         /\ ps2Pc \in {8, 11} => k \in {7, 10}
    BY <1>2
  <1>13. ps2Pc = 2 => in.port = 100 /\ in.arg = "enable mouse"
    BY <1>4, <1>12
  <1>14. ps2Pc = 3 => in.port = 100 /\ in.arg = "read config"
    BY <1>5, <1>12
  <1>15. ps2Pc = 5 => in.port = 100 /\ in.arg = "write config"
    BY <1>6, <1>12
  <1>16. ps2Pc \in {7, 10} => in.port = 100 /\ in.arg = "to mouse"
    BY <1>8, <1>10, <1>12
  <1>17. (ps2Pc = 6 => in.port = 96) /\ (ps2Pc \in {8, 11} => in.port = 96)
    BY <1>7, <1>9, <1>11, <1>12
  <1>18. QED
    BY <1>1, <1>13, <1>14, <1>15, <1>16, <1>17

(* What an answered step needs.                                            *)
LEMMA AnsweredNow ==
  ASSUME SettingUp, UNCHANGED <<mouse_cycle, mouse_byte>>, Answered',
         (Copied => _status = config \cup {"aux int"})', (WrittenBack => "aux int" \in config)'
  PROVE  SettingUp'
PROOF
  BY MouseUntouched

(* A configuration is a byte.                                              *)
LEMMA ByteIs == \A b \in SUBSET Bits : Byte(b) \in Bytes /\ Byte(b).bits = b
PROOF
  BY DEF Byte, Bytes, NoPosition

(* The controller processes a command that KeMain wrote.                   *)
LEMMA ProcessCommandSound == ASSUME Ps2IInv, ProcessCommand PROVE Ps2IInv'
PROOF
  <1>1. in.port = 100 /\ in' = Nothing
    BY DEF ProcessCommand
  <1>2. UNCHANGED <<ps2Pc, _status, irq12, mouse_cycle, mouse_byte, aux, reporting, keys, moves, disturbed>>
    BY DEF ProcessCommand, main, mouse, device
  <1>3. /\ in.arg = "read config" => Fill("kbd", Byte(config))
        /\ in.arg # "read config" => UNCHANGED <<out, pending>>
    BY DEF ProcessCommand
  <1>4. /\ in.arg = "write config" => expects' = "config"
        /\ in.arg = "to mouse" => expects' = "mouse"
        /\ in.arg \notin {"write config", "to mouse"} => expects' = expects
    BY DEF ProcessCommand
  <1>5. /\ in.arg = "enable mouse" => config' = config \ {"aux off"}
        /\ in.arg # "enable mouse" => config' = config
    BY DEF ProcessCommand
  <1>6. config \in SUBSET Bits /\ config' \in SUBSET Bits /\ expects' \in {"keyboard", "config", "mouse"}
    BY <1>4, <1>5 DEF Ps2IInv, Ps2TypeOK
  <1>7. /\ out' \in [full : BOOLEAN, from : {"kbd", "aux"}, byte : Bytes] /\ pending' \in {0, 1, 12}
        /\ out'.full \in BOOLEAN /\ out'.from \in {"kbd", "aux"}
    <2>1. CASE in.arg = "read config"
      BY <1>3, <1>6, <2>1, ByteIs, FillIs
    <2>2. CASE in.arg # "read config"
      <3>1. out' = out /\ pending' = pending
        BY <1>3, <2>2
      <3>2. out \in [full : BOOLEAN, from : {"kbd", "aux"}, byte : Bytes] /\ pending \in {0, 1, 12}
        BY DEF Ps2IInv, Ps2TypeOK
      <3>3. QED
        BY <3>1, <3>2
    <2>3. QED
      BY <2>1, <2>2
  <1>8. in'.port = 0 /\ in'.bits = {}
    BY <1>1 DEF Nothing
  <1>9. Ps2TypeOK'
    BY <1>2, <1>6, <1>7, <1>8 DEF Ps2IInv, Ps2TypeOK
  <1>10. ASSUME ~disturbed PROVE ~irq12' /\ SettingUp'
    <2>1. /\ SettingUp /\ ~irq12 /\ Ordered /\ aux = <<>> /\ ~out.full /\ pending = 0
      BY <1>1, <1>10, OrderedAt
    <2>10. ps2Pc \in {2, 3, 5, 7, 10}
      <3>1. ps2Pc \in {2, 3, 5, 6, 7, 8, 10, 11} /\ (ps2Pc \in {6, 8, 11} => in.port = 96)
        BY <2>1, WroteIs
      <3>2. QED
        BY <1>1, <3>1
    <2>2. /\ ps2Pc = 2 => in.arg = "enable mouse"
          /\ ps2Pc = 3 => in.arg = "read config"
          /\ ps2Pc = 5 => in.arg = "write config"
          /\ ps2Pc \in {7, 10} => in.arg = "to mouse"
      BY <2>1, WroteIs
    <2>3. expects' = IF ps2Pc' = 5 THEN "config" ELSE IF ps2Pc' \in {7, 10} THEN "mouse" ELSE "keyboard"
      <3>1. ps2Pc \in {2, 3} => expects = "keyboard"
        BY <2>1, <2>10 DEF Ordered
      <3>2. QED
        BY <1>2, <1>4, <2>1, <2>10, <2>2, <3>1
    <2>4. ASSUME ps2Pc # 3 PROVE Answered'
      <3>1. out' = out /\ pending' = 0 /\ aux' = <<>> /\ ps2Pc' = ps2Pc
        BY <1>2, <1>3, <2>1, <2>10, <2>2, <2>4
      <3>2. ps2Pc' \in 1..12 \ {3, 8, 11} /\ ~out'.full
        BY <2>1, <2>10, <2>4, <3>1
      <3>3. QED
        BY <1>1, <2>3, <3>1, <3>2 DEF Answered
    <2>5. ASSUME ps2Pc = 3 PROVE Answered'
      <3>1. Fill("kbd", Byte(config))
        BY <1>3, <2>2, <2>5
      <3>2. out'.full /\ out'.byte = Byte(config) /\ pending' \in {0, 1}
        BY <1>6, <3>1, ByteIs, FillIs
      <3>3. config' = config
        BY <1>5, <2>2, <2>5
      <3>4. out'.byte.bits = config'
        BY <1>6, <3>2, <3>3, ByteIs
      <3>5. aux' = <<>> /\ ps2Pc' = 3
        BY <1>2, <2>1, <2>10, <2>5
      <3>6. QED
        BY <1>1, <2>3, <3>2, <3>4, <3>5 DEF Answered
    <2>6. (Copied => _status = config \cup {"aux int"})'
      <3>1. Copied' => ps2Pc = 5
        BY <1>2, <2>1, <2>10 DEF Copied
      <3>2. ps2Pc = 5 => Copied /\ config' = config
        BY <1>5, <2>2 DEF Copied
      <3>3. _status' = _status
        BY <1>2
      <3>4. QED
        BY <2>1, <3>1, <3>2, <3>3, SettingUpIs
    <2>7. (WrittenBack => "aux int" \in config)'
      <3>1. WrittenBack' => ps2Pc \in {7, 10}
        BY <1>2, <2>1, <2>10 DEF WrittenBack
      <3>2. ps2Pc \in {7, 10} => WrittenBack
        BY DEF WrittenBack
      <3>3. ps2Pc \in {7, 10} => config' = config
        BY <1>5, <2>2
      <3>4. QED
        BY <2>1, <3>1, <3>2, <3>3, SettingUpIs
    <2>8. Answered' /\ UNCHANGED <<mouse_cycle, mouse_byte>> /\ irq12' = irq12
      BY <1>2, <2>4, <2>5
    <2>9. QED
      BY <2>1, <2>6, <2>7, <2>8, AnsweredNow
  <1>11. QED
    <2>1. disturbed' \/ (irq12' /\ Reporting') \/ (~irq12' /\ SettingUp')
      BY <1>2, <1>10, Ps2Types
    <2>2. aux' \in Seq(Bytes)
      BY <1>2 DEF Ps2IInv
    <2>3. QED
      BY <1>7, <1>8, <1>9, <2>1, <2>2 DEF Ps2IInv

(***************************************************************************)
(* The controller processes a data byte: the configuration that KeMain     *)
(* writes back, or a byte that it passes on to the mouse, which            *)
(* acknowledges it.                                                        *)
(***************************************************************************)
LEMMA ProcessDataSound == ASSUME Ps2IInv, ProcessData PROVE Ps2IInv'
PROOF
  <1>1. in.port = 96 /\ in' = Nothing /\ expects' = "keyboard"
    BY DEF ProcessData
  <1>2. UNCHANGED <<ps2Pc, _status, irq12, mouse_cycle, mouse_byte, pending, out, keys, moves, disturbed>>
    BY DEF ProcessData, main, mouse
  <1>3. /\ expects = "config" => config' = in.bits
        /\ expects # "config" => config' = config
    BY DEF ProcessData
  <1>4. /\ expects = "mouse" => aux' = Append(aux, Byte(Ack))
        /\ expects # "mouse" => aux' = aux
    BY DEF ProcessData
  <1>5. reporting' \in BOOLEAN
    BY DEF ProcessData
  <1>6. config' \in SUBSET Bits
    BY <1>3 DEF Ps2IInv, Ps2TypeOK
  <1>7. aux' \in Seq(Bytes)
    <2>1. Byte(Ack) \in Bytes
      BY ByteIs DEF Ack, Bits
    <2>2. aux \in Seq(Bytes)
      BY DEF Ps2IInv
    <2>3. QED
      BY <1>4, <2>1, <2>2
  <1>8. in'.port = 0 /\ in'.bits = {}
    BY <1>1 DEF Nothing
  <1>9. Ps2TypeOK'
    BY <1>1, <1>2, <1>5, <1>6, <1>8 DEF Ps2IInv, Ps2TypeOK
  <1>10. ASSUME ~disturbed PROVE ~irq12' /\ SettingUp'
    <2>1. /\ SettingUp /\ ~irq12 /\ Ordered /\ in.bits = _status /\ aux = <<>> /\ ~out.full /\ pending = 0
      BY <1>1, <1>10, OrderedAt
    <2>11. ps2Pc \in {6, 8, 11}
      BY <1>1, <2>1, WroteIs
    <2>2. /\ ps2Pc = 6 => expects = "config"
          /\ ps2Pc \in {8, 11} => expects = "mouse"
      BY <2>1, <2>11 DEF Ordered
    <2>3. out' = out /\ pending' = 0 /\ ps2Pc' = ps2Pc /\ _status' = _status
      BY <1>2, <2>1, <2>11
    <2>4. ps2Pc = 6 => aux' = <<>>
      BY <1>4, <2>1, <2>11, <2>2
    <2>5. ps2Pc \in {8, 11} => aux' = <<Byte(Ack)>>
      <3>1. Append(<<>>, Byte(Ack)) = <<Byte(Ack)>>
        OBVIOUS
      <3>2. QED
        BY <1>4, <2>1, <2>11, <2>2, <3>1
    <2>6. Answered'
      <3>1. expects' = IF ps2Pc' = 5 THEN "config" ELSE IF ps2Pc' \in {7, 10} THEN "mouse" ELSE "keyboard"
        BY <1>1, <2>1, <2>11, <2>3
      <3>2. CASE ps2Pc = 6
        BY <1>1, <2>1, <2>11, <2>3, <2>4, <3>1, <3>2 DEF Answered
      <3>3. CASE ps2Pc \in {8, 11}
        BY <1>1, <2>1, <2>11, <2>3, <2>5, <3>1, <3>3 DEF Answered
      <3>4. QED
        BY <2>1, <2>11, <3>2, <3>3
    <2>7. ~Copied'
      BY <1>1, <2>1, <2>11, <2>3 DEF Copied
    <2>8. (WrittenBack => "aux int" \in config)'
      <3>1. ASSUME ps2Pc = 6 PROVE "aux int" \in config'
        <4>1. in # Nothing
          BY <1>1 DEF Nothing
        <4>2. Copied
          BY <3>1, <4>1 DEF Copied
        <4>3. _status = config \cup {"aux int"}
          BY <2>1, <4>2, SettingUpIs
        <4>4. QED
          BY <1>3, <2>1, <2>11, <2>2, <3>1, <4>3
      <3>2. ASSUME ps2Pc \in {8, 11} PROVE "aux int" \in config'
        <4>1. WrittenBack
          BY <3>2 DEF WrittenBack
        <4>2. config' = config
          BY <1>3, <2>2, <3>2
        <4>3. QED
          BY <2>1, <4>1, <4>2, SettingUpIs
      <3>3. QED
        BY <2>1, <2>11, <3>1, <3>2
    <2>9. UNCHANGED <<mouse_cycle, mouse_byte>> /\ irq12' = irq12
      BY <1>2
    <2>10. QED
      BY <2>1, <2>6, <2>7, <2>8, <2>9, AnsweredNow
  <1>11. QED
    <2>1. disturbed' \/ (irq12' /\ Reporting') \/ (~irq12' /\ SettingUp')
      BY <1>2, <1>10, Ps2Types
    <2>2. out' \in [full : BOOLEAN, from : {"kbd", "aux"}, byte : Bytes]
      BY <1>2 DEF Ps2IInv
    <2>3. QED
      BY <1>7, <1>8, <1>9, <2>1, <2>2 DEF Ps2IInv

(* A key is pressed: nothing of the mouse's bytes moves.                   *)
LEMMA PressKeySound == ASSUME Ps2IInv, NEW code \in ScanCodes, PressKey(code) PROVE Ps2IInv'
PROOF
  <1>1. Byte(code) \in Bytes /\ Fill("kbd", Byte(code))
    BY ByteIs, Ps2Assumption DEF PressKey
  <1>2. UNCHANGED <<ps2Pc, _status, irq12, mouse_cycle, mouse_byte, in, expects, config, aux, reporting, moves>>
    BY DEF PressKey, main, mouse
  <1>3. disturbed' \in BOOLEAN /\ (~disturbed' => ~disturbed /\ irq12)
    BY DEF PressKey
  <1>4. keys' \in 0..MaxKeys
    <2>1. keys \in 0..MaxKeys /\ keys < MaxKeys /\ keys' = keys + 1
      BY DEF PressKey, Ps2IInv, Ps2TypeOK
    <2>2. QED
      BY <2>1, Ps2Assumption
  <1>5. /\ pending = 0 /\ pending' \in {0, 1} /\ pending' \in {0, 1, 12}
        /\ out' \in [full : BOOLEAN, from : {"kbd", "aux"}, byte : Bytes]
        /\ out'.full \in BOOLEAN /\ out'.from \in {"kbd", "aux"}
    BY <1>1, FillIs
  <1>6. Ps2TypeOK'
    BY <1>2, <1>3, <1>4, <1>5 DEF Ps2IInv, Ps2TypeOK
  <1>7. ASSUME ~disturbed' PROVE irq12' /\ Reporting'
    <2>1. irq12 /\ Reporting
      BY <1>3, <1>7, Ps2Types DEF Phase
    <2>2. /\ ps2Pc' = ps2Pc /\ in' = in /\ config' = config /\ aux' = aux /\ mouse_byte' = mouse_byte
          /\ mouse_cycle' = mouse_cycle /\ irq12' = irq12
      BY <1>2
    <2>3. Due' = Due /\ pending' # 12
      BY <1>5, <2>2 DEF Due
    <2>4. Chain(aux, Due)'
      BY <2>1, <2>2, <2>3, ReportingGives, ChainSame
    <2>5. Reporting'
      BY <2>1, <2>2, <2>3, <2>4, ReportingKept, ReportingGives
    <2>6. QED
      BY <2>1, <2>2, <2>5
  <1>8. aux' \in Seq(Bytes) /\ in'.bits \subseteq Bits
    BY <1>2 DEF Ps2IInv
  <1>9. QED
    BY <1>5, <1>6, <1>7, <1>8 DEF Ps2IInv

(* The mouse moves: a whole packet follows the bytes under way.            *)
LEMMA MoveSound == ASSUME Ps2IInv, Move PROVE Ps2IInv'
PROOF
  <1>1. UNCHANGED <<ps2Pc, _status, irq12, mouse_cycle, mouse_byte, pending, out, in, expects, config, reporting, keys>>
    BY DEF Move, main, mouse
  <1>2. aux' = aux \o Packet
    BY DEF Move, Packet
  <1>3. disturbed' \in BOOLEAN /\ (~disturbed' => ~disturbed /\ irq12)
    BY DEF Move
  <1>4. moves' \in 0..MaxMoves
    <2>1. moves \in 0..MaxMoves /\ moves < MaxMoves /\ moves' = moves + 1
      BY DEF Move, Ps2IInv, Ps2TypeOK
    <2>2. QED
      BY <2>1, Ps2Assumption
  <1>5. Ps2TypeOK'
    BY <1>1, <1>3, <1>4 DEF Ps2IInv, Ps2TypeOK
  <1>6. aux \in Seq(Bytes) /\ aux' \in Seq(Bytes)
    <2>1. aux \in Seq(Bytes)
      BY DEF Ps2IInv
    <2>2. QED
      BY <1>2, <2>1, PacketIs
  <1>7. ASSUME ~disturbed' PROVE irq12' /\ Reporting'
    <2>1. irq12 /\ Reporting
      BY <1>3, <1>7, Ps2Types DEF Phase
    <2>2. /\ ps2Pc' = ps2Pc /\ in' = in /\ config' = config /\ mouse_byte' = mouse_byte /\ out' = out
          /\ mouse_cycle' = mouse_cycle /\ irq12' = irq12 /\ pending' = pending
      BY <1>1
    <2>3. Due' = Due
      BY <2>2 DEF Due
    <2>4. Due \in 0..2
      BY DEF Due, Following, Ps2IInv, Ps2TypeOK
    <2>5. Chain(aux \o Packet, Due)
      BY <1>6, <2>1, <2>4, ReportingGives, ChainMore
    <2>6. Chain(aux, Due)'
      BY <1>2, <2>3, <2>5 DEF Chain
    <2>7. Reporting'
      BY <2>1, <2>2, <2>6, ReportingKept, ReportingGives
    <2>8. QED
      BY <2>1, <2>2, <2>7
  <1>8. out' \in [full : BOOLEAN, from : {"kbd", "aux"}, byte : Bytes] /\ in'.bits \subseteq Bits
    BY <1>1 DEF Ps2IInv
  <1>9. QED
    BY <1>5, <1>6, <1>7, <1>8 DEF Ps2IInv

(* The controller takes a byte from the mouse: the acknowledgement that    *)
(* KeMain waits for, or, afterwards, the byte that the handler is at.      *)
LEMMA SendMouseByteSound == ASSUME Ps2IInv, SendMouseByte PROVE Ps2IInv'
PROOF
  <1>1. aux # <<>> /\ Fill("aux", Head(aux)) /\ aux' = Tail(aux) /\ aux \in Seq(Bytes)
    BY DEF SendMouseByte, Ps2IInv
  <1>2. UNCHANGED <<ps2Pc, _status, irq12, mouse_cycle, mouse_byte, in, expects, config, reporting, keys, moves, disturbed>>
    BY DEF SendMouseByte, main, mouse
  <1>3. Head(aux) \in Bytes /\ aux' \in Seq(Bytes)
    BY <1>1
  <1>4. /\ pending = 0 /\ pending' \in {0, 1, 12} /\ ~out.full
        /\ out' \in [full : BOOLEAN, from : {"kbd", "aux"}, byte : Bytes]
        /\ out'.full \in BOOLEAN /\ out'.from \in {"kbd", "aux"}
        /\ out'.full /\ out'.byte = Head(aux)
    BY <1>1, <1>3, FillIs
  <1>5. /\ "aux int" \in config /\ irq12 => pending' = 12
        /\ ~irq12 => pending' = 0
    BY <1>1, <1>3, FillIs
  <1>6. Ps2TypeOK'
    BY <1>2, <1>4 DEF Ps2IInv, Ps2TypeOK
  <1>7. ASSUME ~disturbed, irq12 PROVE irq12' /\ Reporting'
    <2>1. Reporting
      BY <1>7, Ps2Types DEF Phase
    <2>2. /\ ps2Pc' = ps2Pc /\ in' = in /\ config' = config /\ mouse_byte' = mouse_byte
          /\ mouse_cycle' = mouse_cycle /\ irq12' = irq12
      BY <1>2
    <2>3. pending' = 12
      BY <1>5, <1>7, <2>1, ReportingGives
    <2>4. mouse_cycle \in 0..2 /\ Due = mouse_cycle /\ Due' = Following(mouse_cycle)
      BY <1>4, <2>2, <2>3 DEF Due, Ps2IInv, Ps2TypeOK
    <2>5. Chain(aux, mouse_cycle)
      <3>1. Chain(aux, Due)
        BY <2>1, ReportingGives
      <3>2. QED
        BY <2>4, <3>1
    <2>6. Head(aux).pos = mouse_cycle /\ Chain(Tail(aux), Following(mouse_cycle))
      BY <1>1, <2>4, <2>5, ChainTail
    <2>7. Chain(aux, Due)'
      BY <1>1, <2>4, <2>6 DEF Chain
    <2>8. out'.byte.pos = mouse_cycle'
      BY <1>4, <2>2, <2>6
    <2>9. Reporting'
      BY <2>1, <2>2, <2>7, <2>8, ReportingKept, ReportingGives
    <2>10. QED
      BY <1>7, <2>2, <2>9
  <1>8. ASSUME ~disturbed, ~irq12 PROVE ~irq12' /\ SettingUp'
    <2>1. SettingUp
      BY <1>8, Ps2Types DEF Phase
    <2>2. Answered
      <3>1. Ordered => aux = <<>>
        BY DEF Ordered
      <3>2. QED
        BY <1>1, <2>1, <3>1 DEF SettingUp
    <2>3. ps2Pc \in {8, 11} /\ aux = <<Byte(Ack)>> /\ in = Nothing
          /\ expects = IF ps2Pc = 5 THEN "config" ELSE IF ps2Pc \in {7, 10} THEN "mouse" ELSE "keyboard"
      BY <1>1, <1>4, <2>2 DEF Answered
    <2>4. aux' = <<>>
      BY <1>1, <2>3
    <2>5. ps2Pc' = ps2Pc /\ in' = Nothing /\ expects' = expects /\ config' = config /\ irq12' = irq12
      BY <1>2, <2>3
    <2>6. pending' = 0 /\ out'.full
      BY <1>4, <1>5, <1>8
    <2>7. Answered'
      BY <2>3, <2>4, <2>5, <2>6 DEF Answered
    <2>8. ~Copied'
      BY <2>3, <2>5 DEF Copied
    <2>9. WrittenBack
      BY <2>3 DEF WrittenBack
    <2>10. "aux int" \in config'
      BY <2>1, <2>5, <2>9, SettingUpIs
    <2>11. UNCHANGED <<mouse_cycle, mouse_byte>>
      BY <1>2
    <2>12. QED
      BY <1>8, <2>1, <2>5, <2>7, <2>8, <2>10, <2>11, AnsweredNow
  <1>9. in'.bits \subseteq Bits /\ disturbed' = disturbed
    BY <1>2 DEF Ps2IInv
  <1>10. disturbed' \/ (irq12' /\ Reporting') \/ (~irq12' /\ SettingUp')
    BY <1>7, <1>8, <1>9
  <1>11. QED
    BY <1>3, <1>4, <1>6, <1>9, <1>10 DEF Ps2IInv

(* Every step of KeMain, the handlers, the controller and the user keeps   *)
(* the inductive invariant.                                                *)
LEMMA Ps2StepSound == Ps2IInv /\ [Ps2Next]_ps2Vars => Ps2IInv'
PROOF
  <1> SUFFICES ASSUME Ps2IInv, [Ps2Next]_ps2Vars PROVE Ps2IInv'
    OBVIOUS
  <1>1. CASE UNCHANGED ps2Vars
    <2>1. UNCHANGED <<ps2Pc, _status, irq12, mouse_cycle, mouse_byte, pending, out, in, expects, config, aux, reporting,
                      keys, moves, disturbed>>
      BY <1>1 DEF ps2Vars, main, mouse, device
    <2>2. Ps2TypeOK'
      BY <2>1 DEF Ps2IInv, Ps2TypeOK
    <2>3. Reporting => Reporting'
      BY <2>1 DEF Reporting, Chain, Due
    <2>4. SettingUp => SettingUp'
      BY <2>1 DEF SettingUp, Ordered, Answered, Copied, WrittenBack, Order
    <2>5. QED
      BY <2>1, <2>2, <2>3, <2>4 DEF Ps2IInv
  <1>2. QED
    BY <1>1, WriteSound, ReadDataSound, EnableMouseIrqSound, Ps2KeyboardHandlerSound, Ps2MouseHandlerSound,
       ProcessCommandSound, ProcessDataSound, PressKeySound, MoveSound, SendMouseByteSound
       DEF Ps2Next, KeMain, Ps2Interrupt, Controller, User, Poll, Halt

(* The inductive invariant holds.                                          *)
LEMMA Ps2Invariant == Spec => []Ps2IInv
PROOF
  <1>1. Init => Ps2IInv
    BY Ps2InitSound DEF Init
  <1>2. Ps2IInv /\ [Next]_vars => Ps2IInv'
    <2>1. [Next]_vars => [Ps2Next]_ps2Vars
      BY DEF Next, vars
    <2>2. QED
      BY <2>1, Ps2StepSound
  <1>3. QED
    BY <1>1, <1>2, PTL DEF Spec

(***************************************************************************)
(* The mouse of kernel.c, for any firmware configuration, any scan codes   *)
(* and any number of keys and movements: after a set-up that nobody        *)
(* disturbed mouse_byte[i] is always the i-th byte of a packet, whoever    *)
(* reads the port the handlers share.                                      *)
(***************************************************************************)
THEOREM MouseIsAligned == Spec => [](Ps2TypeOK /\ PacketsAligned)
PROOF
  <1>1. Ps2IInv => Ps2TypeOK /\ PacketsAligned
    <2> SUFFICES ASSUME Ps2IInv PROVE Ps2TypeOK /\ PacketsAligned
      OBVIOUS
    <2>1. Ps2TypeOK
      BY DEF Ps2IInv
    <2>2. Reporting => \A k \in 0..2 : mouse_byte[k] \in {NoPosition, k}
      BY DEF Reporting
    <2>3. SettingUp => \A k \in 0..2 : mouse_byte[k] \in {NoPosition, k}
      BY DEF SettingUp
    <2>4. QED
      BY <2>1, <2>2, <2>3, Ps2Types DEF Phase, PacketsAligned
  <1>2. QED
    BY <1>1, Ps2Invariant, PTL

(* A step changes the configuration only so.                               *)
ConfigStep == disturbed \/ config' \in {config, config \cup {"aux int"}, config \ {"aux off"}}

(* The configuration that KeMain writes back is the one it read, with the  *)
(* mouse's interrupt.                                                      *)
LEMMA ConfigStepSound == Ps2IInv /\ [Ps2Next]_ps2Vars => ConfigStep
PROOF
  <1> SUFFICES ASSUME Ps2IInv, [Ps2Next]_ps2Vars PROVE ConfigStep
    OBVIOUS
  <1>1. CASE ProcessCommand
    BY <1>1 DEF ProcessCommand, ConfigStep
  <1>2. CASE ProcessData
    <2>1. CASE expects # "config"
      BY <1>2, <2>1 DEF ProcessData, ConfigStep
    <2>2. ASSUME expects = "config", ~disturbed PROVE config' = config \cup {"aux int"}
      <3>1. in.port = 96 /\ config' = in.bits
        BY <1>2, <2>2 DEF ProcessData
      <3>2. SettingUp /\ Ordered /\ in.bits = _status
        BY <2>2, <3>1, OrderedAt
      <3>3. ps2Pc = 6
        BY <2>2, <3>2 DEF Ordered
      <3>4. in # Nothing
        BY <3>1 DEF Nothing
      <3>5. Copied
        BY <3>3, <3>4 DEF Copied
      <3>6. QED
        BY <3>1, <3>2, <3>5, SettingUpIs
    <2>3. QED
      BY <2>1, <2>2 DEF ConfigStep
  <1>3. CASE UNCHANGED config
    BY <1>3 DEF ConfigStep
  <1>4. QED
    BY <1>1, <1>2, <1>3 DEF Ps2Next, KeMain, Ps2Interrupt, Controller, User, Poll, Halt, Write, ReadData, EnableMouseIrq,
       Ps2KeyboardHandler, Ps2MouseHandler, Taken, SendMouseByte, Move, PressKey, ps2Vars

(***************************************************************************)
(* KeMain changes the configuration byte of the controller only to enable  *)
(* the mouse and its interrupt, whatever the firmware left, unless the     *)
(* set-up was disturbed.                                                   *)
(***************************************************************************)
THEOREM ConfigIsKept == Spec => ConfigKept
PROOF
  <1>1. Ps2IInv /\ [Next]_vars => [ConfigStep]_config
    <2>1. [Next]_vars => [Ps2Next]_ps2Vars
      BY DEF Next, vars
    <2>2. QED
      BY <2>1, ConfigStepSound
  <1>2. QED
    BY <1>1, Ps2Invariant, PTL DEF Spec, ConfigKept, ConfigStep
=============================================================================

---------------------------- MODULE OrderedArray ----------------------------
(***************************************************************************)
(* The array of kernel/lib/array.c, ordered by a predicate, as the         *)
(* sequence of its first size slots.  Both predicates of the code compare  *)
(* a number of the items (an address, or the size in a header) with <;     *)
(* key[a] is that number.  Positions count from 1, the code's from 0.      *)
(***************************************************************************)
EXTENDS Integers, Sequences

\* Where ArrayInsert stops: after the longest prefix of smaller items.
InsertPosition(key, array, item) ==
  CHOOSE i \in 1 .. Len(array) + 1 :
    /\ \A j \in 1 .. i - 1 : key[array[j]] < key[item]
    /\ i <= Len(array) => key[array[i]] >= key[item]

\* The slots from the position on move up by one.
ArrayInsert(key, array, item) ==
  LET i == InsertPosition(key, array, item)
  IN  SubSeq(array, 1, i - 1) \o <<item>> \o SubSeq(array, i, Len(array))

\* The slots after the position move down; an index past the end still drops
\* the last item, because size is decremented all the same.
ArrayRemove(array, i) ==
  IF i <= Len(array)
    THEN SubSeq(array, 1, i - 1) \o SubSeq(array, i + 1, Len(array))
    ELSE SubSeq(array, 1, Len(array) - 1)

\* The position of an item, or the position after the last one: the search
\* loop HeapFree runs over the index.
PositionOf(array, item) ==
  IF \E i \in 1 .. Len(array) : array[i] = item
    THEN CHOOSE i \in 1 .. Len(array) :
           array[i] = item /\ \A j \in 1 .. i - 1 : array[j] # item
    ELSE Len(array) + 1
=============================================================================

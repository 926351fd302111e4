-------------------------------- MODULE List --------------------------------
(***************************************************************************)
(* The LIST_ macros of lib/list.h: a doubly linked list through the        *)
(* elements' next and prev fields.  The fields of an element that is in no *)
(* list have the values the last operation left in them.                   *)
(***************************************************************************)
EXTENDS Integers, SequencesExt

CONSTANTS Elements, Null

ASSUME ListAssumption == Null \notin Elements /\ IsFiniteSet(Elements)

VARIABLES
  first, last,    \* the head
  next, prev,     \* the fields of the elements
  list            \* history: the sequence the list stands for

listVars == <<first, last, next, prev, list>>

Links == [Elements -> Elements \cup {Null}]

(* LIST_INIT; the elements come from kmalloc, their fields are arbitrary.  *)
ListInit ==
  /\ first = Null /\ last = Null
  /\ next \in Links /\ prev = next
  /\ list = <<>>

LIST_ADD(el) ==
  /\ ~Contains(list, el)
  /\ IF first = Null
     THEN /\ first' = el
          /\ next' = [next EXCEPT ![el] = Null]
          /\ prev' = [prev EXCEPT ![el] = Null]
     ELSE /\ UNCHANGED first
          /\ next' = [next EXCEPT ![last] = el, ![el] = Null]
          /\ prev' = [prev EXCEPT ![el] = last]
  /\ last' = el
  /\ list' = Append(list, el)

LIST_ADD_FRONT(el) ==
  /\ ~Contains(list, el)
  /\ IF first = Null
     THEN /\ last' = el
          /\ next' = [next EXCEPT ![el] = Null]
          /\ prev' = [prev EXCEPT ![el] = Null]
     ELSE /\ UNCHANGED last
          /\ prev' = [prev EXCEPT ![first] = el, ![el] = Null]
          /\ next' = [next EXCEPT ![el] = first]
  /\ first' = el
  /\ list' = <<el>> \o list

(* Mutant: the neighbours of an inner element are linked one way only.     *)
UnlinkOneWay(el) ==
  CASE el = first /\ el = last -> first' = Null /\ last' = Null /\ UNCHANGED <<next, prev>>
    [] el = first /\ el # last ->
         first' = next[el] /\ prev' = [prev EXCEPT ![next[el]] = Null] /\ next' = [next EXCEPT ![el] = Null] /\ UNCHANGED last
    [] el # first /\ el = last ->
         last' = prev[el] /\ next' = [next EXCEPT ![prev[el]] = Null] /\ prev' = [prev EXCEPT ![el] = Null] /\ UNCHANGED first
    [] OTHER -> next' = [next EXCEPT ![prev[el]] = next[el], ![el] = Null] /\ UNCHANGED <<prev, first, last>>

Unlink(el) ==
  CASE el = first /\ el = last -> first' = Null /\ last' = Null /\ UNCHANGED <<next, prev>>
    [] el = first /\ el # last ->
         first' = next[el] /\ prev' = [prev EXCEPT ![next[el]] = Null] /\ next' = [next EXCEPT ![el] = Null] /\ UNCHANGED last
    [] el # first /\ el = last ->
         last' = prev[el] /\ next' = [next EXCEPT ![prev[el]] = Null] /\ prev' = [prev EXCEPT ![el] = Null] /\ UNCHANGED first
    [] OTHER -> next' = [next EXCEPT ![prev[el]] = next[el], ![el] = Null]
                /\ prev' = [prev EXCEPT ![next[el]] = prev[el], ![el] = Null]
                /\ UNCHANGED <<first, last>>

LIST_REMOVE(el) == \E k \in 1..Len(list) : list[k] = el /\ Unlink(el) /\ list' = RemoveAt(list, k)

ListNext == \E el \in Elements : LIST_ADD(el) \/ LIST_ADD_FRONT(el) \/ LIST_REMOVE(el)

ListSpec == ListInit /\ [][ListNext]_listVars

(***************************************************************************)
(* LIST_FOREACH visits the elements of the list in order and stops, and    *)
(* the same holds backwards, after any sequence of operations.             *)
(***************************************************************************)
IsList ==
  \A k \in 1..Len(list) :
    /\ list[k] = IF k = 1 THEN first ELSE next[list[k - 1]]
    /\ list[Len(list) + 1 - k] = IF k = 1 THEN last ELSE prev[list[Len(list) + 2 - k]]
EndsProperly ==
  IF list = <<>> THEN first = Null /\ last = Null
  ELSE next[last] = Null /\ prev[first] = Null
ListCorrect == IsList /\ EndsProperly

(***************************************************************************)
(* The inductive invariant: the fields link the elements of the list,      *)
(* which are all different, both ways.                                     *)
(***************************************************************************)
Linked(l, head, tail, nx, pv) ==
  /\ l \in Seq(Elements) /\ nx \in Links /\ pv \in Links
  /\ \A j, k \in 1..Len(l) : l[j] = l[k] => j = k
  /\ \A k \in 1..(Len(l) - 1) : nx[l[k]] = l[k + 1] /\ pv[l[k + 1]] = l[k]
  /\ IF Len(l) = 0 THEN head = Null /\ tail = Null
     ELSE head = l[1] /\ tail = l[Len(l)] /\ nx[tail] = Null /\ pv[head] = Null
ListIInv == Linked(list, first, last, next, prev)
=============================================================================

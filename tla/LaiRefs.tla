------------------------------ MODULE LaiRefs ------------------------------
(***************************************************************************)
(* The objects of the interpreter (cpu/lai/core/variable.c, object.c,      *)
(* exec-operand.c and the operators of exec.c that use them): strings,     *)
(* buffers and packages with reference counts, variables that hold one or  *)
(* refer to an element of one by index, stores that copy, stores that      *)
(* change an object in place, and fields of buffers.                       *)
(*                                                                         *)
(* Strings behave like buffers here, and contents are left out: what       *)
(* matters is who refers to what.  One action is one operator of AML with  *)
(* its operands, from the load of the operands to the end of its           *)
(* reduction.  An operator that panics is not taken.  The first store to a *)
(* name is its Name().                                                     *)
(***************************************************************************)
EXTENDS Integers, Sequences, FiniteSets, SequencesExt, FiniteSetsExt

CONSTANTS
  Ids,          \* room for objects
  Locals,       \* locals of the method
  Names,        \* names of the namespace
  SIZE,         \* the largest package
  MAX_RC,       \* bound on the reference counts an operator leaves behind
  Ops           \* the operators that are used

AllOps == {"store", "copy", "index", "store_index", "deref", "sizeof", "field", "mutate_pkg", "end"}
ASSUME LaiRefsAssumption ==
  /\ 0 \notin Ids /\ Locals # {} /\ Locals \cap Names = {}
  /\ SIZE \in Nat \ {0} /\ MAX_RC \in Nat /\ Ops \subseteq AllOps

VARIABLES
  heap,         \* [kind, rc, size, elems]; elems has the length of the allocation
  slot,         \* lai_variable_t of every local and name
  field,        \* bf_buffer of a buffer field, or 0
  leaky         \* history: an operator that keeps a reference has run

refVars == <<heap, slot, field, leaky>>

Slots == Locals \cup Names

(* lai_variable_t: nothing, an integer, an object, or an element of one.   *)
None == [t |-> "none", o |-> 0, i |-> 0]
RefNumber == [t |-> "int", o |-> 0, i |-> 0]
Obj(o) == [t |-> "obj", o |-> o, i |-> 0]
At(o, i) == [t |-> "index", o |-> o, i |-> i]
RefHolds(v) == v.t \in {"obj", "index"}

Free == [kind |-> "free", rc |-> 0, size |-> 0, elems |-> <<>>]
Room(h) == {o \in Ids : h[o].kind = "free"}
Fresh(h) == CHOOSE o \in Room(h) : TRUE

-----------------------------------------------------------------------------
(***************************************************************************)
(* variable.c and lai_obj_clone, on a heap.                                *)
(***************************************************************************)
lai_rc_ref(h, v) == IF RefHolds(v) THEN [h EXCEPT ![v.o].rc = @ + 1] ELSE h

(* The last reference frees the object; a package finalizes its elements   *)
(* first, up to its size.                                                  *)
RECURSIVE lai_var_finalize(_, _)
RECURSIVE FinalizeAll(_, _)
FinalizeAll(h, vs) == IF vs = <<>> THEN h ELSE FinalizeAll(lai_var_finalize(h, Head(vs)), Tail(vs))
laihost_free_package(h, o) == [FinalizeAll(h, SubSeq(h[o].elems, 1, h[o].size)) EXCEPT ![o] = Free]
lai_var_finalize(h, v) ==
  IF ~RefHolds(v) THEN h
  ELSE IF h[v.o].rc > 1 THEN [h EXCEPT ![v.o].rc = @ - 1]
  ELSE IF h[v.o].kind = "package" THEN laihost_free_package([h EXCEPT ![v.o].rc = 0], v.o)
  ELSE [h EXCEPT ![v.o] = Free]

(* n elements without a value.                                             *)
Empty(n) == SubSeq([i \in 1..n |-> None], 1, n)
lai_create_buffer(h) == [h EXCEPT ![Fresh(h)] = [kind |-> "buffer", rc |-> 1, size |-> 0, elems |-> <<>>]]
lai_create_pkg(h, n) == [h EXCEPT ![Fresh(h)] = [kind |-> "package", rc |-> 1, size |-> n, elems |-> Empty(n)]]

(* A copy, with its elements; [heap, v].  Anything but an object is shared *)
(* by a reference.                                                         *)
RECURSIVE Copy(_, _)
RECURSIVE CopyElems(_, _, _, _)
CopyElems(h, p, vs, i) ==
  IF i > Len(vs) THEN h ELSE LET c == Copy(h, vs[i]) IN CopyElems([c.heap EXCEPT ![p].elems[i] = c.v], p, vs, i + 1)
Copy(h, v) ==
  IF v.t # "obj" THEN [heap |-> lai_rc_ref(h, v), v |-> v]
  ELSE IF h[v.o].kind = "buffer" THEN [heap |-> lai_create_buffer(h), v |-> Obj(Fresh(h))]
  ELSE [heap |-> CopyElems(lai_create_pkg(h, h[v.o].size), Fresh(h), SubSeq(h[v.o].elems, 1, h[v.o].size), 1), v |-> Obj(Fresh(h))]
lai_obj_clone(h, v) == Copy(h, v)

(* How many objects a copy makes.                                          *)
RECURSIVE Weight(_, _)
RECURSIVE WeightAll(_, _)
WeightAll(h, vs) == IF vs = <<>> THEN 0 ELSE Weight(h, Head(vs)) + WeightAll(h, Tail(vs))
Weight(h, v) == IF v.t # "obj" THEN 0 ELSE 1 + WeightAll(h, SubSeq(h[v.o].elems, 1, h[v.o].size))

-----------------------------------------------------------------------------
(***************************************************************************)
(* Assignments: s is [heap, slot].                                         *)
(***************************************************************************)
(* The reference of the source is taken before the old value is dropped.   *)
lai_var_assign(s, x, v) == [heap |-> lai_var_finalize(lai_rc_ref(s.heap, v), s.slot[x]), slot |-> [s.slot EXCEPT ![x] = v]]

(* lai_exec_pkg_store: the same, for element i of o.                       *)
AssignElem(h, o, i, v) ==
  LET old == h[o].elems[i + 1]
  IN  lai_var_finalize([lai_rc_ref(h, v) EXCEPT ![o].elems[i + 1] = v], old)

(* A package in place: fewer elements stay in the allocation they are in,  *)
(* more get a new one.                                                     *)
lai_obj_resize_pkg(h, o, n) ==
  IF n <= h[o].size
  THEN [FinalizeAll(h, SubSeq(h[o].elems, n + 1, h[o].size)) EXCEPT
          ![o].size = n, ![o].elems = SubSeq(h[o].elems, 1, n) \o Empty(h[o].size - n) \o SubSeq(h[o].elems, h[o].size + 1, Len(h[o].elems))]
  ELSE [h EXCEPT ![o].size = n, ![o].elems = SubSeq(h[o].elems, 1, h[o].size) \o Empty(n - h[o].size)]

(* lai_exec_mutate_ns on a package: temp takes a reference to each element *)
(* and is never finalized.                                                 *)
RECURSIVE StoreAll(_, _, _, _)
StoreAll(h, o, vs, i) ==
  IF i > Len(vs) THEN h ELSE StoreAll(AssignElem(lai_rc_ref(h, vs[i]), o, i - 1, vs[i]), o, vs, i + 1)
MutatePkg(h, o, p) == StoreAll(lai_obj_resize_pkg(h, o, h[p].size), o, SubSeq(h[p].elems, 1, h[p].size), 1)

IsPackage(h, v) == v.t = "obj" /\ h[v.o].kind = "package"
IsBuffer(h, v) == v.t = "obj" /\ h[v.o].kind = "buffer"

(* A bound on the references that are never dropped.                       *)
Bounded(h, v) == \A i \in 1..Len(h[v.o].elems) : RefHolds(h[v.o].elems[i]) => h[h[v.o].elems[i].o].rc < MAX_RC

(* lai_operand_mutate to a local or a name.  A name keeps its type: an     *)
(* integer and a buffer take the contents, a package the elements.         *)
CanMutate(s, x, v) ==
  LET old == s.slot[x]
  IN  x \in Names =>
        /\ old.t = "int" \/ IsBuffer(s.heap, old) => v.t = "int" \/ IsBuffer(s.heap, v)
        /\ IsPackage(s.heap, old) => IsPackage(s.heap, v) /\ "mutate_pkg" \in Ops /\ Bounded(s.heap, v)
lai_operand_mutate(s, x, v) ==
  LET old == s.slot[x]
  IN  IF x \in Names /\ IsPackage(s.heap, old) THEN [s EXCEPT !.heap = MutatePkg(s.heap, old.o, v.o)]
      ELSE IF x \in Names /\ (old.t = "int" \/ IsBuffer(s.heap, old)) THEN s
      ELSE lai_var_assign(s, x, v)

(* lai_operand_emplace replaces what is there.                             *)
lai_operand_emplace(s, x, v) == lai_var_assign(s, x, v)

(* STORE_OP and COPYOBJECT_OP of the operand v, which holds a reference    *)
(* that is dropped at the end: the result is a copy (out, a second one, is *)
(* made and dropped).                                                      *)
StoreOp(s, v, x) ==
  LET r == lai_obj_clone(lai_rc_ref(s.heap, v), v)
      done == lai_operand_mutate([s EXCEPT !.heap = r.heap], x, r.v)
  IN  [done EXCEPT !.heap = FinalizeAll(done.heap, <<v, r.v, v>>)]
CopyOp(s, v, x) ==
  LET r == lai_obj_clone(lai_rc_ref(s.heap, v), v)
      done == lai_operand_emplace([s EXCEPT !.heap = r.heap], x, r.v)
  IN  [done EXCEPT !.heap = FinalizeAll(done.heap, <<v, r.v, v>>)]

State == [heap |-> heap, slot |-> slot]
Becomes(s) == heap' = s.heap /\ slot' = s.slot

(* An operand that names a slot holds a reference of its own.              *)
RefLoad(x) == [State EXCEPT !.heap = lai_rc_ref(heap, slot[x])]
Fits(n) == n <= Cardinality(Room(heap))

(* The elements of a package stored into a named one stay counted.         *)
Keeps(x) == x \in Names /\ IsPackage(heap, slot[x])
StoreKeeps(x) == leaky' = (leaky \/ Keeps(x)) /\ UNCHANGED field

-----------------------------------------------------------------------------
RefInit == heap = [o \in Ids |-> Free] /\ slot = [x \in Slots |-> None] /\ field = 0 /\ leaky = FALSE

(* Store(Buffer() {...}, x), Store(Package(n) {buffer, ...}, x),           *)
(* Store(1, x).                                                            *)
StoreInt(x) == CanMutate(State, x, RefNumber) /\ Becomes(StoreOp(State, RefNumber, x)) /\ UNCHANGED <<field, leaky>>
RefStoreBuffer(x) ==
  /\ Fits(2)
  /\ LET s == [State EXCEPT !.heap = lai_create_buffer(heap)]  v == Obj(Fresh(heap))
     IN  CanMutate(s, x, v) /\ Becomes(StoreOp(s, v, x))
  /\ UNCHANGED <<field, leaky>>
StorePackage(x, n, full) ==
  /\ full => n > 0
  /\ Fits(2 + (IF full THEN 2 ELSE 0))
  /\ LET p == Fresh(heap)  h == lai_create_pkg(heap, n)
         v == Obj(p)
         s == [State EXCEPT !.heap = IF full THEN [lai_create_buffer(h) EXCEPT ![p].elems[1] = Obj(Fresh(h))] ELSE h]
     IN  CanMutate(s, x, v) /\ Becomes(StoreOp(s, v, x))
  /\ StoreKeeps(x)

(* Store(y, x) and CopyObject(y, x).                                       *)
Store(y, x) ==
  /\ Fits(Weight(heap, slot[y])) /\ CanMutate(State, x, slot[y])
  /\ Becomes(StoreOp(RefLoad(y), slot[y], x)) /\ StoreKeeps(x)
CopyObject(y, x) ==
  /\ "copy" \in Ops /\ Fits(Weight(heap, slot[y]))
  /\ Becomes(CopyOp(RefLoad(y), slot[y], x)) /\ UNCHANGED <<field, leaky>>

InBounds(o, i) == IF heap[o].kind = "package" THEN i < heap[o].size ELSE i = 0

(* Index(y, i, x): the object of the operand and of the index.             *)
(* Mutant: no reference is taken for the index.                            *)
IndexUncounted(y, i, x) ==
  /\ "index" \in Ops /\ slot[y].t = "obj" /\ InBounds(slot[y].o, i) /\ CanMutate(State, x, At(slot[y].o, i))
  /\ Becomes([State EXCEPT !.slot[x] = At(slot[y].o, i), !.heap = lai_var_finalize(heap, slot[x])]) /\ UNCHANGED <<field, leaky>>
Index(y, i, x) ==
  /\ "index" \in Ops /\ slot[y].t = "obj" /\ InBounds(slot[y].o, i)
  /\ LET r == At(slot[y].o, i)
         s == [State EXCEPT !.heap = lai_rc_ref(heap, r)]
         done == lai_operand_mutate(s, x, r)
     IN  CanMutate(State, x, r) /\ Becomes([done EXCEPT !.heap = lai_var_finalize(done.heap, r)])
  /\ UNCHANGED <<field, leaky>>

(* What an index refers to must be inside the allocation; beyond it the    *)
(* code reads and writes what happens to be there.                         *)
Inside(v) == heap[v.o].kind = "package" => v.i < Len(heap[v.o].elems)

(* Store(y, Index(z, i)), and the store of a package index (copy takes and *)
(* drops a reference): a buffer takes a byte.                              *)
StoreAt(y, z, i) ==
  /\ "store_index" \in Ops /\ slot[z].t = "obj" /\ InBounds(slot[z].o, i)
  /\ IsPackage(heap, slot[z]) /\ Fits(Weight(heap, slot[y]))
  /\ LET r == lai_obj_clone(lai_rc_ref(heap, slot[z]), slot[y])
         put == AssignElem(r.heap, slot[z].o, i, r.v)
     IN  heap' = lai_var_finalize(lai_var_finalize(put, r.v), slot[z])
  /\ UNCHANGED <<slot, field, leaky>>

(* Store(DerefOf(y), x) with an index in y.  The reference that ref takes  *)
(* is never dropped.                                                       *)
Deref(y, x) ==
  /\ "deref" \in Ops /\ slot[y].t = "index" /\ Inside(slot[y]) /\ heap[slot[y].o].rc <= MAX_RC
  /\ LET h == lai_rc_ref(heap, slot[y])
         v == IF heap[slot[y].o].kind = "package" THEN heap[slot[y].o].elems[slot[y].i + 1] ELSE RefNumber
         s == [State EXCEPT !.heap = lai_rc_ref(h, v)]
     IN  /\ Fits(Weight(heap, v)) /\ CanMutate(s, x, v)
         /\ Becomes(StoreOp(s, v, x))
  /\ leaky' = TRUE /\ UNCHANGED field

(* SizeOf(y): object is never finalized.                                   *)
SizeOf(y) ==
  /\ "sizeof" \in Ops /\ slot[y].t = "obj" /\ heap[slot[y].o].rc < MAX_RC
  /\ heap' = lai_rc_ref(heap, slot[y]) /\ leaky' = TRUE /\ UNCHANGED <<slot, field>>

(* CreateField(y, ...): the field keeps the buffer.                        *)
CreateField(y) ==
  /\ "field" \in Ops /\ field = 0 /\ IsBuffer(heap, slot[y])
  /\ field' = slot[y].o /\ heap' = lai_rc_ref(heap, slot[y]) /\ UNCHANGED <<slot, leaky>>

(* The end of the method: the field is removed, then the locals are        *)
(* finalized (lai_exec_pop_ctxstack_back).                                 *)
MethodEnd ==
  /\ "end" \in Ops
  /\ LET h == IF field = 0 THEN heap ELSE lai_var_finalize(heap, Obj(field))
         locals == SetToSeq(Locals)
     IN  heap' = FinalizeAll(h, [k \in 1..Len(locals) |-> slot[locals[k]]])
  /\ slot' = [x \in Slots |-> IF x \in Locals THEN None ELSE slot[x]] /\ field' = 0 /\ UNCHANGED leaky

RefNext ==
  \/ \E x \in Slots : \/ StoreInt(x) \/ RefStoreBuffer(x) \/ SizeOf(x) \/ CreateField(x)
                      \/ \E n \in 0..SIZE, full \in BOOLEAN : StorePackage(x, n, full)
                      \/ \E y \in Slots : \/ Store(y, x) \/ CopyObject(y, x) \/ Deref(y, x)
                                          \/ \E i \in 0..(SIZE - 1) : Index(y, i, x) \/ StoreAt(y, x, i)
  \/ MethodEnd

RefSpec == RefInit /\ [][RefNext]_refVars

-----------------------------------------------------------------------------
Live == {o \in Ids : heap[o].kind # "free"}
RefElements == {<<p, i>> \in Live \X (1..SIZE) : i <= Len(heap[p].elems)}
Elem(e) == heap[e[1]].elems[e[2]]

(* References to o that a variable, an element or the field has, and how   *)
(* many of them hold it as their object.                                   *)
RefCount(o) ==
  Cardinality({x \in Slots : RefHolds(slot[x]) /\ slot[x].o = o})
    + Cardinality({e \in RefElements : RefHolds(Elem(e)) /\ Elem(e).o = o}) + (IF field = o THEN 1 ELSE 0)
Owners(o) ==
  Cardinality({x \in Slots : slot[x] = Obj(o)}) + Cardinality({e \in RefElements : e[2] <= heap[e[1]].size /\ Elem(e) = Obj(o)})

(* An object is there as long as its count is not 0, and a package has     *)
(* room for its elements.                                                  *)
RefTypeOK ==
  /\ \A o \in Ids : /\ heap[o].kind \in {"free", "buffer", "package"}
                     /\ (heap[o].rc > 0) = (heap[o].kind # "free")
                     /\ heap[o].size <= Len(heap[o].elems)
  /\ \A x \in Slots : slot[x].t \in {"none", "int", "obj", "index"}
  /\ field \in {0} \cup Ids

(* Whatever operators are used, no variable, element or field refers to an *)
(* object that was freed, and no count is less than the references there   *)
(* are (lai_rc_ref, lai_var_finalize).                                     *)
Counted ==
  /\ \A x \in Slots : RefHolds(slot[x]) => slot[x].o \in Live
  /\ \A e \in RefElements : RefHolds(Elem(e)) => Elem(e).o \in Live
  /\ field # 0 => field \in Live
  /\ \A o \in Live : heap[o].rc >= RefCount(o)

(* Stores copy: no two variables or elements hold the same object, so that *)
(* a change in place of one is not seen in the other (lai_obj_clone).      *)
NoAlias == \A o \in Live : Owners(o) <= 1

(* Counts are exact between two operators, so that what nothing refers to  *)
(* is freed with its elements (lai_var_finalize, laihost_free_package), as *)
(* long as no operator ran that keeps a reference: DerefOf of an index,    *)
(* SizeOf, and a store of a package into a named one.                      *)
Exact == ~leaky => \A o \in Live : heap[o].rc = RefCount(o)

(***************************************************************************)
(* Objects are safe and separate: what is referred to is not freed, two    *)
(* variables never share an object that one of them could change, and what *)
(* nothing refers to is freed (unless one of the operators that keep a     *)
(* reference ran).                                                         *)
(***************************************************************************)
ReferencesSound == RefTypeOK /\ Counted /\ NoAlias /\ Exact
=============================================================================

----------------------------- MODULE LaiNames -----------------------------
(***************************************************************************)
(* Names of the ACPI namespace and how LAI resolves them (lai/core/ns.c).  *)
(* The namespace is the sequence of all nodes ever created: a node is      *)
(* identified by its position, the root is node 1, and no node is freed    *)
(* (lai_uninstall_nsnode only unlinks it).  "linked" says that the node is *)
(* in the hash table of its parent, where look-ups find it.                *)
(*                                                                         *)
(* A name is [abs, height, segs]: is it absolute, how many scopes does it  *)
(* leave first, and its segments.                                          *)
(***************************************************************************)
EXTENDS Integers, Sequences, FiniteSetsExt

Root == 1
Null == 0   \* the NULL pointer

(***************************************************************************)
(* lai_ns_get_child: the linked child of that name.                        *)
(***************************************************************************)
Child(ns, parent, seg) ==
  LET Found == {n \in DOMAIN ns : ns[n].linked /\ ns[n].parent = parent /\ ns[n].name = seg}
  IN  IF Found = {} THEN Null ELSE Min(Found)

(***************************************************************************)
(* The node h scopes above n; leaving the root stays at the root.          *)
(***************************************************************************)
Ancestor(ns, n, h) ==
  LET above == [m \in DOMAIN ns |-> IF m = Root THEN Root ELSE ns[m].parent]
      up[i \in 0..h] == IF i = 0 THEN n ELSE above[up[i - 1]]
  IN  up[h]

(* Only a single segment without prefix is searched in all scopes above.   *)
SearchScopes(name) == ~name.abs /\ name.height = 0 /\ Len(name.segs) = 1

(* Follow the first i segments from a node; Null once one is missing.      *)
Descend(ns, from, segs, i) ==
  LET below == [n \in {Null} \cup DOMAIN ns |-> [j \in 1..i |-> IF n = Null THEN Null ELSE Child(ns, n, segs[j])]]
      at[j \in 0..i] == IF j = 0 THEN from ELSE below[at[j - 1]][j]
  IN  at[i]

Start(ns, ctx, name) == IF name.abs THEN Root ELSE Ancestor(ns, ctx, name.height)

FollowAlias(ns, n) == IF n # Null /\ ns[n].type = "ALIAS" THEN ns[n].val ELSE n

(***************************************************************************)
(* lai_do_resolve: the node a name means in the scope ctx, or Null.        *)
(***************************************************************************)
Resolve(ns, ctx, name) ==
  IF SearchScopes(name)
  THEN LET seg == name.segs[1]
           Scopes == {h \in 0..Len(ns) : Child(ns, Ancestor(ns, ctx, h), seg) # Null}
       IN  IF Scopes = {} THEN Null
           ELSE FollowAlias(ns, Child(ns, Ancestor(ns, ctx, Min(Scopes)), seg))
  ELSE FollowAlias(ns, Descend(ns, Start(ns, ctx, name), name.segs, Len(name.segs)))

(***************************************************************************)
(* lai_do_resolve_new_node and lai_install_nsnode: the node that a         *)
(* definition of "name" in the scope ctx creates.  Aliases on the way to   *)
(* its parent are followed.  A duplicate stays unlinked.                   *)
(***************************************************************************)
NewParent(ns, ctx, name) ==
  LET last == Len(name.segs) - 1
      at[j \in 0..last] ==
        IF j = 0 THEN Start(ns, ctx, name)
        ELSE FollowAlias(ns, Child(ns, at[j - 1], name.segs[j]))
  IN  at[last]

NewNode(ns, ctx, name, type, val) ==
  LET parent == NewParent(ns, ctx, name)
      seg == name.segs[Len(name.segs)]
  IN  [name |-> seg, parent |-> parent, type |-> type, val |-> val,
       linked |-> Child(ns, parent, seg) = Null]

RootNode == [name |-> "\\___", parent |-> Null, type |-> "ROOT", val |-> Null, linked |-> FALSE]
=============================================================================

----------------------------- MODULE LaiRouting -----------------------------
(***************************************************************************)
(* Resources of devices and the routing of PCI interrupts                  *)
(* (cpu/lai/helpers/resource.c, cpu/lai/helpers/pci.c): the iterator over  *)
(* a resource template, the older lai_read_resource, and the search from a *)
(* pin over the bus, its routing table and a link device to an interrupt.  *)
(*                                                                         *)
(* A template is a sequence of descriptors; a table, a sequence of         *)
(* entries.  One step is one turn of a loop of the code.                   *)
(***************************************************************************)
EXTENDS Integers, Sequences, SequencesExt

CONSTANTS
  IRQS,         \* 16: bits of the mask of a small IRQ descriptor
  BYTE,         \* 8: bits of the variable that lai_resource_next_irq puts it in
  REACH,        \* 63: interrupts of a large descriptor a one-byte offset reaches
  Machines      \* the namespaces there are

(* What a name evaluates to: it may be absent, or its evaluation may fail. *)
Absent == [st |-> "absent"]
Fails == [st |-> "fails"]
Is(x) == [st |-> "ok", v |-> x]

(* Bits of the flags of a small and of a large IRQ descriptor.             *)
SMALL_EDGE == 0
SMALL_LOW == 3
EXTENDED_EDGE == 1
EXTENDED_LOW == 2

IsIrq(d) == d.type \in {"irq", "ext"}
EndsWell(t) == t # <<>> /\ Last(t).type = "end"

(* [sb : Seq([root, bbn, seg, prt, devices : Seq(_ADR)]), link : _CRS]:    *)
(* a template ends with the end tag.                                       *)
ASSUME LaiRoutingAssumption ==
  /\ BYTE \in Nat \ {0} /\ IRQS \in Nat /\ BYTE <= IRQS /\ REACH \in Nat \ {0}
  /\ \A m \in Machines : m.link.st = "ok" => EndsWell(m.link.v)

VARIABLES
  machine,
  routeCall,         \* the arguments
  routePc,           \* "idle", "bus", "prt", "entry", "link", "list", "irqs", "read", "device", "done"
  at,           \* the child, entry or descriptor of the loop
  node,         \* the bridge that was found
  view,         \* lai_resource_view
  current,
  out           \* what is returned

routeVars == <<machine, routeCall, routePc, at, node, view, current, out>>

Seg == 0..1
Slot == 0..1
Function == 0..1
AnyFunction == -1

NoView == [at |-> 1, skip |-> 0, idx |-> 0, flags |-> {}, gsi |-> 0]
NoResult == [st |-> "none"]
Failed == [st |-> "error"]

-----------------------------------------------------------------------------
(***************************************************************************)
(* The iterator over a template.                                           *)
(***************************************************************************)
(* lai_resource_iterate: the descriptor skip further on, and LAI_ERROR_    *)
(* NONE, END_REACHED or UNEXPECTED_RESULT.                                 *)
Moved(v, d) ==
  CASE d.type = "irq" /\ d.size = 2 -> [v EXCEPT !.idx = 0, !.flags = {SMALL_EDGE}, !.skip = 1]
    [] d.type = "irq" /\ d.size = 3 -> [v EXCEPT !.idx = 0, !.flags = d.flags, !.skip = 1]
    [] d.type = "irq" /\ d.size \notin {2, 3} -> [v EXCEPT !.idx = 0]
    [] d.type = "ext" -> [v EXCEPT !.idx = 0, !.flags = d.flags, !.skip = 1]
    [] OTHER -> [v EXCEPT !.skip = 1]
lai_resource_iterate(v, t) ==
  LET w == [v EXCEPT !.at = @ + v.skip]  d == t[w.at]
  IN  [view |-> Moved(w, d),
       err |-> IF d.type = "end" THEN "end" ELSE IF d.type = "irq" /\ d.size \notin {2, 3} THEN "unexpected" ELSE "none"]

(* The mask is put into one byte.                                          *)
Truncated(mask) == {i \in mask : i < BYTE}

(* A one-byte offset wraps: past REACH it is the header that is read,      *)
(* which is no interrupt of the descriptor.                                *)
Entry(d, i) == IF i < REACH THEN d.gsis[i + 1] ELSE -1

lai_resource_next_irq(v, t) ==
  LET d == t[v.at]  left == {i \in Truncated(d.mask) : i >= v.idx}  next == CHOOSE i \in left : \A j \in left : i <= j
  IN  CASE d.type = "irq" /\ left # {} -> [view |-> [v EXCEPT !.gsi = next, !.idx = next + 1], err |-> "none"]
        [] d.type = "irq" /\ left = {} -> [view |-> [v EXCEPT !.idx = IRQS], err |-> "end"]
        [] d.type = "ext" /\ v.idx < Len(d.gsis) -> [view |-> [v EXCEPT !.gsi = Entry(d, v.idx), !.idx = @ + 1], err |-> "none"]
        [] d.type = "ext" /\ v.idx >= Len(d.gsis) -> [view |-> v, err |-> "end"]
        [] OTHER -> [view |-> v, err |-> "illegal"]

lai_resource_irq_is_level_triggered(v, t) ==
  LET d == t[v.at]
  IN  IF d.type = "irq" THEN d.size >= 3 /\ SMALL_EDGE \notin d.flags ELSE EXTENDED_EDGE \notin d.flags

(* Mutant: the bit of a small descriptor is looked at in both kinds.       *)
LowAsSmall(v, t) == t[v.at].size >= 3 /\ SMALL_LOW \in t[v.at].flags
lai_resource_irq_is_active_low(v, t) ==
  LET d == t[v.at]
  IN  IF d.type = "irq" THEN d.size >= 3 /\ SMALL_LOW \in d.flags ELSE EXTENDED_LOW \in d.flags

-----------------------------------------------------------------------------
RouteInit ==
  /\ machine \in Machines
  /\ routeCall = NoResult /\ routePc = "idle" /\ at = 1 /\ node = 0 /\ view = NoView /\ current = 0 /\ out = NoResult

RouteBegin(args, to) ==
  /\ routePc = "idle"
  /\ routeCall' = args /\ routePc' = to /\ at' = 1 /\ node' = 0 /\ view' = NoView /\ current' = 0
  /\ UNCHANGED machine

RouteReturn(result) == routePc' = "done" /\ out' = result

RouteIdle ==
  /\ routePc = "done"
  /\ routePc' = "idle" /\ routeCall' = NoResult /\ at' = 1 /\ node' = 0 /\ view' = NoView /\ current' = 0 /\ out' = NoResult
  /\ UNCHANGED machine

(***************************************************************************)
(* Routing.                                                                *)
(***************************************************************************)
(* The pin is in the configuration space, where 1 to 4 are pins; ACPI      *)
(* numbers them from 0.                                                    *)
AcpiPin(pin) == pin - 1
lai_pci_route ==
  \E s, b \in Seg, slot \in Slot, f \in Function, pin \in 0..5 :
    IF pin \in 1..4
    THEN RouteBegin([op |-> "route", seg |-> s, bus |-> b, slot |-> slot, function |-> f, pin |-> AcpiPin(pin), read |-> pin], "bus") /\ UNCHANGED out
    ELSE RouteBegin([op |-> "route", seg |-> s, bus |-> b, slot |-> slot, function |-> f, pin |-> pin, read |-> pin], "done") /\ out' = Failed

(* A name that is absent counts as 0.                                      *)
Number(x) == IF x.st = "ok" THEN x.v ELSE 0
IsBus(n, s, b) ==
  /\ n.root /\ n.bbn.st # "fails" /\ n.seg.st # "fails"
  /\ Number(n.seg) = s /\ Number(n.bbn) = b

lai_pci_find_bus ==
  /\ routePc = "bus"
  /\ \/ /\ at > Len(machine.sb)
        /\ RouteReturn(Failed) /\ UNCHANGED <<at, node>>
     \/ /\ at <= Len(machine.sb) /\ IsBus(machine.sb[at], routeCall.seg, routeCall.bus)
        /\ node' = at /\ routePc' = "prt" /\ UNCHANGED <<at, out>>
     \/ /\ at <= Len(machine.sb) /\ ~IsBus(machine.sb[at], routeCall.seg, routeCall.bus)
        /\ at' = at + 1 /\ UNCHANGED <<routePc, node, out>>
  /\ UNCHANGED <<machine, routeCall, view, current>>

(* The evaluation of _PRT.                                                 *)
lai_pci_route_pin ==
  /\ routePc = "prt"
  /\ IF machine.sb[node].prt.st = "ok" THEN routePc' = "entry" /\ at' = 1 /\ UNCHANGED out ELSE RouteReturn(Failed) /\ UNCHANGED at
  /\ UNCHANGED <<machine, routeCall, node, view, current>>

Prt == machine.sb[node].prt.v
Matches(e) == e.slot = routeCall.slot /\ (e.function = routeCall.function \/ e.function = AnyFunction) /\ e.pin = routeCall.pin

(* The interrupt of the entry at at is known: the answer, if the entry is  *)
(* the one, or the next entry.                                             *)
Compare(gsi, level, low) ==
  IF Matches(Prt[at])
  THEN /\ RouteReturn([st |-> "irq", gsi |-> gsi, flags |-> (IF level THEN {} ELSE {SMALL_EDGE}) \cup (IF low THEN {SMALL_LOW} ELSE {})])
       /\ UNCHANGED at
  ELSE routePc' = "entry" /\ at' = at + 1 /\ UNCHANGED out

(* An entry is of type "gsi", "link", "short" (an object is missing or is  *)
(* no integer) or "other".                                                 *)
lai_pci_parse_prt ==
  /\ routePc = "entry"
  /\ \/ /\ at <= Len(Prt) => Prt[at].type \in {"short", "other"}
        /\ RouteReturn(Failed) /\ UNCHANGED <<at, view, current>>
     \/ /\ at <= Len(Prt) /\ Prt[at].type = "gsi"
        /\ Compare(Prt[at].index, TRUE, TRUE) /\ UNCHANGED <<view, current>>
     \/ /\ at <= Len(Prt) /\ Prt[at].type = "link" /\ machine.link.st # "ok"
        /\ RouteReturn(Failed) /\ UNCHANGED <<at, view, current>>
     \/ /\ at <= Len(Prt) /\ Prt[at].type = "link" /\ machine.link.st = "ok"
        /\ routePc' = "link" /\ view' = NoView /\ current' = 0 /\ UNCHANGED <<at, out>>
  /\ UNCHANGED <<machine, routeCall, node>>

(* The descriptor of the link device that the entry names by its index.    *)
LinkResource ==
  /\ routePc = "link"
  /\ LET t == machine.link.v  it == lai_resource_iterate(view, t)  nx == lai_resource_next_irq(it.view, t)
     IN  \/ /\ it.err # "none"
            /\ RouteReturn(Failed) /\ UNCHANGED <<at, view, current>>
         \/ /\ it.err = "none" /\ current # Prt[at].index
            /\ view' = it.view /\ current' = current + 1 /\ UNCHANGED <<at, routePc, out>>
         \/ /\ it.err = "none" /\ current = Prt[at].index /\ (~IsIrq(t[it.view.at]) \/ nx.err # "none")
            /\ RouteReturn(Failed) /\ UNCHANGED <<at, view, current>>
         \/ /\ it.err = "none" /\ current = Prt[at].index /\ IsIrq(t[it.view.at]) /\ nx.err = "none"
            /\ view' = nx.view /\ UNCHANGED current
            /\ Compare(nx.view.gsi, lai_resource_irq_is_level_triggered(nx.view, t), lai_resource_irq_is_active_low(nx.view, t))
  /\ UNCHANGED <<machine, routeCall, node>>

-----------------------------------------------------------------------------
(***************************************************************************)
(* The interrupts of a device: by the iterator, as a caller uses it, and   *)
(* by lai_read_resource.                                                   *)
(***************************************************************************)
ListIrqs == machine.link.st = "ok" /\ RouteBegin([op |-> "list"], "list") /\ out' = [st |-> "irqs", list |-> <<>>]

NextResource ==
  /\ routePc = "list"
  /\ LET it == lai_resource_iterate(view, machine.link.v)
     IN  /\ view' = it.view
         /\ IF it.err = "none" THEN routePc' = "irqs" ELSE routePc' = "done"
  /\ UNCHANGED <<machine, routeCall, at, node, current, out>>

NextIrq ==
  /\ routePc = "irqs"
  /\ LET nx == lai_resource_next_irq(view, machine.link.v)
     IN  /\ view' = nx.view
         /\ IF nx.err = "none"
            THEN out' = [out EXCEPT !.list = Append(@, <<nx.view.gsi, nx.view.flags>>)] /\ UNCHANGED routePc
            ELSE routePc' = "list" /\ UNCHANGED out
  /\ UNCHANGED <<machine, routeCall, at, node, current>>

lai_read_resource ==
  RouteBegin([op |-> "read"], IF machine.link.st = "ok" THEN "read" ELSE "done") /\ out' = [st |-> "irqs", list |-> <<>>]

(* The mask of the code is 16 bits wide here; a large descriptor gives its *)
(* first interrupt; anything else ends the loop with no resources.         *)
SmallIrqs(d, flags) == [i \in 1..Len(SetToSortSeq(d.mask, <)) |-> <<SetToSortSeq(d.mask, <)[i], flags>>]
ReadDescriptor ==
  /\ routePc = "read"
  /\ LET d == machine.link.v[at]
     IN  \/ /\ d.type = "irq"
            /\ out' = [out EXCEPT !.list = @ \o SmallIrqs(d, IF d.size >= 3 THEN d.flags ELSE {SMALL_EDGE})]
            /\ at' = at + 1 /\ UNCHANGED routePc
         \/ /\ d.type = "ext"
            /\ out' = [out EXCEPT !.list = Append(@, <<d.gsis[1], d.flags>>)]
            /\ at' = at + 1 /\ UNCHANGED routePc
         \/ /\ d.type = "end"
            /\ RouteReturn(out) /\ UNCHANGED at
         \/ /\ d.type \notin {"irq", "ext", "end"}
            /\ RouteReturn([st |-> "irqs", list |-> <<>>]) /\ UNCHANGED at
  /\ UNCHANGED <<machine, routeCall, node, view, current>>

(***************************************************************************)
(* The device at a slot and function of the first bus.  An _ADR that is no *)
(* integer ("other") leaves adr_result as it was on the stack.             *)
(***************************************************************************)
lai_pci_find_device ==
  /\ machine.sb # <<>>
  /\ \E slot \in Slot, f \in Function : RouteBegin([op |-> "device", adr |-> <<slot, f>>], "device") /\ UNCHANGED out

NextDevice ==
  /\ routePc = "device"
  /\ LET devices == machine.sb[1].devices
         result == IF devices[at].st = "ok" THEN {devices[at].v} ELSE Slot \X Function
     IN  \/ /\ at > Len(devices)
            /\ RouteReturn(Failed) /\ UNCHANGED at
         \/ /\ at <= Len(devices) /\ devices[at].st \in {"ok", "other"}
            /\ \E adr \in result :
                 IF adr = routeCall.adr THEN RouteReturn([st |-> "device", v |-> at]) /\ UNCHANGED at ELSE at' = at + 1 /\ UNCHANGED <<routePc, out>>
         \/ /\ at <= Len(devices) /\ devices[at].st \notin {"ok", "other"}
            /\ at' = at + 1 /\ UNCHANGED <<routePc, out>>
  /\ UNCHANGED <<machine, routeCall, node, view, current>>

RouteStep ==
  \/ lai_pci_find_bus \/ lai_pci_route_pin \/ lai_pci_parse_prt \/ LinkResource
  \/ NextResource \/ NextIrq \/ ReadDescriptor \/ NextDevice

RouteNext == lai_pci_route \/ ListIrqs \/ lai_read_resource \/ lai_pci_find_device \/ RouteStep \/ RouteIdle

RouteFairness == WF_routeVars(RouteStep)

RouteSpec == RouteInit /\ [][RouteNext]_routeVars /\ RouteFairness

-----------------------------------------------------------------------------
(***************************************************************************)
(* What the tables say.                                                    *)
(***************************************************************************)
(* All interrupts of a descriptor, and what each one is.                   *)
Irqs(d) == IF d.type = "irq" THEN SetToSortSeq(d.mask, <) ELSE IF d.type = "ext" THEN d.gsis ELSE <<>>
Level(d) == IF d.type = "irq" THEN d.size = 3 /\ SMALL_EDGE \notin d.flags ELSE EXTENDED_EDGE \notin d.flags
Low(d) == IF d.type = "irq" THEN d.size = 3 /\ SMALL_LOW \in d.flags ELSE EXTENDED_LOW \in d.flags
WellFormed(d) == d.type = "irq" => d.size \in {2, 3}

Declared(t) ==
  FoldLeft(LAMBDA acc, d : acc \o [i \in 1..Len(Irqs(d)) |-> <<Irqs(d)[i], IF d.type = "irq" /\ d.size = 2 THEN {SMALL_EDGE} ELSE d.flags>>],
           <<>>, t)

(* The first bridge of the segment and bus, and its first entry for the    *)
(* pin as the configuration space has it.                                  *)
Says(x, v) == x = Is(v) \/ (x = Absent /\ v = 0)
Serving == {i \in 1..Len(machine.sb) : machine.sb[i].root /\ Says(machine.sb[i].bbn, routeCall.bus) /\ Says(machine.sb[i].seg, routeCall.seg)}
HasBridge == Serving # {}
Bridge == CHOOSE i \in Serving : \A j \in Serving : i <= j

EntryFor(e) == e.slot = routeCall.slot /\ e.function \in {routeCall.function, AnyFunction} /\ e.pin + 1 = routeCall.read
Usable(e) ==
  \/ e.type = "gsi"
  \/ /\ e.type = "link" /\ machine.link.st = "ok" /\ e.index + 1 < Len(machine.link.v)
     /\ Irqs(machine.link.v[e.index + 1]) # <<>>
     /\ \A i \in 1..(e.index + 1) : WellFormed(machine.link.v[i]) /\ machine.link.v[i].type # "end"
RouteOf(e) ==
  LET d == machine.link.v[e.index + 1]
  IN  IF e.type = "gsi" THEN [gsi |-> e.index, level |-> TRUE, low |-> TRUE]
      ELSE [gsi |-> Irqs(d)[1], level |-> Level(d), low |-> Low(d)]

-----------------------------------------------------------------------------
(* The loops stay inside what they go through.                             *)
RouteTypeOK ==
  /\ machine \in Machines
  /\ routePc \in {"idle", "bus", "prt", "entry", "link", "list", "irqs", "read", "device", "done"}
  /\ machine.link.st = "ok" => view.at \in 1..Len(machine.link.v)
  /\ machine.link.st = "ok" /\ machine.link.v[view.at].type = "irq" => view.idx \in 0..IRQS
  /\ at \in Nat \ {0} /\ node \in 0..Len(machine.sb)

(* An interrupt that is returned is the one the first entry for the slot,  *)
(* function and pin declares, with the flags in the bits of a small        *)
(* descriptor whichever the link device uses (lai_pci_route_pin).          *)
RouteCorrect ==
  routePc = "done" /\ out.st = "irq" =>
    /\ HasBridge
    /\ LET prt == machine.sb[Bridge].prt.v
       IN  \E i \in 1..Len(prt) :
             /\ EntryFor(prt[i]) /\ \A j \in 1..(i - 1) : ~EntryFor(prt[j])
             /\ out.gsi = RouteOf(prt[i]).gsi
             /\ (SMALL_EDGE \in out.flags) = ~RouteOf(prt[i]).level
             /\ (SMALL_LOW \in out.flags) = RouteOf(prt[i]).low

(* An interrupt is found when there is an entry for the pin and neither it *)
(* nor an entry before it is unusable (lai_pci_parse_prt).                 *)
RouteFound ==
  routePc = "done" /\ routeCall.op = "route" /\ out.st = "error" =>
    ~ (/\ routeCall.read \in 1..4 /\ HasBridge /\ machine.sb[Bridge].prt.st = "ok"
       /\ LET prt == machine.sb[Bridge].prt.v
          IN  \E i \in 1..Len(prt) : EntryFor(prt[i]) /\ \A j \in 1..i : Usable(prt[j]))

(* The iterator goes through every interrupt of the template, in order,    *)
(* with its flags (lai_resource_iterate, lai_resource_next_irq).           *)
ViewListsIrqs ==
  routePc = "done" /\ routeCall.op = "list" /\ (\A i \in 1..Len(machine.link.v) : WellFormed(machine.link.v[i])) =>
    out.list = Declared(machine.link.v)

(* lai_read_resource returns the interrupts of a template that has nothing *)
(* but IRQ descriptors, the large ones with one interrupt each.            *)
ReadListsIrqs ==
  /\ routePc = "done" /\ routeCall.op = "read" /\ machine.link.st = "ok"
  /\ \A i \in 1..(Len(machine.link.v) - 1) :
       IsIrq(machine.link.v[i]) /\ WellFormed(machine.link.v[i]) /\ (machine.link.v[i].type = "ext" => Len(machine.link.v[i].gsis) = 1)
  => out.list = Declared(machine.link.v)

(* A device that is returned has the address, unless its _ADR is no        *)
(* integer; an error means that no device has it (lai_pci_find_device).    *)
DeviceCorrect ==
  routePc = "done" /\ routeCall.op = "device" =>
    LET devices == machine.sb[1].devices
    IN  IF out.st = "device" THEN devices[out.v] = Is(routeCall.adr) \/ devices[out.v].st = "other"
        ELSE \A i \in 1..Len(devices) : devices[i] # Is(routeCall.adr)

(* Every call returns.                                                     *)
CallsReturn == routePc \notin {"idle", "done"} ~> routePc = "done"

(***************************************************************************)
(* Routing is correct: every call returns, a pin is routed to the          *)
(* interrupt the firmware declares for it whenever there is a usable one,  *)
(* and the iterator, the reader of resources and the search for a device   *)
(* find what the templates and addresses say.                              *)
(***************************************************************************)
RoutingCorrect ==
  /\ CallsReturn
  /\ [](RouteTypeOK /\ RouteCorrect /\ RouteFound /\ ViewListsIrqs /\ ReadListsIrqs /\ DeviceCorrect)
=============================================================================

--------------------------- MODULE MCLaiPlatform ---------------------------
(***************************************************************************)
(* LAI's synchronisation, its driver of the embedded controller, its power *)
(* management and its routing of interrupts on small instances.  As in     *)
(* MCDrivers one of them runs in each behaviour (part); the others stay in *)
(* an initial state of theirs.                                             *)
(***************************************************************************)
EXTENDS LaiSync, LaiEc, LaiPm, LaiRouting

VARIABLE part

vars == <<part, syncVars, ecVars, pmVars, routeVars>>

MCMaxOps == [t \in Threads |-> 2]

-----------------------------------------------------------------------------
(* Calls of the embedded controller: reads and writes of one and two       *)
(* bytes, and queries.                                                     *)
EcCallOf(kind, o, bytes) == [kind |-> kind, offset |-> o, bytes |-> bytes]
MCEcCalls ==
  {EcCallOf(k, o, <<0>>) : k \in {"read", "get"}, o \in Offsets} \cup {EcCallOf("query", 0, <<0>>), EcCallOf("get", 0, <<0, 0>>)}
    \cup {EcCallOf("put", o, <<v>>) : o \in Offsets, v \in Values}
    \cup {EcCallOf("put", 0, b) : b \in {<<0, 1>>, <<1, 0>>}} \cup {EcCallOf("write", 0, <<v>>) : v \in Values}

MCEcdts == {NoEcdt, <<"io", "io">>, <<"io", "mmio">>, <<"mmio", "io">>}
MCCrsLists == {<<>>, <<"io">>, <<"io", "irq">>, <<"irq">>, <<"io", "io">>}

-----------------------------------------------------------------------------
(* One sleep state, whose types differ between the blocks; a bus with a    *)
(* device below it and a device beside it; a button of the second block.   *)
MCPackages == [s \in {"_S5"} |-> [b \in {"a", "b"} |-> IF b = "a" THEN 5 ELSE 6]]
MCTree == [n \in {"_SB_", "PCI0", "LPC", "PWRB"} |->
             [children |-> CASE n = "_SB_" -> <<"PCI0", "PWRB">> [] n = "PCI0" -> <<"LPC">> [] OTHER -> <<>>,
              ini |-> n # "PWRB"]]
MCRaised == {<<"b", "PWRBTN">>}

-----------------------------------------------------------------------------
(* Resource templates, routing tables and namespaces.                      *)
Descriptor(type, size, mask, gsis, flags) == [type |-> type, size |-> size, mask |-> mask, gsis |-> gsis, flags |-> flags]
Small(mask, flags) == Descriptor("irq", 3, mask, <<>>, flags)
Short(mask) == Descriptor("irq", 2, mask, <<>>, {})
Broken == Descriptor("irq", 1, {0}, <<>>, {})
Large(gsis, flags) == Descriptor("ext", 6, {}, gsis, flags)
Io == Descriptor("io", 7, {}, <<>>, {})
End == Descriptor("end", 1, {}, <<>>, {})

Templates ==
  {<<End>>, <<Small({0}, {SMALL_LOW}), Small({0, 1}, {SMALL_EDGE}), End>>, <<Io, Short({1}), End>>,
   <<Short({0, 1}), Large(<<7>>, {EXTENDED_LOW}), End>>, <<Large(<<5, 6>>, {EXTENDED_EDGE}), Io, Short({1}), End>>,
   <<Small({}, {}), Short({0}), End>>, <<Short({0}), Broken, Short({1}), End>>,
   <<Large(<<9>>, {}), Large(<<8>>, {EXTENDED_EDGE}), End>>}

Line(device, function, pin, type, index) == [slot |-> device, function |-> function, pin |-> pin, type |-> type, index |-> index]
Tables ==
  {<<>>, <<Line(0, AnyFunction, 0, "gsi", 3), Line(0, 0, 0, "gsi", 4), Line(1, 1, 3, "link", 1)>>,
   <<Line(0, 1, 1, "link", 0), Line(0, AnyFunction, 1, "gsi", 2)>>, <<Line(1, 0, 2, "other", 0), Line(0, 0, 0, "link", 2)>>,
   <<Line(0, 0, 0, "link", 1), Line(0, 0, 3, "short", 0), Line(1, 0, 3, "gsi", 6)>>}

Child(root, bbn, seg, prt, devices) == [root |-> root, bbn |-> bbn, seg |-> seg, prt |-> prt, devices |-> devices]
NoBridge == Child(FALSE, Absent, Absent, Absent, <<>>)
Adrs == <<Absent, Is(<<0, 1>>), [st |-> "other"], Fails, Is(<<1, 0>>)>>
Namespaces ==
  {<<>>, <<NoBridge, Child(TRUE, Fails, Absent, Is(<<>>), <<>>)>>,
   <<Child(TRUE, Is(0), Fails, Absent, <<>>), Child(TRUE, Absent, Absent, Fails, <<Is(<<0, 0>>)>>)>>}
  \cup {<<Child(TRUE, Absent, Is(1), Is(<<Line(0, 0, 0, "gsi", 1)>>), Adrs), NoBridge, Child(TRUE, Is(1), Absent, Absent, <<>>),
          Child(TRUE, Absent, Absent, Is(q), <<>>)>> : q \in Tables}

MCMachines == {[sb |-> b, link |-> l] : b \in Namespaces, l \in {Absent, Fails} \cup {Is(t) : t \in Templates}}

-----------------------------------------------------------------------------
Init ==
  /\ part \in {"sync", "ec", "pm", "route"}
  /\ part = "route" \/ machine = [sb |-> <<>>, link |-> Absent]
  /\ SyncInit /\ EcInit /\ PmInit /\ RouteInit

Next ==
  \/ part = "sync" /\ SyncNext /\ UNCHANGED <<part, ecVars, pmVars, routeVars>>
  \/ part = "ec" /\ EcNext /\ UNCHANGED <<part, syncVars, pmVars, routeVars>>
  \/ part = "pm" /\ PmNext /\ UNCHANGED <<part, syncVars, ecVars, routeVars>>
  \/ part = "route" /\ RouteNext /\ UNCHANGED <<part, syncVars, ecVars, pmVars>>

(* A part that is not called has no step to be fair to.                    *)
Fairness == SyncFairness /\ EcFairness /\ PmFairness /\ RouteFairness

Spec == Init /\ [][Next]_vars /\ Fairness
=============================================================================

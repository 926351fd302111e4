----------------------------- MODULE MCDrivers -----------------------------
(***************************************************************************)
(* The drivers, the scheduler and the kernel's library on small instances. *)
(* They share no variables, so one of them runs in each behaviour (part)   *)
(* and the others stay in an initial state of theirs; every behaviour of   *)
(* every one is checked, and none of their products.                       *)
(***************************************************************************)
EXTENDS XhciRing, PciXhci, Ps2, Serial, Sched, List, Memory

VARIABLE part

Parts == {"ring", "pci", "ps2", "com", "sched", "list", "mem"}
vars == <<part, ringVars, pciVars, ps2Vars, comVars, schedVars, listVars, memVars>>

(* Functions of a bus, with their capabilities as <<address, id, next>>.   *)
Caps(triples) == [a \in {t[1] : t \in triples} |-> LET t == CHOOSE t \in triples : t[1] = a IN [id |-> t[2], next |-> t[3]]]
Fn(kind, intrs, start, caps) ==
  [kind |-> kind, hcc |-> 135, interrupters |-> intrs, start |-> start, caps |-> Caps(caps), off |-> 512]

MsixFirst  == Fn("xhci", 16, 144, {<<144, 17, 160>>, <<160, 16, 0>>})
MsixSecond == Fn("xhci", 8, 64, {<<64, 1, 12>>, <<112, 17, 0>>})
NoMsixAtAll == Fn("xhci", 8, 80, {<<80, 1, 20>>, <<160, 5, 0>>})
NoInterrupters == Fn("xhci", 0, 144, {<<144, 17, 0>>})
Gpu == Fn("gpu", 0, 0, {})
Other == Fn("other", 0, 0, {})

(* Buses of up to three functions.                                         *)
AllBuses == UNION {[1..n -> {MsixFirst, MsixSecond, NoMsixAtAll, NoInterrupters, Gpu, Other}] : n \in 0..3}

Init ==
  /\ part \in Parts
  /\ part = "pci" \/ bus = <<>>
  /\ part = "ps2" \/ config = {}
  /\ part = "com" \/ (conversion = "d" /\ value = 0)
  /\ part = "list" \/ next = [el \in Elements |-> Null]
  /\ part = "mem" \/ memory = [a \in Addresses |-> 0]
  /\ RingInit /\ PciInit /\ Ps2Init /\ ComInit /\ SchedInit /\ ListInit /\ MemInit

Next ==
  \/ part = "ring" /\ RingNext
     /\ UNCHANGED <<part, pciVars, ps2Vars, comVars, schedVars, listVars, memVars>>
  \/ part = "pci" /\ PciNext
     /\ UNCHANGED <<part, ringVars, ps2Vars, comVars, schedVars, listVars, memVars>>
  \/ part = "ps2" /\ Ps2Next
     /\ UNCHANGED <<part, ringVars, pciVars, comVars, schedVars, listVars, memVars>>
  \/ part = "com" /\ ComNext
     /\ UNCHANGED <<part, ringVars, pciVars, ps2Vars, schedVars, listVars, memVars>>
  \/ part = "sched" /\ SchedNext
     /\ UNCHANGED <<part, ringVars, pciVars, ps2Vars, comVars, listVars, memVars>>
  \/ part = "list" /\ ListNext
     /\ UNCHANGED <<part, ringVars, pciVars, ps2Vars, comVars, schedVars, memVars>>
  \/ part = "mem" /\ MemNext
     /\ UNCHANGED <<part, ringVars, pciVars, ps2Vars, comVars, schedVars, listVars>>

(* The fairness of the parts.  A ring without commands, an empty bus and a *)
(* kernel without tasks have nothing to do when they are not the part.     *)
Fairness ==
  /\ RingFairness /\ PciFairness /\ SchedFairness
  /\ WF_ps2Vars(part = "ps2" /\ KeMain) /\ WF_ps2Vars(part = "ps2" /\ Ps2Interrupt)
  /\ WF_ps2Vars(part = "ps2" /\ Controller)
  /\ WF_comVars(part = "com" /\ ComPrint) /\ WF_comVars(HandlerPut) /\ WF_comVars(Transmit)

Spec == Init /\ [][Next]_vars /\ Fairness

(***************************************************************************)
(* The set-up of the mouse is correct: KeMain gets to its main loop, the   *)
(* configuration of the controller is kept but for the mouse, and after an *)
(* undisturbed set-up the bytes of the mouse are read and are those of     *)
(* whole packets.                                                          *)
(***************************************************************************)
MouseCorrect == (part = "ps2" => SetUpEnds) /\ MouseHeard /\ ConfigKept /\ [](Ps2TypeOK /\ PacketsAligned)

(* ComPrint is correct beside interrupt handlers that print: it returns,   *)
(* it has printed the digits of its argument, and an interrupt costs at    *)
(* most one character.                                                     *)
PrintCorrect == (part = "com" => PrintEnds) /\ [](PrintedCorrectly /\ LossBounded)

(* The library is correct after any sequence of calls: a walk of a list in *)
(* either direction visits its elements in order and stops, and the memory *)
(* functions move or set what they are asked to and nothing else.          *)
LibraryCorrect == ListCorrect /\ Moved
=============================================================================

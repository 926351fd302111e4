-------------------------------- MODULE Ps2 --------------------------------
(***************************************************************************)
(* Keyboard and mouse (kernel.c): the polled set-up of the mouse in KeMain *)
(* and the two interrupt handlers, which share the data port 0x60 of the   *)
(* controller.  The controller, the keyboard and the mouse are external.   *)
(*                                                                         *)
(* The controller has one output byte.  When it fills it, it raises IRQ 1  *)
(* (keyboard, replies) or IRQ 12 (mouse) if its configuration byte says    *)
(* so; an interrupt is taken before KeMain goes on, and lost if its IRQ is *)
(* not enabled (see Interrupts).  Reading the port while it is empty gives *)
(* the last byte again.  Of a byte, the bits that are bits of the          *)
(* configuration are kept, and its position in a packet of the mouse.      *)
(***************************************************************************)
EXTENDS Integers, Sequences

CONSTANTS
  Firmware,    \* configurations the firmware may have left
  ScanCodes,   \* bytes of the keyboard, as configuration bits
  MaxKeys,     \* bound: keys pressed
  MaxMoves     \* bound: movements of the mouse

Bits == {"kbd int", "aux int", "kbd off", "aux off"}
Ack == {"aux int", "kbd off", "aux off"}               \* 0xFA

ASSUME Ps2Assumption ==
  /\ Firmware \subseteq SUBSET Bits /\ ScanCodes \subseteq SUBSET Bits
  /\ MaxKeys \in Nat /\ MaxMoves \in Nat

NoPosition == -1
Byte(bits) == [bits |-> bits, pos |-> NoPosition]

VARIABLES
  ps2Pc,            \* the next operation of the set-up in KeMain
  _status,       \* KeMain's copy of the configuration
  mouse_cycle,
  mouse_byte,    \* per position: the position the byte had in its packet
  irq12,         \* IRQ 12 has been enabled
  pending,       \* the interrupt that is to be taken
  out,           \* controller: its output byte, and whether it is full
  in,            \* controller: the byte written to it and not yet processed
  expects,       \* controller: what the next data byte is
  config,        \* controller: the configuration byte
  aux,           \* mouse: bytes it has to send
  reporting,     \* mouse: it reports movements
  keys, moves,   \* keys pressed and movements so far
  disturbed      \* history: the set-up had company, or mouse_wait gave up too early

main == <<ps2Pc, _status, irq12>>
mouse == <<mouse_cycle, mouse_byte>>
device == <<aux, reporting, keys, moves>>
ps2Vars == <<main, mouse, pending, out, in, expects, config, device, disturbed>>

(***************************************************************************)
(* The set-up: commands written to port 0x64, data written to port 0x60,   *)
(* bytes read from it, and at last IRQ 12 is enabled.                      *)
(***************************************************************************)
Command(c) == [op |-> "command", arg |-> c]
Data(d) == [op |-> "data", arg |-> d]
Read == [op |-> "read", arg |-> "discard"]
ReadStatus == [op |-> "read", arg |-> "status"]
mouse_write(d) == <<Command("to mouse"), Data(d)>>      \* 0xD4

(* Mutant: the last acknowledgement is not read.                           *)
SetUpShort ==
  <<Command("enable mouse"), Command("read config"), ReadStatus, Command("write config"), Data("status")>>
  \o mouse_write("defaults") \o <<Read>> \o mouse_write("report")

SetUp ==
  <<Command("enable mouse")>>                           \* 0xA8
  \o <<Command("read config"), ReadStatus>>             \* 0x20
  \o <<Command("write config"), Data("status")>>        \* 0x60
  \o mouse_write("defaults") \o <<Read>>                \* 0xF6
  \o mouse_write("report") \o <<Read>>                  \* 0xF4

Nothing == [port |-> 0, arg |-> "none", bits |-> {}]

Ps2Init ==
  /\ ps2Pc = 1 /\ _status = {} /\ irq12 = FALSE
  /\ mouse_cycle = 0 /\ mouse_byte = [i \in 0..2 |-> NoPosition]
  /\ pending = 0
  /\ out = [full |-> FALSE, from |-> "kbd", byte |-> Byte({})]
  /\ in = Nothing /\ expects = "keyboard"
  /\ config \in Firmware
  /\ aux = <<>> /\ reporting = FALSE /\ keys = 0 /\ moves = 0 /\ disturbed = FALSE

-----------------------------------------------------------------------------
(***************************************************************************)
(* mouse_wait ends when the controller is ready, or after 100000 reads:    *)
(* with nothing on its way that is sure to happen, and when the controller *)
(* is slow it happens although the answer is still to come.                *)
(***************************************************************************)
Quiet == in = Nothing /\ aux = <<>>

mouse_wait(ready) == disturbed' = (disturbed \/ ~(ready \/ Quiet))

(* KeMain's next step is op; an interrupt comes first.                     *)
Main(op) == pending = 0 /\ ps2Pc <= Len(SetUp) /\ SetUp[ps2Pc].op = op /\ ps2Pc' = ps2Pc + 1

Write ==
  /\ Main("command") \/ Main("data")
  /\ mouse_wait(in = Nothing)
  /\ in' = [port |-> IF SetUp[ps2Pc].op = "command" THEN 100 ELSE 96, arg |-> SetUp[ps2Pc].arg, bits |-> _status]
  /\ UNCHANGED <<_status, irq12, mouse, pending, out, expects, config, device>>

ReadData ==
  /\ Main("read")
  /\ mouse_wait(out.full)
  /\ out' = [out EXCEPT !.full = FALSE]
  /\ _status' = IF SetUp[ps2Pc].arg = "status" THEN out.byte.bits \cup {"aux int"} ELSE _status
  /\ UNCHANGED <<irq12, mouse, pending, in, expects, config, device>>

EnableMouseIrq ==
  /\ pending = 0 /\ ps2Pc = Len(SetUp) + 1
  /\ irq12' = TRUE /\ ps2Pc' = ps2Pc + 1
  /\ UNCHANGED <<_status, mouse, pending, out, in, expects, config, device, disturbed>>

(***************************************************************************)
(* The handlers read the port, whatever is in it.                          *)
(***************************************************************************)
Taken == pending' = 0 /\ out' = [out EXCEPT !.full = FALSE] /\ UNCHANGED <<main, in, expects, config, device, disturbed>>

Ps2KeyboardHandler == pending = 1 /\ Taken /\ UNCHANGED mouse

Ps2MouseHandler ==
  /\ pending = 12 /\ Taken
  /\ mouse_byte' = [mouse_byte EXCEPT ![mouse_cycle] = out.byte.pos]
  /\ mouse_cycle' = IF mouse_cycle = 2 THEN 0 ELSE mouse_cycle + 1

-----------------------------------------------------------------------------
(***************************************************************************)
(* The controller fills its empty output byte and raises the interrupt.    *)
(***************************************************************************)
Fill(from, byte) ==
  /\ ~out.full /\ pending = 0
  /\ out' = [full |-> TRUE, from |-> from, byte |-> byte]
  /\ pending' = CASE from = "kbd" /\ "kbd int" \in config -> 1
                  [] from = "aux" /\ "aux int" \in config /\ irq12 -> 12
                  [] OTHER -> 0

ProcessCommand ==
  /\ in.port = 100
  /\ IF in.arg = "read config" THEN Fill("kbd", Byte(config)) ELSE UNCHANGED <<out, pending>>
  /\ expects' = CASE in.arg = "write config" -> "config" [] in.arg = "to mouse" -> "mouse" [] OTHER -> expects
  /\ config' = IF in.arg = "enable mouse" THEN config \ {"aux off"} ELSE config
  /\ in' = Nothing
  /\ UNCHANGED <<main, mouse, device, disturbed>>

ProcessData ==
  /\ in.port = 96
  /\ config' = IF expects = "config" THEN in.bits ELSE config
  /\ aux' = IF expects = "mouse" THEN Append(aux, Byte(Ack)) ELSE aux
  /\ reporting' = (reporting \/ (expects = "mouse" /\ in.arg = "report"))
  /\ expects' = "keyboard" /\ in' = Nothing
  /\ UNCHANGED <<main, mouse, pending, out, keys, moves, disturbed>>

PressKey(code) ==
  /\ keys < MaxKeys /\ "kbd off" \notin config
  /\ Fill("kbd", Byte(code)) /\ keys' = keys + 1
  /\ disturbed' = (disturbed \/ ~irq12)
  /\ UNCHANGED <<main, mouse, in, expects, config, aux, reporting, moves>>

Move ==
  /\ moves < MaxMoves /\ reporting /\ "aux off" \notin config
  /\ disturbed' = (disturbed \/ ~irq12)
  /\ aux' = aux \o [i \in 1..3 |-> [bits |-> {}, pos |-> i - 1]] /\ moves' = moves + 1
  /\ UNCHANGED <<main, mouse, pending, out, in, expects, config, reporting, keys>>

SendMouseByte ==
  /\ aux # <<>>
  /\ Fill("aux", Head(aux)) /\ aux' = Tail(aux)
  /\ UNCHANGED <<main, mouse, in, expects, config, reporting, keys, moves, disturbed>>

-----------------------------------------------------------------------------
KeMain == Write \/ ReadData \/ EnableMouseIrq
Ps2Interrupt == Ps2KeyboardHandler \/ Ps2MouseHandler
Controller == ProcessCommand \/ ProcessData \/ SendMouseByte
User == Move \/ \E code \in ScanCodes : PressKey(code)

(* mouse_wait reads the controller's status again.                         *)
Poll == pending = 0 /\ ps2Pc <= Len(SetUp) /\ UNCHANGED ps2Vars

(* The main loop halts: nothing more happens until somebody uses a device. *)
Halt == ps2Pc = Len(SetUp) + 2 /\ UNCHANGED ps2Vars

Ps2Next == KeMain \/ Ps2Interrupt \/ Controller \/ User \/ Poll \/ Halt

(* The processor and the controller run on; nobody has to touch a device.  *)
Ps2Fairness == WF_ps2Vars(KeMain) /\ WF_ps2Vars(Ps2Interrupt) /\ WF_ps2Vars(Controller)

Ps2Spec == Ps2Init /\ [][Ps2Next]_ps2Vars /\ Ps2Fairness

-----------------------------------------------------------------------------
(* The variables have their types.                                         *)
Ps2TypeOK ==
  /\ ps2Pc \in 1..(Len(SetUp) + 2) /\ _status \subseteq Bits /\ irq12 \in BOOLEAN
  /\ mouse_cycle \in 0..2 /\ mouse_byte \in [0..2 -> -1..2]
  /\ pending \in {0, 1, 12}
  /\ out.full \in BOOLEAN /\ out.from \in {"kbd", "aux"}
  /\ in.port \in {0, 96, 100} /\ expects \in {"keyboard", "config", "mouse"}
  /\ config \subseteq Bits
  /\ reporting \in BOOLEAN /\ keys \in 0..MaxKeys /\ moves \in 0..MaxMoves /\ disturbed \in BOOLEAN

(***************************************************************************)
(* The set-up leaves a configuration with the interrupts of the mouse on   *)
(* and everything else as the firmware had it, whichever of the set-up and *)
(* the keyboard's handler reads the controller's reply; unless somebody    *)
(* uses a device meanwhile or the controller is slower than mouse_wait.    *)
(***************************************************************************)
ConfigKept == [][disturbed \/ config' \in {config, config \cup {"aux int"}, config \ {"aux off"}}]_config

(***************************************************************************)
(* After an undisturbed set-up mouse_byte[i] is always the i-th byte of a  *)
(* packet: no acknowledgement, lost byte or key shifts the bytes that the  *)
(* handlers share a port for.                                              *)
(***************************************************************************)
PacketsAligned == disturbed \/ \A i \in 0..2 : mouse_byte[i] \in {NoPosition, i}

(* KeMain gets to its main loop, whatever the controller answers.          *)
SetUpEnds == <>(ps2Pc = Len(SetUp) + 2)

(* A byte of the mouse is read: its interrupt is not lost for ever, unless *)
(* the set-up was disturbed.                                               *)
MouseHeard == (out.full /\ out.from = "aux") ~> (~out.full \/ disturbed)

-----------------------------------------------------------------------------
(***************************************************************************)
(* The inductive invariant: where an undisturbed set-up is.  Before IRQ 12 *)
(* is enabled KeMain and the controller take turns: a byte that KeMain     *)
(* wrote is not processed yet and nothing else is under way (Ordered), or  *)
(* it is processed and its answer, if it has one, is on its way or was     *)
(* taken (Answered).                                                       *)
(***************************************************************************)
Bytes == [bits : SUBSET Bits, pos : -1..2]

Order(k) == [port |-> IF SetUp[k].op = "command" THEN 100 ELSE 96, arg |-> SetUp[k].arg, bits |-> _status]

Ordered ==
  /\ ps2Pc \in {2, 3, 5, 6, 7, 8, 10, 11} /\ in = Order(ps2Pc - 1)
  /\ aux = <<>> /\ ~out.full /\ pending = 0
  /\ expects = IF ps2Pc = 6 THEN "config" ELSE IF ps2Pc \in {8, 11} THEN "mouse" ELSE "keyboard"

(* The reply with the configuration may be read by the keyboard's handler  *)
(* first: the port gives it again.                                         *)
Answered ==
  /\ in = Nothing
  /\ expects = IF ps2Pc = 5 THEN "config" ELSE IF ps2Pc \in {7, 10} THEN "mouse" ELSE "keyboard"
  /\ \/ ps2Pc = 3 /\ aux = <<>> /\ pending \in {0, 1} /\ (~out.full => pending = 0) /\ out.byte.bits = config
     \/ ps2Pc \in {8, 11} /\ pending = 0 /\ (~out.full => aux = <<Byte(Ack)>>) /\ (out.full => aux = <<>>)
     \/ ps2Pc \in 1..12 \ {3, 8, 11} /\ aux = <<>> /\ ~out.full /\ pending = 0

(* KeMain's copy is the configuration with the mouse's interrupt, until it *)
(* is written back.                                                        *)
Copied == ps2Pc \in {4, 5} \/ (ps2Pc = 6 /\ in # Nothing)
WrittenBack == ps2Pc \in 7..12 \/ (ps2Pc = 6 /\ in = Nothing)

SettingUp ==
  /\ Ordered \/ Answered
  /\ Copied => _status = config \cup {"aux int"}
  /\ WrittenBack => "aux int" \in config
  /\ mouse_cycle = 0 /\ \A k \in 0..2 : mouse_byte[k] = NoPosition

(* Afterwards the mouse's bytes under way are those of whole packets from  *)
(* where the handler is.                                                   *)
Following(k) == IF k = 2 THEN 0 ELSE k + 1
Chain(s, k) ==
  /\ s = <<>> => k = 0
  /\ s # <<>> => s[1].pos = k /\ s[Len(s)].pos = 2
  /\ \A m \in 1..(Len(s) - 1) : s[m + 1].pos = Following(s[m].pos)

(* The position of the first byte that is not in the output byte yet.      *)
Due == IF pending = 12 THEN Following(mouse_cycle) ELSE mouse_cycle

Reporting ==
  /\ ps2Pc = 13 /\ in = Nothing /\ "aux int" \in config
  /\ pending = 12 => out.byte.pos = mouse_cycle
  /\ Chain(aux, Due)
  /\ \A k \in 0..2 : mouse_byte[k] \in {NoPosition, k}

Ps2IInv ==
  /\ Ps2TypeOK
  /\ out \in [full : BOOLEAN, from : {"kbd", "aux"}, byte : Bytes]
  /\ aux \in Seq(Bytes) /\ in.bits \subseteq Bits
  /\ disturbed \/ (irq12 /\ Reporting) \/ (~irq12 /\ SettingUp)
=============================================================================

------------------------------- MODULE LaiEc -------------------------------
(***************************************************************************)
(* The embedded controller driver of LAI (cpu/lai/drivers/ec.c) beside the *)
(* controller.  They talk through two ports: the driver writes commands    *)
(* and data into one input buffer, the controller answers through one      *)
(* output buffer, and each side may only touch a buffer when its flag in   *)
(* the status says so.                                                     *)
(*                                                                         *)
(* A call of the driver is the sequence of port accesses it makes.  The    *)
(* polling loops are steps that wait for what they poll.                   *)
(***************************************************************************)
EXTENDS Integers, Sequences, SequencesExt

CONSTANTS
  Offsets,        \* the bytes of the controller's memory
  Values,         \* what a byte may be
  EcCalls,          \* the calls that are made, among AllCalls
  Ecdts,          \* what the ECDT may be
  CrsLists        \* the resources _CRS may list

AllCalls == [kind : {"read", "write", "get", "put"}, offset : Offsets, bytes : Seq(Values)]
            \cup {[kind |-> "query", offset |-> 0, bytes |-> <<0>>]}

ASSUME LaiEcAssumption ==
  /\ 0 \in Offsets /\ Offsets \subseteq Nat /\ 0 \in Values /\ Values \subseteq Nat
  /\ EcCalls \subseteq AllCalls
  /\ \A c \in EcCalls : /\ c.bytes # <<>> /\ \A i \in DOMAIN c.bytes : c.offset + i - 1 \in Offsets
                        /\ c.kind \in {"read", "write"} => Len(c.bytes) = 1

(* The ports of the controller; a port number of 0 is one not known yet.   *)
EcCmd == 2
EcData == 1

NoEcdt == "none"
NoCall == [kind |-> "none", offset |-> 0, bytes |-> <<0>>]
READ == 128
WRITE == 129
BURST_ENABLE == 130
BURST_DISABLE == 131
QUERY == 132
Ack == 144

VARIABLES
  driver,       \* struct lai_ec_driver: cmd_port and data_port
  installed,    \* the region has lai_ec_opregion_override
  ecCall,         \* the call in progress
  order,        \* the order in which it reads its bytes
  ecTodo, ecAt,   \* the port accesses it makes, and the next one
  ret,          \* the bytes it has read
  panicked,
  ec,           \* the controller
  wanted,       \* history: the memory as the finished writes left it,
  told,         \* ... the answer the controller gave to the last query,
  burstLost,    \* ... the controller hid or left burst mode in the last call
  careless      \* ... and the driver was called before it or the controller was ready

history == <<wanted, told, burstLost, careless>>
ecVars == <<driver, installed, ecCall, order, ecTodo, ecAt, ret, panicked, ec, history>>

EcInit ==
  /\ driver = [cmd_port |-> 0, data_port |-> 0] /\ installed = FALSE
  /\ ecCall = NoCall /\ order = <<1>> /\ ecTodo = <<>> /\ ecAt = 1 /\ ret = <<0>> /\ panicked = FALSE
  /\ ec = [ibf |-> <<>>, obf |-> <<>>, burst |-> FALSE, expect |-> "command", addr |-> 0, mem |-> [o \in Offsets |-> 0], event |-> 0]
  /\ wanted = [o \in Offsets |-> 0] /\ told = 0 /\ burstLost = FALSE /\ careless = FALSE

Known == driver.cmd_port # 0 /\ driver.data_port # 0
EcIdle == ecCall = NoCall /\ ~panicked

-----------------------------------------------------------------------------
(***************************************************************************)
(* The port accesses of the driver's functions.                            *)
(***************************************************************************)
Cmd(c) == [op |-> "cmd", arg |-> c]
Data(b) == [op |-> "data", arg |-> b]
In(i) == [op |-> "in", arg |-> i]

poll_ibf == [op |-> "ibf", arg |-> 0]
poll_obf == [op |-> "obf", arg |-> 0]
read_ack == [op |-> "ack", arg |-> 0]
poll_burst == [op |-> "calm", arg |-> 0]

enable_burst == <<Cmd(BURST_ENABLE), poll_obf, read_ack>>

(* Mutant: burst mode is left without waiting for the input buffer.        *)
DisableAtOnce == <<Cmd(BURST_DISABLE), poll_burst>>
disable_burst == <<poll_ibf, Cmd(BURST_DISABLE), poll_burst>>

lai_read_ec(offset, i) == <<poll_ibf, Cmd(READ), poll_ibf, Data(offset), poll_obf, In(i)>>

lai_write_ec(offset, value) == <<poll_ibf, Cmd(WRITE), poll_ibf, Data(offset), poll_ibf, Data(value)>>

lai_query_ec == enable_burst \o <<Cmd(QUERY), poll_obf>> \o disable_burst \o <<In(1)>>

(* readb, readw, readd and readq: the operands of | may be evaluated in    *)
(* any order, p.                                                           *)
Orders(n) == {p \in [1..n -> 1..n] : \A i \in 1..n : \E k \in 1..n : p[k] = i}
InOrder(n) == [i \in 1..n |-> i]

(* The j-th access of calls of six accesses each, one after the other, is  *)
(* in this call and there at this place.                                   *)
Nth(j) == (j - 1) \div 6 + 1
Place(j) == ((j - 1) % 6) + 1

readn(offset, p, n) ==
  enable_burst \o [j \in 1..(6 * n) |-> lai_read_ec(offset + p[Nth(j)] - 1, p[Nth(j)])[Place(j)]] \o disable_burst

(* writeb, writew, writed and writeq.                                      *)
writen(offset, bytes, n) ==
  enable_burst \o [j \in 1..(6 * n) |-> lai_write_ec(offset + Nth(j) - 1, bytes[Nth(j)])[Place(j)]] \o disable_burst

(***************************************************************************)
(* The accesses of call c, which reads its bytes in the order p: the       *)
(* functions that check the ports first return at once when one is         *)
(* missing; the ones of the override enter burst mode before they come to  *)
(* that check, and the accesses below the check are not made.              *)
(***************************************************************************)
Accesses(c, p) ==
  CASE Known /\ c.kind = "read" -> lai_read_ec(c.offset, 1)
    [] Known /\ c.kind = "write" -> lai_write_ec(c.offset, c.bytes[1])
    [] Known /\ c.kind = "query" -> lai_query_ec
    [] Known /\ c.kind = "get" -> readn(c.offset, p, Len(c.bytes))
    [] Known /\ c.kind = "put" -> writen(c.offset, c.bytes, Len(c.bytes))
    [] ~Known /\ c.kind \in {"get", "put"} -> enable_burst \o disable_burst
    [] OTHER -> <<>>

AccessesLeft == ecAt <= Len(ecTodo)
Size == Len(ecCall.bytes)

-----------------------------------------------------------------------------
(***************************************************************************)
(* Initialisation.                                                         *)
(***************************************************************************)
(* ecdt is NoEcdt or the address spaces of ec_control and ec_data.         *)
lai_early_init_ec(ecdt) ==
  /\ EcIdle
  /\ driver' = CASE ecdt = NoEcdt \/ ecdt[1] # "io" -> driver
                 [] ecdt # NoEcdt /\ ecdt[1] = "io" /\ ecdt[2] # "io" -> [driver EXCEPT !.cmd_port = EcCmd]
                 [] OTHER -> [cmd_port |-> EcCmd, data_port |-> EcData]
  /\ UNCHANGED <<installed, ecCall, order, ecTodo, ecAt, ret, panicked, ec, history>>

(* crs lists the resources of the controller, the port for data first; it  *)
(* is empty when _CRS is missing or cannot be evaluated.                   *)
lai_init_ec(crs) ==
  /\ EcIdle
  /\ driver' = CASE crs = <<>> \/ crs[1] # "io" -> driver
                 [] Len(crs) = 1 /\ crs[1] = "io" -> [driver EXCEPT !.data_port = EcData]
                 [] Len(crs) > 1 /\ crs[1] = "io" /\ crs[2] # "io" -> [driver EXCEPT !.data_port = EcData]
                 [] OTHER -> [cmd_port |-> EcCmd, data_port |-> EcData]
  /\ UNCHANGED <<installed, ecCall, order, ecTodo, ecAt, ret, panicked, ec, history>>

lai_ns_override_opregion ==
  /\ EcIdle /\ ~installed
  /\ installed' = TRUE
  /\ UNCHANGED <<driver, ecCall, order, ecTodo, ecAt, ret, panicked, ec, history>>

-----------------------------------------------------------------------------
(***************************************************************************)
(* A call and its accesses.  Nothing keeps a host from a call while the    *)
(* controller still has the last byte of the one before, or from using the *)
(* region before both ports are known.                                     *)
(***************************************************************************)
StartCall(c) ==
  /\ EcIdle
  /\ c.kind \in {"get", "put"} => installed
  /\ ecCall' = c
  /\ ret' = [i \in DOMAIN c.bytes |-> 0]
  /\ \E p \in IF c.kind = "get" THEN Orders(Len(c.bytes)) ELSE {InOrder(Len(c.bytes))} :
       order' = p /\ ecTodo' = Accesses(c, p)
  /\ ecAt' = 1
  /\ burstLost' = FALSE
  /\ careless' = (careless \/ ec.ibf # <<>> \/ (c.kind \in {"get", "put"} /\ ~Known))
  /\ UNCHANGED <<driver, installed, panicked, ec, wanted, told>>

(* The memory as the first j bytes of the call leave it.                   *)
After(j) ==
  IF ecCall.kind \in {"write", "put"}
  THEN [o \in Offsets |-> IF o - ecCall.offset \in 0..(j - 1) THEN ecCall.bytes[o - ecCall.offset + 1] ELSE wanted[o]]
  ELSE wanted

Finish ==
  /\ ecCall # NoCall /\ ~AccessesLeft /\ ~panicked
  /\ wanted' = IF Known THEN After(Size) ELSE wanted
  /\ ecCall' = NoCall /\ order' = <<1>> /\ ecTodo' = <<>> /\ ecAt' = 1
  /\ UNCHANGED <<driver, installed, ret, panicked, ec, told, burstLost, careless>>

Accessing(op) ==
  /\ AccessesLeft /\ ~panicked /\ ecTodo[ecAt].op = op
  /\ ecAt' = ecAt + 1
  /\ UNCHANGED <<driver, installed, ecCall, order, ecTodo, history>>

EcArg == ecTodo[ecAt].arg

(* The ports are those of the controller only when the driver knows them;  *)
(* of another port the status may be anything.                             *)
PollIbf ==
  /\ Accessing("ibf")
  /\ driver.cmd_port = EcCmd => ec.ibf = <<>>
  /\ UNCHANGED <<ret, panicked, ec>>

PollObf ==
  /\ Accessing("obf")
  /\ driver.cmd_port = EcCmd => ec.obf # <<>>
  /\ UNCHANGED <<ret, panicked, ec>>

(* The loop at the end of disable_burst.                                   *)
PollCalm ==
  /\ Accessing("calm")
  /\ driver.cmd_port = EcCmd => ~ec.burst
  /\ UNCHANGED <<ret, panicked, ec>>

(* laihost_outb: of two bytes in the input buffer one is lost.             *)
Outb(port, byte) ==
  IF port \in {EcCmd, EcData}
  THEN \E kept \in {[port |-> port, byte |-> byte]} \cup ToSet(ec.ibf) : ec' = [ec EXCEPT !.ibf = <<kept>>]
  ELSE UNCHANGED ec

WriteCmd ==
  /\ Accessing("cmd")
  /\ Outb(driver.cmd_port, EcArg)
  /\ UNCHANGED <<ret, panicked>>

WriteData ==
  /\ Accessing("data")
  /\ Outb(driver.data_port, EcArg)
  /\ UNCHANGED <<ret, panicked>>

(* laihost_inb of the data port: it takes what is in the output buffer,    *)
(* and returns 0 here when the buffer is empty.                            *)
Inb == IF driver.data_port # EcData THEN Values \cup {Ack} ELSE IF ec.obf = <<>> THEN {0} ELSE {ec.obf[1]}

Taken == ec' = IF driver.data_port = EcData THEN [ec EXCEPT !.obf = <<>>] ELSE ec

ReadByte ==
  /\ Accessing("in")
  /\ Taken
  /\ \E b \in Inb : ret' = [ret EXCEPT ![EcArg] = b]
  /\ UNCHANGED panicked

ReadAck ==
  /\ Accessing("ack")
  /\ Taken
  /\ \E b \in Inb : panicked' = (b # Ack)
  /\ UNCHANGED ret

-----------------------------------------------------------------------------
(***************************************************************************)
(* The controller.                                                         *)
(***************************************************************************)
EcStep == UNCHANGED <<driver, installed, ecCall, order, ecTodo, ecAt, ret, panicked, wanted, careless>>
Written == ec.ibf[1].byte

(* A byte is taken from the input buffer.  An answer waits for the output  *)
(* buffer to be empty.                                                     *)
EcTakeCommand ==
  /\ ec.ibf # <<>> /\ ec.ibf[1].port = EcCmd
  /\ EcStep
  /\ CASE Written \in {READ, WRITE} ->
            ec' = [ec EXCEPT !.ibf = <<>>, !.expect = IF Written = READ THEN "readAt" ELSE "writeAt"] /\ UNCHANGED <<told, burstLost>>
       [] Written = BURST_ENABLE ->
            /\ ec.obf = <<>> /\ UNCHANGED told
            /\ \E b \in BOOLEAN : /\ ec' = [ec EXCEPT !.ibf = <<>>, !.obf = <<Ack>>, !.burst = b, !.expect = "command"]
                                 /\ burstLost' = (burstLost \/ ~b)
       [] Written = BURST_DISABLE ->
            ec' = [ec EXCEPT !.ibf = <<>>, !.burst = FALSE, !.expect = "command"] /\ UNCHANGED <<told, burstLost>>
       [] Written = QUERY ->
            /\ ec.obf = <<>> /\ UNCHANGED burstLost
            /\ ec' = [ec EXCEPT !.ibf = <<>>, !.obf = <<ec.event>>, !.event = 0, !.expect = "command"] /\ told' = ec.event

EcTakeData ==
  /\ ec.ibf # <<>> /\ ec.ibf[1].port = EcData
  /\ EcStep /\ UNCHANGED <<told, burstLost>>
  /\ CASE ec.expect = "readAt" /\ Written \in Offsets ->
            ec.obf = <<>> /\ ec' = [ec EXCEPT !.ibf = <<>>, !.obf = <<ec.mem[Written]>>, !.expect = "command"]
       [] ec.expect = "writeAt" /\ Written \in Offsets ->
            ec' = [ec EXCEPT !.ibf = <<>>, !.addr = Written, !.expect = "value"]
       [] ec.expect = "value" /\ Written \in Values ->
            ec' = [ec EXCEPT !.ibf = <<>>, !.mem[ec.addr] = Written, !.expect = "command"]
       [] OTHER -> ec' = [ec EXCEPT !.ibf = <<>>, !.expect = "command"]

(* The event the controller would report changes.                          *)
EcEvent ==
  /\ EcStep /\ UNCHANGED <<told, burstLost>>
  /\ \E e \in Values \ {ec.event} : ec' = [ec EXCEPT !.event = e]

EcLeaveBurst ==
  /\ ec.burst
  /\ EcStep /\ UNCHANGED told
  /\ ec' = [ec EXCEPT !.burst = FALSE] /\ burstLost' = TRUE

Access == PollIbf \/ PollObf \/ PollCalm \/ WriteCmd \/ WriteData \/ ReadByte \/ ReadAck
Controller == EcTakeCommand \/ EcTakeData

EcNext ==
  \/ \E e \in Ecdts : lai_early_init_ec(e)
  \/ \E crs \in CrsLists : lai_init_ec(crs)
  \/ lai_ns_override_opregion
  \/ \E c \in EcCalls : StartCall(c)
  \/ Finish
  \/ Access
  \/ Controller
  \/ EcEvent
  \/ EcLeaveBurst

(* The driver runs until its call is done, and the controller serves its   *)
(* input buffer.                                                           *)
EcFairness == WF_ecVars(Access) /\ WF_ecVars(Finish) /\ WF_ecVars(Controller)

EcSpec == EcInit /\ [][EcNext]_ecVars /\ EcFairness

-----------------------------------------------------------------------------
(* The variables have their types.                                         *)
EcTypeOK ==
  /\ driver \in [cmd_port : {0, EcCmd}, data_port : {0, EcData}]
  /\ {installed, panicked, burstLost, careless} \subseteq BOOLEAN
  /\ ecCall \in EcCalls \cup {NoCall}
  /\ \A i \in DOMAIN ret : ret[i] \in Values \cup {Ack}
  /\ Len(ec.ibf) <= 1 /\ Len(ec.obf) <= 1
  /\ ec.mem \in [Offsets -> Values] /\ wanted \in [Offsets -> Values]

(* A finished read, of any width, has the bytes that the writes before it  *)
(* left at its offsets, and a finished query has the controller's answer;  *)
(* a driver that does not know its ports returns zero.                     *)
ReadsCorrect ==
  ecCall # NoCall /\ ~AccessesLeft /\ ~panicked /\ ~careless =>
    /\ ecCall.kind = "read" => ret[1] = IF Known THEN wanted[ecCall.offset] ELSE 0
    /\ ecCall.kind = "get" => \A i \in DOMAIN ret : ret[i] = wanted[ecCall.offset + i - 1]
    /\ ecCall.kind = "query" => ret[1] = IF Known THEN told ELSE 0

(* When nothing is under way the memory of the controller is what the      *)
(* writes asked for, and both buffers and burst mode are as a call found   *)
(* them.                                                                   *)
MemoryConsistent ==
  EcIdle /\ ec.ibf = <<>> /\ ~careless =>
    ec.mem = wanted /\ ec.obf = <<>> /\ ~ec.burst /\ ec.expect = "command"

(* The driver never writes to a port while the controller has not taken    *)
(* the byte before, even if the controller drops out of burst mode in the  *)
(* middle (the comment above enable_burst says that this needs no care).   *)
NothingLost == [][(WriteCmd \/ WriteData) /\ ~careless => ec.ibf = <<>>]_ecVars

(***************************************************************************)
(* A call returns with its bytes taken, so that the next one may follow at *)
(* once, unless it was lai_write_ec by itself or the controller had left   *)
(* burst mode when disable_burst looked for it.                            *)
(***************************************************************************)
CallsSettle == [][Finish /\ ~careless => ec.ibf = <<>> \/ burstLost \/ ecCall.kind = "write"]_ecVars

(* The controller's acknowledgement is never mistaken: enable_burst does   *)
(* not panic.                                                              *)
EcNoPanic == panicked => careless

(* Every call returns.                                                     *)
EcReturns == ecCall # NoCall ~> ecCall = NoCall \/ careless

(***************************************************************************)
(* The driver of the embedded controller is correct beside a controller    *)
(* that may drop out of burst mode at any time: reads have the bytes of    *)
(* the writes before them, no byte is written over one the controller has  *)
(* not taken, a call leaves nothing behind that the next one would trip    *)
(* over, and every call returns without a panic.                           *)
(***************************************************************************)
EcCorrect == EcReturns /\ NothingLost /\ CallsSettle /\ [](EcTypeOK /\ ReadsCorrect /\ MemoryConsistent /\ EcNoPanic)
=============================================================================

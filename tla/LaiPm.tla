------------------------------- MODULE LaiPm -------------------------------
(***************************************************************************)
(* LAI's helpers around the fixed hardware of ACPI: enabling and disabling *)
(* ACPI (cpu/lai/helpers/sci.c), sleeping (helpers/pm.c) and the power     *)
(* management timer (drivers/timer.c), beside the hardware and firmware.   *)
(*                                                                         *)
(* A call is the sequence of accesses it makes, and the hardware may act   *)
(* between any two of them.  A register is the set of its bits.  The sleep *)
(* button is left out: the code never treats it apart from the power       *)
(* button.                                                                 *)
(***************************************************************************)
EXTENDS Integers, Sequences, SequencesExt

CONSTANTS
  Waits,          \* the waits asked of the timer, in ticks
  Packages,       \* sleep state -> what the sleep types of its package are
  Tree,           \* the devices: node -> [children, ini]; Sb is \_SB_
  Sb,
  Methods,        \* the methods the firmware has
  Raised,         \* the events the hardware raises, with their blocks
  Deep,           \* the methods whose evaluation outgrows the state's own stacks
  POLLS,          \* 100: polls of lai_enable_acpi
  HasB,           \* is there a second block of registers?
  Extended,       \* is the timer one of 32 bits?
  TIMER,          \* 2^24: the range of a timer that is not
  WORD            \* 2^32

Blocks == IF HasB THEN {"a", "b"} ELSE {"a"}
Events == {"PWRBTN", "WAKE", "TMR"}
Buttons == {"PWRBTN", "WAKE"}
States == DOMAIN Packages
Range32 == IF Extended THEN WORD ELSE TIMER

(* A wait fits the word whatever the value of a short timer.               *)
ASSUME LaiPmAssumption ==
  /\ POLLS \in Nat \ {0} /\ TIMER \in Nat \ {0} /\ WORD \in Nat /\ TIMER < WORD
  /\ Waits \subseteq 1..(WORD - TIMER)
  /\ \A s \in States : Packages[s] \in [{"a", "b"} -> Nat]
  /\ \A n \in DOMAIN Tree : Range(Tree[n].children) \subseteq DOMAIN Tree /\ Tree[n].ini \in BOOLEAN
  /\ Raised \subseteq {"a", "b"} \X Events
  /\ {HasB, Extended} \subseteq BOOLEAN

VARIABLES
  status, enable, control,   \* the registers, per block
  smi,                       \* the command the firmware has yet to obey
  timer,                     \* the timer
  elapsed,                   \* ticks since the wait began
  pmCall, pmTodo,            \* the call in progress and its accesses to come
  seen, acc, data,           \* locals: the register just read, the events so far, the control register
  goal,                      \* the local of lai_busy_wait_pm_timer
  supported,                 \* the variable of timer.c
  walk, visited, inits,      \* the walk of lai_init_children, the devices it visited and the _INI it ran
  base, blocks, freedTwice,  \* the stack of the interpreter state, the blocks there are
  acpi,                      \* what the last of lai_enable_acpi and lai_disable_acpi returned for
  result,
  tardy                      \* history: code went on before the firmware had obeyed it

registers == <<status, enable, control, smi>>
clock == <<timer, elapsed>>
locals == <<seen, acc, data, goal>>
tree == <<walk, visited, inits>>
memory == <<base, blocks, freedTwice>>
pmVars == <<registers, clock, pmCall, pmTodo, locals, supported, tree, memory, acpi, result, tardy>>

Off == [sci |-> FALSE, typ |-> 0, slp |-> FALSE]

PmInit ==
  /\ status = [b \in Blocks |-> {}] /\ enable = [b \in Blocks |-> {}] /\ control = [b \in Blocks |-> Off]
  /\ smi = "none" /\ timer = 0 /\ elapsed = 0
  /\ pmCall = "none" /\ pmTodo = <<>>
  /\ seen = {} /\ acc = {} /\ data = Off /\ goal = 0
  /\ supported = FALSE
  /\ walk = <<>> /\ visited = {} /\ inits = <<>>
  /\ base = 0 /\ blocks = {} /\ freedTwice = FALSE
  /\ acpi = "off" /\ result = "none" /\ tardy = FALSE

-----------------------------------------------------------------------------
(***************************************************************************)
(* The accesses of the calls.                                              *)
(***************************************************************************)
Do(op) == [op |-> op, block |-> "a", arg |-> "none"]
PmAt(op, b) == [op |-> op, block |-> b, arg |-> "none"]
With(op, b, x) == [op |-> op, block |-> b, arg |-> x]

PerBlock(seq(_)) == seq("a") \o IF HasB THEN seq("b") ELSE <<>>

lai_get_sci_event == <<Do("none")>> \o PerBlock(LAMBDA b : <<PmAt("read", b), PmAt("clear", b)>>)

(* value is "buttons", "nothing", "plus" or "minus" (the timer's bit added *)
(* to, or removed from, what lai_get_sci_event returned).                  *)
lai_set_sci_event(value) == PerBlock(LAMBDA b : <<With("enable", b, value)>>)

(* lai_init_state, the evaluation of a method if there is one, and         *)
(* lai_finalize_state.                                                     *)
Evaluate(m) == IF m \in Methods THEN <<Do("init"), With("eval", "a", m), Do("finalize")>> ELSE <<>>

lai_enable_acpi ==
  Evaluate("_SB_._INI") \o <<Do("walk")>> \o Evaluate("_PIC") \o <<With("smi", "a", "enable")>>
    \o [i \in 1..POLLS |-> Do("poll")] \o lai_set_sci_event("buttons") \o lai_get_sci_event

lai_disable_acpi ==
  lai_set_sci_event("nothing") \o lai_get_sci_event
    \o PerBlock(LAMBDA b : <<PmAt("load", b), With("store", b, "stop")>>) \o <<With("smi", "a", "disable")>>

(* The package is evaluated in a state that the evaluation of _PTS         *)
(* initialises anew, and that is finalised once more on return.            *)
lai_enter_sleep(s) ==
  <<Do("init"), With("eval", "a", s)>> \o Evaluate("_PTS") \o Evaluate("_GTS")
    \o PerBlock(LAMBDA b : <<PmAt("load", b), With("store", b, s)>>) \o <<Do("finalize")>>

(* Both read the status and write the enable register.                     *)
lai_start_pm_timer == <<Do("support")>> \o lai_get_sci_event \o lai_set_sci_event("plus")
lai_stop_pm_timer == lai_get_sci_event \o lai_set_sci_event("minus")

lai_busy_wait_pm_timer(d) == <<With("goal", "a", d), With("wait", "a", d)>>

-----------------------------------------------------------------------------
PmStart(c, accesses, r) ==
  /\ pmCall = "none" /\ ~(\E b \in Blocks : control[b].slp)
  /\ pmCall' = c /\ pmTodo' = accesses /\ result' = r
  /\ UNCHANGED <<registers, clock, locals, supported, tree, memory, acpi, tardy>>

CallEnable == PmStart("enable", lai_enable_acpi, "success")
CallDisable == PmStart("disable", lai_disable_acpi, "success")
CallGet == PmStart("get", lai_get_sci_event, "success")

(* A sleep state without a package, or whose evaluation fails, is not      *)
(* supported.                                                              *)
CallSleep ==
  \/ \E s \in States : PmStart("sleep", lai_enter_sleep(s), "success")
  \/ \E s \in States : PmStart("sleep", <<Do("init"), With("eval", "a", s), Do("finalize")>>, "unsupported")
  \/ PmStart("sleep", <<Do("init"), Do("finalize")>>, "unsupported")

(* pm_timer_length may be other than 4.                                    *)
CallStart == \E long \in BOOLEAN : PmStart("start", IF long THEN lai_start_pm_timer ELSE <<>>, IF long THEN "success" ELSE "unsupported")
CallStop == PmStart("stop", IF supported THEN lai_stop_pm_timer ELSE <<>>, IF supported THEN "success" ELSE "unsupported")
CallWait ==
  \E d \in Waits :
    PmStart("wait", IF supported THEN lai_busy_wait_pm_timer(d) ELSE <<>>, IF supported THEN "success" ELSE "unsupported")

(* Without the flag in the FADT nothing happens; otherwise the machine     *)
(* starts again.                                                           *)
lai_acpi_reset ==
  /\ pmCall = "none" /\ ~(\E b \in Blocks : control[b].slp)
  /\ \/ /\ status' = [b \in Blocks |-> {}] /\ enable' = [b \in Blocks |-> {}] /\ control' = [b \in Blocks |-> Off]
        /\ smi' = "none" /\ supported' = FALSE /\ acpi' = "off" /\ result' = "none"
        /\ base' = 0 /\ blocks' = {} /\ tardy' = FALSE
        /\ UNCHANGED <<clock, pmCall, pmTodo, locals, tree, freedTwice>>
     \/ UNCHANGED pmVars

PmReturn ==
  /\ pmCall # "none" /\ pmTodo = <<>>
  /\ pmCall' = "none"
  /\ acpi' = CASE pmCall = "enable" -> "on" [] pmCall = "disable" -> "off" [] OTHER -> acpi
  /\ seen' = {} /\ acc' = {} /\ data' = Off /\ goal' = 0 /\ timer' = 0 /\ elapsed' = 0
  /\ result' = "none"
  /\ UNCHANGED <<registers, pmTodo, supported, tree, memory, tardy>>

(* The next access is op.                                                  *)
PmStep(op) == pmTodo # <<>> /\ Head(pmTodo).op = op /\ pmTodo' = Tail(pmTodo)
Block == Head(pmTodo).block
PmArg == Head(pmTodo).arg

-----------------------------------------------------------------------------
(***************************************************************************)
(* lai_get_sci_event and lai_set_sci_event.                                *)
(***************************************************************************)
NoEvents ==
  /\ PmStep("none")
  /\ acc' = {} /\ seen' = {}
  /\ UNCHANGED <<registers, clock, pmCall, data, goal, supported, tree, memory, acpi, result, tardy>>

ReadStatus ==
  /\ PmStep("read")
  /\ seen' = status[Block] /\ acc' = acc \cup status[Block]
  /\ UNCHANGED <<registers, clock, pmCall, data, goal, supported, tree, memory, acpi, result, tardy>>

(* Writing a bit of the status clears it.  The mutant writes all bits.     *)
ClearAll ==
  /\ PmStep("clear")
  /\ status' = [status EXCEPT ![Block] = {}]
  /\ UNCHANGED <<enable, control, smi, clock, pmCall, locals, supported, tree, memory, acpi, result, tardy>>
ClearStatus ==
  /\ PmStep("clear")
  /\ status' = [status EXCEPT ![Block] = @ \ seen]
  /\ UNCHANGED <<enable, control, smi, clock, pmCall, locals, supported, tree, memory, acpi, result, tardy>>

WriteEnable ==
  /\ PmStep("enable")
  /\ enable' = [enable EXCEPT ![Block] = CASE PmArg = "buttons" -> Buttons
                                       [] PmArg = "nothing" -> {}
                                       [] PmArg = "plus" -> acc \cup {"TMR"}
                                       [] PmArg = "minus" -> acc \ {"TMR"}]
  /\ UNCHANGED <<status, control, smi, clock, pmCall, locals, supported, tree, memory, acpi, result, tardy>>

-----------------------------------------------------------------------------
(***************************************************************************)
(* lai_enable_acpi: the walk over the devices and the polls.               *)
(***************************************************************************)
(* The state of the interpreter: lai_init_state forgets the stack it had.  *)
InitState ==
  /\ PmStep("init")
  /\ base' = 0
  /\ UNCHANGED <<registers, clock, pmCall, locals, supported, tree, blocks, freedTwice, acpi, result, tardy>>

(* A deep evaluation moves the stacks to a block of the heap.              *)
NewBlock == CHOOSE n \in 1..(POLLS + 10) : n \notin blocks /\ n # base
Eval ==
  /\ PmStep("eval")
  /\ IF PmArg \in Deep /\ base = 0 THEN base' = NewBlock /\ blocks' = blocks \cup {NewBlock} ELSE UNCHANGED <<base, blocks>>
  /\ UNCHANGED <<registers, clock, pmCall, locals, supported, tree, freedTwice, acpi, result, tardy>>

(* lai_finalize_state frees what is on the heap and leaves the pointer.    *)
Finalize ==
  /\ PmStep("finalize")
  /\ blocks' = blocks \ {base}
  /\ freedTwice' = (freedTwice \/ (base # 0 /\ base \notin blocks))
  /\ UNCHANGED <<registers, clock, pmCall, locals, supported, tree, base, acpi, result, tardy>>

StartWalk ==
  /\ PmStep("walk")
  /\ walk' = Tree[Sb].children
  /\ UNCHANGED <<registers, clock, pmCall, locals, supported, visited, inits, memory, acpi, result, tardy>>

(* lai_init_children and lai_evaluate_sta: a device that is present runs   *)
(* its _INI, one that is present or functions has its children visited     *)
(* before its siblings.                                                    *)
Sta == {"present", "functional", "absent"}
lai_init_children ==
  /\ walk # <<>>
  /\ \E sta \in Sta :
       /\ visited' = visited \cup {[node |-> Head(walk), sta |-> sta]}
       /\ inits' = IF sta = "present" /\ Tree[Head(walk)].ini THEN Append(inits, Head(walk)) ELSE inits
       /\ walk' = (IF sta # "absent" THEN Tree[Head(walk)].children ELSE <<>>) \o Tail(walk)
  /\ UNCHANGED <<registers, clock, pmCall, pmTodo, locals, supported, memory, acpi, result, tardy>>

(* The record of the walk is dropped with the command that follows it.     *)
SendSmi ==
  /\ PmStep("smi")
  /\ smi' = PmArg
  /\ visited' = {} /\ inits' = <<>>
  /\ UNCHANGED <<status, enable, control, clock, pmCall, locals, supported, walk, memory, acpi, result, tardy>>

(* The loop ends when the bit is set; laihost_sleep returns at once.       *)
Poll ==
  /\ pmTodo # <<>> /\ Head(pmTodo).op = "poll"
  /\ IF control["a"].sci
     THEN \E k \in DOMAIN pmTodo : /\ pmTodo[k].op # "poll" /\ \A i \in 1..(k - 1) : pmTodo[i].op = "poll"
                                   /\ pmTodo' = SubSeq(pmTodo, k, Len(pmTodo))
     ELSE pmTodo' = Tail(pmTodo)
  /\ tardy' = (tardy \/ (~control["a"].sci /\ Head(Tail(pmTodo)).op # "poll"))
  /\ UNCHANGED <<registers, clock, pmCall, locals, supported, tree, memory, acpi, result>>

-----------------------------------------------------------------------------
(***************************************************************************)
(* The control registers, in lai_disable_acpi and lai_enter_sleep.         *)
(***************************************************************************)
Load ==
  /\ PmStep("load")
  /\ data' = control[Block]
  /\ tardy' = (tardy \/ smi # "none")
  /\ UNCHANGED <<registers, clock, pmCall, seen, acc, goal, supported, tree, memory, acpi, result>>

Store ==
  /\ PmStep("store")
  /\ control' = [control EXCEPT ![Block] = IF PmArg = "stop" THEN [data EXCEPT !.sci = FALSE]
                                       ELSE [data EXCEPT !.typ = Packages[PmArg][Block], !.slp = TRUE]]
  /\ UNCHANGED <<status, enable, smi, clock, pmCall, locals, supported, tree, memory, acpi, result, tardy>>

-----------------------------------------------------------------------------
(***************************************************************************)
(* The timer.                                                              *)
(***************************************************************************)
Support ==
  /\ PmStep("support")
  /\ supported' = TRUE
  /\ UNCHANGED <<registers, clock, pmCall, locals, tree, memory, acpi, result, tardy>>

(* The goal is a word; a timer of 24 bits cannot reach all of them.  The   *)
(* timer may have any value then.                                          *)
Goal ==
  /\ pmTodo # <<>> /\ Head(pmTodo).op = "goal"
  /\ timer' \in 0..(Range32 - 1) /\ goal' = (timer' + PmArg) % WORD
  /\ elapsed' = 0
  /\ IF ~Extended /\ goal' > TIMER - 1
     THEN pmTodo' = <<>> /\ result' = "unsupported"
     ELSE pmTodo' = Tail(pmTodo) /\ UNCHANGED result
  /\ UNCHANGED <<registers, pmCall, seen, acc, data, supported, tree, memory, acpi, tardy>>

WaitOver ==
  /\ PmStep("wait")
  /\ timer >= goal
  /\ UNCHANGED <<registers, clock, pmCall, locals, supported, tree, memory, acpi, result, tardy>>

-----------------------------------------------------------------------------
(***************************************************************************)
(* Hardware and firmware.                                                  *)
(***************************************************************************)
Raise ==
  /\ \E b \in Blocks, e \in Events : /\ <<b, e>> \in Raised /\ e \notin status[b]
                                    /\ status' = [status EXCEPT ![b] = @ \cup {e}]
  /\ UNCHANGED <<enable, control, smi, clock, pmCall, pmTodo, locals, supported, tree, memory, acpi, result, tardy>>

ObeySmi ==
  /\ smi # "none"
  /\ smi' = "none"
  /\ control' = [b \in Blocks |-> [control[b] EXCEPT !.sci = (smi = "enable")]]
  /\ UNCHANGED <<status, enable, clock, pmCall, pmTodo, locals, supported, tree, memory, acpi, result, tardy>>

(* Between the waits nobody looks at the timer.                            *)
Tick ==
  /\ pmCall = "wait" /\ pmTodo # <<>> /\ Head(pmTodo).op = "wait"
  /\ timer' = (timer + 1) % Range32
  /\ elapsed' = IF elapsed < WORD THEN elapsed + 1 ELSE elapsed
  /\ UNCHANGED <<registers, pmCall, pmTodo, locals, supported, tree, memory, acpi, result, tardy>>

(* The machine sleeps until something wakes it.                            *)
PmWake ==
  /\ pmCall = "none" /\ \A b \in Blocks : control[b].slp
  /\ control' = [b \in Blocks |-> [control[b] EXCEPT !.slp = FALSE]]
  /\ status' = [status EXCEPT !["a"] = @ \cup {"WAKE"}]
  /\ UNCHANGED <<enable, smi, clock, pmCall, pmTodo, locals, supported, tree, memory, acpi, result, tardy>>

Software ==
  \/ (walk = <<>> /\ (\/ NoEvents \/ ReadStatus \/ ClearStatus \/ WriteEnable
                      \/ InitState \/ Eval \/ Finalize \/ StartWalk \/ SendSmi \/ Poll
                      \/ Load \/ Store \/ Support \/ Goal \/ WaitOver \/ PmReturn))
  \/ lai_init_children

PmNext ==
  \/ CallEnable \/ CallDisable \/ CallGet \/ CallSleep \/ CallStart \/ CallStop \/ CallWait \/ lai_acpi_reset
  \/ Software \/ Raise \/ ObeySmi \/ Tick \/ PmWake

(* The code runs on, the firmware obeys and the timer counts.              *)
PmFairness == WF_pmVars(Software) /\ WF_pmVars(ObeySmi) /\ WF_pmVars(Tick)

PmSpec == PmInit /\ [][PmNext]_pmVars /\ PmFairness

-----------------------------------------------------------------------------
(* The variables have their types.                                         *)
PmTypeOK ==
  /\ status \in [Blocks -> SUBSET Events] /\ enable \in [Blocks -> SUBSET Events]
  /\ \A b \in Blocks : control[b].sci \in BOOLEAN /\ control[b].slp \in BOOLEAN
  /\ smi \in {"none", "enable", "disable"} /\ timer \in 0..(Range32 - 1) /\ goal \in 0..(WORD - 1)
  /\ seen \subseteq Events /\ acc \subseteq Events /\ result \in {"none", "success", "unsupported"}
  /\ tardy \in BOOLEAN

(* An event is only cleared by code that has read it, and whose result     *)
(* then names it: one that comes between the read of the status and the    *)
(* write stays.  A reset clears them all.                                  *)
EventsReported == [][lai_acpi_reset \/ \A b \in Blocks : status[b] \ status'[b] \subseteq acc]_pmVars

(* Once ACPI is enabled the buttons' events are, in both blocks, whatever  *)
(* is called after that (lai_enable_acpi's "set FADT event fields"), as    *)
(* long as the timer is not started: that writes the status it read into   *)
(* the enable registers.                                                   *)
ButtonsEnabled == pmCall = "none" /\ acpi = "on" /\ ~supported => \A b \in Blocks : Buttons \subseteq enable[b]

(* Once ACPI is disabled no event is enabled, and the firmware has it off  *)
(* as soon as it has obeyed (lai_disable_acpi's "Disable all SCI events"), *)
(* unless it was told more before it had obeyed.                           *)
QuietWhenOff ==
  pmCall = "none" /\ acpi = "off" =>
    \A b \in Blocks : (supported \/ enable[b] = {}) /\ (smi = "none" /\ ~tardy => ~control[b].sci)

(* lai_enable_acpi returns 0 only when ACPI is enabled ("Return: int - 0   *)
(* on success"), unless its polls gave up.                                 *)
EnableReports == pmCall = "enable" /\ ~tardy /\ pmTodo = <<>> /\ result = "success" => \A b \in Blocks : control[b].sci

(* Every _INI is that of a device that is present, none runs twice, and    *)
(* all its ancestors were found present or functional before it ran.       *)
Here(n) == {v \in visited : v.node = n}
Parents(n) == {p \in DOMAIN Tree : n \in Range(Tree[p].children)}
DevicesInitialised ==
  /\ \A i, j \in DOMAIN inits : i # j => inits[i] # inits[j]
  /\ \A i \in DOMAIN inits : \E v \in Here(inits[i]) : v.sta = "present"
  /\ \A v \in visited : \A p \in Parents(v.node) \ {Sb} : \E w \in Here(p) : w.sta # "absent"
  /\ pmCall = "enable" /\ walk = <<>> /\ visited # {} =>
       \A v \in visited : v.sta # "absent" => \A c \in Range(Tree[v.node].children) : Here(c) # {}

(* A machine that sleeps has in each block the sleep type of that block,   *)
(* and the bit that enables ACPI is what it was.                           *)
SleepTypes ==
  pmCall = "none" /\ (\A b \in Blocks : control[b].slp) =>
    /\ \E s \in States : \A b \in Blocks : control[b].typ = Packages[s][b]
    /\ smi = "none" /\ ~tardy => \A b \in Blocks : control[b].sci = (acpi = "on")

(* The blocks that evaluations allocate are freed, and freed once          *)
(* ("Finalize the interpreter state. Frees all memory owned by the         *)
(* state.").                                                               *)
StateFreed == ~freedTwice /\ (pmCall = "none" => blocks = {})

(* A wait that succeeds has lasted as long as asked.                       *)
WaitedLongEnough == [][WaitOver => elapsed >= PmArg]_pmVars

(* Every call returns but a wait: its goal may lie so close to the timer's *)
(* wrap that the loop keeps missing it.                                    *)
PmReturns == pmCall \notin {"none", "wait"} ~> pmCall = "none"

(***************************************************************************)
(* Power management is correct in any sequence of calls, with hardware     *)
(* events, slow firmware and a wrapping timer between their steps: no      *)
(* event is cleared unreported, waits are long enough, the calls return,   *)
(* and the registers, devices and evaluation states are left as the calls  *)
(* promise.                                                                *)
(***************************************************************************)
PmCorrect ==
  /\ PmReturns /\ EventsReported /\ WaitedLongEnough
  /\ [](PmTypeOK /\ ButtonsEnabled /\ QuietWhenOff /\ EnableReports /\ DevicesInitialised /\ SleepTypes /\ StateFreed)
=============================================================================

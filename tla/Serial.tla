------------------------------- MODULE Serial -------------------------------
(***************************************************************************)
(* ComPrint and ComPutChar (utl/serial.c): the kernel prints a number with *)
(* %d or %x while interrupt handlers print too.  ComPutChar waits until    *)
(* the transmitter is empty and then writes; an interrupt may come between *)
(* the two.  int has Width bits and digits base Base (32, 10 in the code;  *)
(* %x prints Width \div 4 digits of 4 bits).                               *)
(***************************************************************************)
EXTENDS Integers, Sequences

CONSTANTS
  Width,         \* bits of an int
  Base,          \* the base of %d
  Nibble,        \* bits of a digit of %x
  MaxIrqs,       \* bound: interrupts whose handlers print
  HandlerChars   \* characters a handler prints

ASSUME SerialAssumption ==
  /\ Width \in Nat \ {0} /\ Base \in Nat \ {0, 1} /\ Nibble \in Nat \ {0} /\ Width % Nibble = 0
  /\ MaxIrqs \in Nat /\ HandlerChars \in Nat \ {0}

(* Numbers %d can print: -num must not overflow, and div must stay in int. *)
Ints == (1 - 2^(Width - 1))..(2^(Width - 1) - 1)
Minus == -1

VARIABLES
  conversion,    \* "d" or "x"
  value,         \* the argument
  num, div,      \* ComPrint's variables; for %x div is the weight of a digit
  comPc,            \* "start", "sign", "scale", "digit" (in ComPutChar: "wait", "write") or "done"
  char,          \* the character ComPutChar was called with
  back,          \* where ComPutChar returns to
  handler,       \* characters the running interrupt handler still prints
  irqs,
  busy,          \* the transmitter holds a character
  sent,          \* history: what the kernel wrote
  lost           \* history: characters written to a full transmitter

locals == <<conversion, value, num, div, comPc, char, back>>
comVars == <<locals, handler, irqs, busy, sent, lost>>

ComInit ==
  /\ conversion \in {"d", "x"} /\ value \in Ints
  /\ num = 0 /\ div = 0 /\ comPc = "start" /\ char = 0 /\ back = "start"
  /\ handler = 0 /\ irqs = 0 /\ busy = FALSE
  /\ sent = <<>> /\ lost = 0

(* ComPutChar(c), to go on at where.                                       *)
Put(c, where) == char' = c /\ back' = where /\ comPc' = "wait"

(* A step of the kernel itself; handlers run to their end first.           *)
Kernel(where) == handler = 0 /\ comPc = where /\ UNCHANGED <<conversion, value, handler, irqs, busy, sent, lost>>

Start ==
  /\ Kernel("start")
  /\ IF conversion = "x"
     THEN num' = value % 2^Width /\ div' = 2^(Width - Nibble) /\ comPc' = "digit" /\ UNCHANGED <<char, back>>
     ELSE IF value < 0 THEN num' = -value /\ div' = 1 /\ Put(Minus, "scale")
     ELSE num' = value /\ div' = 1 /\ comPc' = "scale" /\ UNCHANGED <<char, back>>

(* Mutant: the largest power is one too small for powers of the base.      *)
ScaleShort ==
  /\ Kernel("scale")
  /\ IF num \div div > Base THEN div' = div * Base /\ UNCHANGED comPc ELSE comPc' = "digit" /\ UNCHANGED div
  /\ UNCHANGED <<num, char, back>>

Scale ==
  /\ Kernel("scale")
  /\ IF num \div div >= Base THEN div' = div * Base /\ UNCHANGED comPc ELSE comPc' = "digit" /\ UNCHANGED div
  /\ UNCHANGED <<num, char, back>>

Radix == IF conversion = "d" THEN Base ELSE 2^Nibble

Digit ==
  /\ Kernel("digit")
  /\ IF div = 0 THEN comPc' = "done" /\ UNCHANGED <<num, div, char, back>>
     ELSE Put(num \div div, "digit") /\ num' = num % div /\ div' = div \div Radix

WaitEmpty ==
  /\ Kernel("wait") /\ ~busy
  /\ comPc' = "write"
  /\ UNCHANGED <<num, div, char, back>>

(* Writing to a full transmitter overwrites the character in it.           *)
WriteChar ==
  /\ handler = 0 /\ comPc = "write"
  /\ comPc' = back /\ busy' = TRUE
  /\ sent' = Append(sent, char) /\ lost' = IF busy THEN lost + 1 ELSE lost
  /\ UNCHANGED <<conversion, value, num, div, char, back, handler, irqs>>

(* An interrupt, and its handler's ComPutChar, which nothing interrupts.   *)
ComInterrupt ==
  /\ handler = 0 /\ irqs < MaxIrqs /\ comPc # "done"
  /\ handler' = HandlerChars /\ irqs' = irqs + 1
  /\ UNCHANGED <<locals, busy, sent, lost>>

HandlerPut ==
  /\ handler > 0 /\ ~busy
  /\ handler' = handler - 1 /\ busy' = TRUE
  /\ UNCHANGED <<locals, irqs, sent, lost>>

(* The transmitter shifts its character out.                               *)
Transmit ==
  /\ busy /\ busy' = FALSE
  /\ UNCHANGED <<locals, handler, irqs, sent, lost>>

ComDone == comPc = "done" /\ handler = 0 /\ ~busy /\ UNCHANGED comVars

ComPrint == Start \/ Scale \/ Digit \/ WaitEmpty \/ WriteChar
ComNext == ComPrint \/ ComInterrupt \/ HandlerPut \/ Transmit \/ ComDone

(* The processor and the transmitter run on; interrupts need not come.     *)
ComFairness == WF_comVars(ComPrint) /\ WF_comVars(HandlerPut) /\ WF_comVars(Transmit)

ComSpec == ComInit /\ [][ComNext]_comVars /\ ComFairness

-----------------------------------------------------------------------------
(***************************************************************************)
(* What is printed: a sign for negative numbers and digits without leading *)
(* zeros, or all the digits of a hexadecimal number, that evaluate to the  *)
(* argument.  Interrupts in the middle change nothing of it.               *)
(***************************************************************************)
Digits == IF sent # <<>> /\ sent[1] = Minus THEN Tail(sent) ELSE sent
ValueOf[k \in 0..Len(Digits)] == IF k = 0 THEN 0 ELSE ValueOf[k - 1] * Radix + Digits[k]
PrintedCorrectly ==
  comPc = "done" =>
    /\ \A k \in DOMAIN Digits : Digits[k] \in 0..(Radix - 1)
    /\ IF conversion = "x" THEN Len(sent) = Width \div Nibble /\ ValueOf[Len(Digits)] = value % 2^Width
       ELSE /\ ValueOf[Len(Digits)] = IF value < 0 THEN -value ELSE value
            /\ Len(Digits) # Len(sent) <=> value < 0
            /\ Len(Digits) > 1 => Digits[1] # 0

(* An interrupt costs at most one character: only the last one its handler *)
(* wrote can be overwritten, by a ComPutChar that had already waited.      *)
LossBounded == lost <= irqs

(* ComPrint returns.                                                       *)
PrintEnds == <>(comPc = "done")

(***************************************************************************)
(* The inductive invariant: a character that the next write would destroy  *)
(* is charged to an interrupt that came after the kernel had waited.       *)
(***************************************************************************)
Charged == IF comPc = "write" /\ (busy \/ handler > 0) THEN 1 ELSE 0
ComIInv ==
  /\ irqs \in Nat /\ lost \in Nat /\ handler \in Nat /\ back # "write"
  /\ lost + Charged <= irqs
=============================================================================

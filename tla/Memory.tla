------------------------------- MODULE Memory -------------------------------
(***************************************************************************)
(* memcpy, memmove, memset and memcmp of lib/memory.c.  They work byte by  *)
(* byte from the lowest address; source and destination are parts of one   *)
(* memory and may overlap.                                                 *)
(***************************************************************************)
EXTENDS Integers

CONSTANTS
  Size,       \* bytes of memory
  Values,     \* values of a byte
  Backwards   \* may the destination overlap the source from above?

ASSUME MemoryAssumption == Size \in Nat /\ Values \subseteq 0..255 /\ Values # {} /\ Backwards \in BOOLEAN

VARIABLES
  memory,     \* the bytes
  before,     \* history: the bytes when the call began
  call,       \* the call: its name, operands and length
  i           \* the loop's counter

memVars == <<memory, before, call, i>>

Addresses == 0..(Size - 1)
Idle == [name |-> "idle", dest |-> 0, source |-> 0, size |-> 0, value |-> 0]
Calls == {c \in [name : {"memmove", "memset"}, dest : Addresses, source : Addresses, size : 0..Size, value : Values] :
            /\ c.dest + c.size <= Size /\ c.source + c.size <= Size
            /\ Backwards \/ c.dest <= c.source \/ c.dest >= c.source + c.size \/ c.name = "memset"
            /\ c.name = "memset" => c.source = 0
            /\ c.name = "memmove" => c.value = CHOOSE v \in Values : TRUE}

MemInit == memory \in [Addresses -> Values] /\ before = memory /\ call = Idle /\ i = 0

Call(c) ==
  /\ call = Idle
  /\ call' = c /\ i' = 0 /\ before' = memory
  /\ UNCHANGED memory

RtCopyMemory ==
  /\ call.name = "memmove" /\ i < call.size
  /\ memory' = [memory EXCEPT ![call.dest + i] = memory[call.source + i]]
  /\ i' = i + 1
  /\ UNCHANGED <<before, call>>

RtFillMemory ==
  /\ call.name = "memset" /\ i < call.size
  /\ memory' = [memory EXCEPT ![call.dest + i] = call.value]
  /\ i' = i + 1
  /\ UNCHANGED <<before, call>>

Return ==
  /\ call # Idle /\ i = call.size
  /\ call' = Idle /\ i' = 0 /\ before' = memory
  /\ UNCHANGED memory

MemNext == (\E c \in Calls : Call(c)) \/ RtCopyMemory \/ RtFillMemory \/ Return

MemSpec == MemInit /\ [][MemNext]_memVars

(***************************************************************************)
(* When a call returns, the destination has the bytes the source had when  *)
(* it was called (or the value), and nothing else has changed.             *)
(***************************************************************************)
Moved ==
  call # Idle /\ i = call.size =>
    \A a \in Addresses :
      memory[a] = IF a \notin call.dest..(call.dest + call.size - 1) THEN before[a]
                  ELSE IF call.name = "memset" THEN call.value
                  ELSE before[call.source + a - call.dest]

(***************************************************************************)
(* The inductive invariant: the bytes before the counter are done, all     *)
(* others are as they were.                                                *)
(***************************************************************************)
MovedSoFar ==
  \A a \in Addresses :
    memory[a] = IF a \notin call.dest..(call.dest + i - 1) THEN before[a]
                ELSE IF call.name = "memset" THEN call.value
                ELSE before[call.source + a - call.dest]
MemIInv ==
  /\ memory \in [Addresses -> Values] /\ before \in [Addresses -> Values]
  /\ call \in Calls \cup {Idle} /\ i \in 0..call.size
  /\ MovedSoFar
=============================================================================

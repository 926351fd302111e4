---------------------------- MODULE CommandQueue ----------------------------
(***************************************************************************)
(* What a command ring promises: commands reach the controller once each,  *)
(* in the order in which they were added, and none stays behind.           *)
(***************************************************************************)
EXTENDS Naturals, Sequences

CONSTANTS Commands, NoCommand, Capacity

VARIABLES
  queue,    \* commands the controller has not fetched
  got       \* the command it fetched last

Init == queue = <<>> /\ got = NoCommand

Put(c) ==
  /\ Len(queue) < Capacity
  /\ queue' = Append(queue, c)
  /\ UNCHANGED got

Get ==
  /\ queue # <<>>
  /\ got' = Head(queue)
  /\ queue' = Tail(queue)

Next == Get \/ \E c \in Commands : Put(c)

Spec == Init /\ [][Next]_<<queue, got>> /\ WF_<<queue, got>>(Get)
=============================================================================

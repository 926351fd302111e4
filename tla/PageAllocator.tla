--------------------------- MODULE PageAllocator ---------------------------
(***************************************************************************)
(* What a page allocator promises its callers, without bitmap, cursor or   *)
(* counters: a request is answered with a frame that nobody has, and only  *)
(* what was handed out or withheld comes back.  Pmm implements it.         *)
(***************************************************************************)
VARIABLES
  frames,    \* the frames under management
  out,       \* frames handed out to callers
  withheld   \* frames set aside: they are not handed out

vars == <<frames, out, withheld>>

Available == frames \ (out \cup withheld)

Init == frames = {} /\ out = {} /\ withheld = {}

\* The frames are chosen once, some of them withheld from the start.
Start ==
  /\ frames = {}
  /\ withheld' \subseteq frames'
  /\ UNCHANGED out

Request ==
  /\ \E f \in Available : out' = out \cup {f}
  /\ UNCHANGED <<frames, withheld>>

Free ==
  /\ \E f \in out : out' = out \ {f}
  /\ UNCHANGED <<frames, withheld>>

Withhold ==
  /\ withheld \subseteq withheld'
  /\ withheld' \subseteq withheld \cup Available
  /\ UNCHANGED <<frames, out>>

Release ==
  /\ withheld' \subseteq withheld
  /\ UNCHANGED <<frames, out>>

Next == Start \/ Request \/ Free \/ Withhold \/ Release

Spec == Init /\ [][Next]_vars
============================================================================

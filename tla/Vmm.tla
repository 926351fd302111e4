-------------------------------- MODULE Vmm --------------------------------
(***************************************************************************)
(* The page tables of kernel/mem/vmm.c: four levels of tables in physical  *)
(* frames, MmMapMemory one table at a time, the permissions of a page, and *)
(* the processor that walks the tables, and caches what it finds, whenever *)
(* it likes.                                                               *)
(*                                                                         *)
(* Addresses are page numbers: the code drops the offset.  Frames come     *)
(* from MmRequestPage, which is modelled by what PageAllocator promises, a *)
(* frame nobody has; nothing here frees one, so they come in order.  The   *)
(* boot loader's tables use no large pages where the kernel maps.          *)
(*                                                                         *)
(* asked and granted are what callers asked for, owned the frames that are *)
(* theirs; no operation reads them.                                        *)
(***************************************************************************)
EXTENDS Integers

CONSTANTS
  Fanout,      \* entries of a table
  PpnLimit,    \* page_ppn holds numbers below this
  BootTop,     \* the boot loader maps the pages 0 .. BootTop - 1 to themselves
  FirstFree,   \* first frame MmRequestPage returns
  RamTop,      \* bound: frames of memory are below this
  MaxFrame,    \* bound: the last frame there is
  Mmio,        \* frames of devices, which drivers map to themselves
  HeapPages,   \* the pages the heap maps
  Permissions, \* the PAGE_*_BIT fields in use; "write" is one of them
  CachedPages  \* bound: the pages the TLB has room for

Pages == 0 .. Fanout * Fanout * Fanout * Fanout - 1
Frames == 0 .. MaxFrame

\* Frames 0 .. 3 hold the boot loader's tables: PML4, PDP, PD and PT.
kPML4 == 0

ASSUME VmmAssumption ==
  /\ Fanout \in Nat \ {0} /\ MaxFrame \in Nat /\ PpnLimit \in Nat
  /\ BootTop \in 0 .. Fanout
  /\ RamTop \in Nat /\ FirstFree \in 4 .. RamTop /\ BootTop <= FirstFree
  /\ RamTop <= MaxFrame /\ MaxFrame < PpnLimit /\ Frames \subseteq Pages
  /\ Mmio \subseteq RamTop .. MaxFrame
  /\ HeapPages \subseteq Pages \ Frames
  /\ "write" \in Permissions
  /\ CachedPages \subseteq Pages

NoFrame == -1
Idle == [page |-> NoFrame, frame |-> NoFrame, level |-> 0, table |-> kPML4]

VARIABLES
  frames,    \* the tables: the entries in every frame
  next,      \* the frame MmRequestPage returns next
  call,      \* the call of MmMapMemory under way: its arguments and locals
  tlb,       \* translations the processor has cached
  asked,     \* the frame callers asked for, per page
  granted,   \* the permissions callers gave a page
  owned      \* frames callers have got

vars == <<frames, next, call, tlb, asked, granted, owned>>

Entry == [present : BOOLEAN, perm : SUBSET Permissions, page_ppn : Frames]
Absent == [present |-> FALSE, perm |-> {}, page_ppn |-> 0]
Zeroed == [i \in 0 .. Fanout - 1 |-> Absent]
\* What a frame may hold before it is zeroed.
Garbage == [i \in 0 .. Fanout - 1 |-> [present |-> TRUE, perm |-> {}, page_ppn |-> 0]]

\* MmGetPageIndices: the index of a page in a table of a level; level 4 is
\* the PML4 (map.pdp), level 1 the page table (map.p).
Index(page, level) ==
  CASE level = 1 -> page % Fanout
    [] level = 2 -> (page \div Fanout) % Fanout
    [] level = 3 -> (page \div (Fanout * Fanout)) % Fanout
    [] level = 4 -> (page \div (Fanout * Fanout * Fanout)) % Fanout

EntryOf(table, page, level) == frames[table][Index(page, level)]

\* The page table entry of a page, as MmGetPhysicalAddress and the permission
\* functions reach it: without a look at the present bits.
Pdp(page) == EntryOf(kPML4, page, 4).page_ppn
Pd(page) == EntryOf(Pdp(page), page, 3).page_ppn
Pt(page) == EntryOf(Pd(page), page, 2).page_ppn
Pte(page) == EntryOf(Pt(page), page, 1)

MmGetPhysicalAddress(page) == Pte(page).page_ppn

MmGetPagePermissions(page) == Pte(page).perm

\* The processor's walk: every level must be present.
Translate(page) ==
  IF /\ EntryOf(kPML4, page, 4).present
     /\ EntryOf(Pdp(page), page, 3).present
     /\ EntryOf(Pd(page), page, 2).present
     /\ Pte(page).present
  THEN Pte(page).page_ppn
  ELSE NoFrame

(***************************************************************************)
(* MmMapMemory.                                                            *)
(***************************************************************************)
\* A call may need three tables and the frame it is about.
FramesLeft == next + 4 <= RamTop

Enter(page, frame) ==
  call' = [page |-> page, frame |-> frame, level |-> 4, table |-> kPML4]

\* A driver maps the registers of its device: MmMapMemory(a, a).
MapDevice(frame) ==
  /\ call = Idle /\ FramesLeft
  /\ Enter(frame, frame)
  /\ UNCHANGED <<frames, next, tlb, asked, granted, owned>>

\* The heap maps a page it has not mapped yet: MmMapMemory(a, MmRequestPage()).
MapHeapPage(page) ==
  /\ call = Idle /\ FramesLeft
  /\ asked[page] = NoFrame
  /\ Enter(page, next)
  /\ next' = next + 1
  /\ owned' = owned \cup {next}
  /\ UNCHANGED <<frames, tlb, asked, granted>>

MmGetIdentityPage ==
  /\ call = Idle /\ FramesLeft
  /\ Enter(next, next)
  /\ next' = next + 1
  /\ owned' = owned \cup {next}
  /\ UNCHANGED <<frames, tlb, asked, granted>>

\* The table of the next level is there.
Descend ==
  LET e == EntryOf(call.table, call.page, call.level)
  IN  /\ call.level > 1
      /\ e.present
      /\ call' = [call EXCEPT !.level = @ - 1, !.table = e.page_ppn]
      /\ UNCHANGED <<frames, next, tlb, asked, granted, owned>>

\* What MmMapMemory makes of an entry: present, writable, and page_ppn the
\* frame, cut to its width.
Mapped(e, frame) ==
  [present |-> TRUE, perm |-> e.perm \cup {"write"}, page_ppn |-> frame % PpnLimit]

\* Faulty variants: the new table keeps what was in the frame; the parent is
\* written at the wrong index; the address is not turned into a page number.
LinkWithoutZeroing(table, i, fresh) ==
  [frames EXCEPT ![table][i] = Mapped(@, fresh)]
LinkAtIndexZero(table, i, fresh) ==
  [frames EXCEPT ![fresh] = Zeroed,
                 ![table][0] = Mapped(@, fresh)]

LinkUnshifted(table, i, fresh) ==
  [frames EXCEPT ![fresh] = Zeroed,
                 ![table][i] = Mapped(@, fresh * Fanout)]

\* A zeroed table is linked into its parent.
Link(table, i, fresh) ==
  [frames EXCEPT ![fresh] = Zeroed,
                 ![table][i] = Mapped(@, fresh)]

\* Faulty variant: the frame of the new table stays free.
DescendNewUnlocked ==
  LET i == Index(call.page, call.level)
  IN  /\ call.level > 1
      /\ ~EntryOf(call.table, call.page, call.level).present
      /\ frames' = Link(call.table, i, next)
      /\ call' = [call EXCEPT !.level = @ - 1, !.table = next]
      /\ UNCHANGED <<next, tlb, asked, granted, owned>>

\* The table of the next level is missing.
DescendNew ==
  LET i == Index(call.page, call.level)
  IN  /\ call.level > 1
      /\ ~EntryOf(call.table, call.page, call.level).present
      /\ frames' = Link(call.table, i, next)
      /\ next' = next + 1
      /\ call' = [call EXCEPT !.level = @ - 1, !.table = next]
      /\ UNCHANGED <<tlb, asked, granted, owned>>

\* The entry is written and the call returns.
SetEntry ==
  /\ call.level = 1
  /\ frames' = [frames EXCEPT ![call.table][Index(call.page, 1)] = Mapped(@, call.frame)]
  /\ call' = Idle
  /\ asked' = [asked EXCEPT ![call.page] = call.frame]
  /\ granted' = [granted EXCEPT ![call.page] = @ \cup {"write"}]
  /\ UNCHANGED <<next, tlb, owned>>

(***************************************************************************)
(* Permissions, of pages that are mapped: the code does not ask.           *)
(***************************************************************************)
MmSetPagePermissions(page, perm) ==
  frames' = [frames EXCEPT ![Pt(page)][Index(page, 1)].perm = perm]

MmPageSet(page, field) ==
  /\ call = Idle /\ asked[page] # NoFrame
  /\ MmSetPagePermissions(page, MmGetPagePermissions(page) \cup {field})
  /\ granted' = [granted EXCEPT ![page] = @ \cup {field}]
  /\ UNCHANGED <<next, call, tlb, asked, owned>>

MmPageClear(page, field) ==
  /\ call = Idle /\ asked[page] # NoFrame
  /\ MmSetPagePermissions(page, MmGetPagePermissions(page) \ {field})
  /\ granted' = [granted EXCEPT ![page] = @ \ {field}]
  /\ UNCHANGED <<next, call, tlb, asked, owned>>

(***************************************************************************)
(* The processor, at any moment: also in the middle of MmMapMemory.        *)
(***************************************************************************)
TlbFill(page) ==
  /\ Translate(page) # NoFrame
  /\ tlb' = [tlb EXCEPT ![page] = Translate(page)]
  /\ UNCHANGED <<frames, next, call, asked, granted, owned>>

TlbEvict(page) ==
  /\ tlb' = [tlb EXCEPT ![page] = NoFrame]
  /\ UNCHANGED <<frames, next, call, asked, granted, owned>>

-----------------------------------------------------------------------------
\* MmInitializePaging: the boot loader's tables stay, loading CR3 empties the
\* TLB.
BootEntry(frame) == [present |-> TRUE, perm |-> {"write"}, page_ppn |-> frame]

MmInitializePaging ==
  /\ frames = [f \in Frames |->
       CASE f \in 0 .. 2 -> [Zeroed EXCEPT ![0] = BootEntry(f + 1)]
         [] f = 3 -> [i \in 0 .. Fanout - 1 |-> IF i < BootTop THEN BootEntry(i) ELSE Absent]
         [] OTHER -> Garbage]
  /\ tlb = [page \in CachedPages |-> NoFrame]

Init ==
  /\ MmInitializePaging
  /\ next = FirstFree
  /\ call = Idle
  /\ asked = [page \in Pages |-> IF page < BootTop THEN page ELSE NoFrame]
  /\ granted = [page \in Pages |-> IF page < BootTop THEN {"write"} ELSE {}]
  /\ owned = {}

MmMapMemory == Descend \/ DescendNew \/ SetEntry

Next ==
  \/ \E frame \in Mmio : MapDevice(frame)
  \/ \E page \in HeapPages : MapHeapPage(page)
  \/ MmGetIdentityPage
  \/ MmMapMemory
  \/ \E page \in HeapPages \cup Mmio, field \in Permissions :
       MmPageSet(page, field) \/ MmPageClear(page, field)
  \/ \E page \in CachedPages : TlbFill(page) \/ TlbEvict(page)

Spec == Init /\ [][Next]_vars

-----------------------------------------------------------------------------
(***************************************************************************)
(* Properties.                                                             *)
(***************************************************************************)
\* The type of the state.
TypeOK ==
  /\ frames \in [Frames -> [0 .. Fanout - 1 -> Entry]]
  /\ next \in Frames
  /\ call \in [page : Pages \cup {NoFrame}, frame : Frames \cup {NoFrame},
               level : 0 .. 4, table : Frames]
  /\ tlb \in [CachedPages -> Frames \cup {NoFrame}]
  /\ asked \in [Pages -> Frames \cup {NoFrame}]
  /\ granted \in [Pages -> SUBSET Permissions]
  /\ owned \subseteq Frames

\* The tables of each level that are linked into the tree.
Tables3 == {EntryOf(kPML4, page, 4).page_ppn :
              page \in {p \in Pages : EntryOf(kPML4, p, 4).present}}
Links3 == {l \in Tables3 \X (0 .. Fanout - 1) : frames[l[1]][l[2]].present}
Tables2 == {frames[l[1]][l[2]].page_ppn : l \in Links3}
Links2 == {l \in Tables2 \X (0 .. Fanout - 1) : frames[l[1]][l[2]].present}
Tables1 == {frames[l[1]][l[2]].page_ppn : l \in Links2}
Links4 == {<<kPML4, i>> : i \in {j \in 0 .. Fanout - 1 : frames[kPML4][j].present}}
Tables == {kPML4} \cup Tables3 \cup Tables2 \cup Tables1

\* No table is linked from two places, none is a frame a caller owns or a
\* device's, and none is still to be handed out: writing a mapping can change
\* neither another mapping nor a caller's memory.
TablesPrivate ==
  /\ LET links == Links4 \cup Links3 \cup Links2
     IN  \A k, l \in links :
           frames[k[1]][k[2]].page_ppn = frames[l[1]][l[2]].page_ppn => k = l
  /\ kPML4 \notin Tables3 \cup Tables2 \cup Tables1
  /\ Tables \cap (owned \cup Mmio \cup (next .. RamTop)) = {}

\* At every moment, in the middle of MmMapMemory as well, the processor
\* translates exactly the pages callers asked for, to the frames they asked
\* for and with the permissions they last set, and MmGetPhysicalAddress and
\* MmGetPagePermissions say the same: MmPageSet and MmPageClear change their
\* own page only.
TranslationCorrect ==
  \A page \in Pages :
    /\ Translate(page) = asked[page]
    /\ asked[page] # NoFrame => /\ MmGetPhysicalAddress(page) = asked[page]
                                /\ MmGetPagePermissions(page) = granted[page]

\* MmMapMemory never invalidates the TLB.  What the processor has cached is
\* still what callers asked for, because a page that is mapped for the first
\* time was not in it.
TlbCurrent == \A page \in CachedPages : tlb[page] \in {NoFrame, asked[page]}
-----------------------------------------------------------------------------
(***************************************************************************)
(* The inductive invariant.                                                *)
(***************************************************************************)
\* The table of a level on the way to a page, and whether the processor gets
\* that far.
TableOf(page, level) ==
  CASE level = 4 -> kPML4
    [] level = 3 -> Pdp(page)
    [] level = 2 -> Pd(page)
    [] level = 1 -> Pt(page)

Linked(page, level) ==
  /\ level < 4 => EntryOf(kPML4, page, 4).present
  /\ level < 3 => EntryOf(Pdp(page), page, 3).present
  /\ level < 2 => EntryOf(Pd(page), page, 2).present

\* Frames are handed out in order: none of those left is a caller's, nor is it
\* the number of a page that is mapped.
FramesInOrder ==
  /\ next \in FirstFree .. RamTop
  /\ owned \subseteq 0 .. next - 1
  /\ \A page \in next .. RamTop - 1 : asked[page] = NoFrame
  /\ \A page \in Mmio : asked[page] \in {NoFrame, page}

\* The call under way stands at its page's table of its level; it maps a page
\* that is not mapped, or maps it to the same frame; and the frames for the
\* tables it may still need are there.
CallSound ==
  call = Idle \/
    /\ call.level \in 1 .. 4 /\ call.page \in Pages /\ call.frame \in Frames
    /\ Linked(call.page, call.level) /\ call.table = TableOf(call.page, call.level)
    /\ next + (call.level - 1) <= RamTop
    /\ asked[call.page] \in {NoFrame, call.frame}
    /\ call.page \notin next .. RamTop - 1
    /\ call.page \in HeapPages \/ call.frame = call.page

\* An entry has the permissions its page was given before it is present too.
PermissionsKept ==
  \A page \in Pages :
    granted[page] = IF Linked(page, 1) THEN MmGetPagePermissions(page) ELSE {}

IInv ==
  /\ TypeOK /\ TablesPrivate /\ TranslationCorrect /\ TlbCurrent
  /\ FramesInOrder /\ CallSound /\ PermissionsKept
=============================================================================

----------------------------- MODULE VmmProofs -----------------------------
(***************************************************************************)
(* Proofs about the page tables: the invariant IInv of Vmm is inductive,   *)
(* and with it the tables are a tree of private frames, the processor      *)
(* translates exactly what callers asked for, and the TLB is never stale.  *)
(*                                                                         *)
(* The tables are reasoned about as a function f of the frames, so that    *)
(* the same lemmas serve the state before and the state after a step.      *)
(***************************************************************************)
EXTENDS Vmm, ArithmeticLemmas

(***************************************************************************)
(* The indices of a page.                                                  *)
(***************************************************************************)
Indices == 0 .. Fanout - 1

\* Constants, in the form the arithmetic steps use.
LEMMA Constants ==
  /\ Fanout \in Nat \ {0}
  /\ Pages = 0 .. Fanout * Fanout * Fanout * Fanout - 1
  /\ Fanout * Fanout * Fanout * Fanout \in Nat
PROOF
  BY VmmAssumption DEF Pages

\* MmGetPageIndices yields entries of the tables.
LEMMA IndexType ==
  ASSUME NEW page \in Pages, NEW level \in 1 .. 4
  PROVE  Index(page, level) \in Indices
PROOF
  <1>1. page \in Nat /\ page < Fanout * Fanout * Fanout * Fanout
    BY Constants
  <1>2. /\ page % Fanout \in Indices
        /\ (page \div Fanout) % Fanout \in Indices
        /\ (page \div (Fanout * Fanout)) % Fanout \in Indices
        /\ (page \div (Fanout * Fanout * Fanout)) % Fanout \in Indices
    BY <1>1, Constants, FourDigits DEF Indices
  <1>3. level = 1 \/ level = 2 \/ level = 3 \/ level = 4
    OBVIOUS
  <1>4. QED
    BY <1>2, <1>3 DEF Index

\* A page is known by its four indices.
LEMMA IndexInjective ==
  ASSUME NEW p \in Pages, NEW q \in Pages,
         Index(p, 1) = Index(q, 1), Index(p, 2) = Index(q, 2),
         Index(p, 3) = Index(q, 3), Index(p, 4) = Index(q, 4)
  PROVE  p = q
PROOF
  <1> DEFINE F == Fanout
             Number(d4, d3, d2, d1) == F * (F * (F * d4 + d3) + d2) + d1
  <1>1. ASSUME NEW n \in Pages
        PROVE  n = Number(Index(n, 4), Index(n, 3), Index(n, 2), Index(n, 1))
    <2>1. n \in Nat /\ n < F * F * F * F
      BY Constants
    <2>2. n = Number((n \div (F * F * F)) % F, (n \div (F * F)) % F, (n \div F) % F, n % F)
      BY <2>1, Constants, FourDigits
    <2>3. /\ Index(n, 1) = n % F
          /\ Index(n, 2) = (n \div F) % F
          /\ Index(n, 3) = (n \div (F * F)) % F
          /\ Index(n, 4) = (n \div (F * F * F)) % F
      BY DEF Index
    <2> HIDE DEF Number
    <2>4. QED
      BY <2>2, <2>3
  <1> HIDE DEF Number
  <1>2. QED
    BY <1>1

\* The indices of the pages the boot loader maps.
LEMMA IndexSmall ==
  ASSUME NEW page \in Pages, page < Fanout
  PROVE  /\ Index(page, 1) = page
         /\ Index(page, 2) = 0 /\ Index(page, 3) = 0 /\ Index(page, 4) = 0
PROOF
  <1> DEFINE F == Fanout
  <1>1. page \in 0 .. F - 1 /\ F \in Nat \ {0} /\ page \in Nat /\ 0 \in 0 .. F - 1
    BY Constants
  <1>2. page \div F = 0 /\ page % F = page /\ 0 \div F = 0 /\ 0 % F = 0
    BY <1>1, DivSmall
  <1>3. F * F \in Nat \ {0}
    BY <1>1
  <1>4. page \div (F * F) = 0
    BY <1>1, <1>2, DivDiv
  <1>5. page \div ((F * F) * F) = 0
    <2>1. page \div ((F * F) * F) = (page \div (F * F)) \div F
      BY <1>1, <1>3, DivDiv
    <2>2. QED
      BY <2>1, <1>2, <1>4
  <1>6. QED
    BY <1>2, <1>4, <1>5 DEF Index

\* Every entry of the PML4 is on the way to some page.
LEMMA IndexReaches ==
  ASSUME NEW i \in Indices
  PROVE  \E page \in Pages : Index(page, 4) = i
PROOF
  <1>1. PICK page \in Pages : (page \div (Fanout * Fanout * Fanout)) % Fanout = i
    BY Constants, LeadingDigit DEF Indices
  <1>2. Index(page, 4) = i
    BY <1>1 DEF Index
  <1>3. QED
    BY <1>2

(***************************************************************************)
(* The tree of tables in the frames f.                                     *)
(***************************************************************************)
FrameContents == [Frames -> [Indices -> Entry]]

\* The frames that tables in T link.
Children(f, T) == {c \in Frames : \E t \in T, i \in Indices :
                                    f[t][i].present /\ f[t][i].page_ppn = c}
Level3(f) == Children(f, {kPML4})
Level2(f) == Children(f, Level3(f))
Level1(f) == Children(f, Level2(f))
Upper(f) == {kPML4} \cup Level3(f) \cup Level2(f)
Tree(f) == Upper(f) \cup Level1(f)

IsTree(f) ==
  /\ \A t, u \in Upper(f), i, j \in Indices :
       /\ f[t][i].present /\ f[u][j].present
       /\ f[t][i].page_ppn = f[u][j].page_ppn
       => t = u /\ i = j
  /\ kPML4 \notin Level3(f) \cup Level2(f) \cup Level1(f)

\* Tables are frames.
LEMMA TreeInFrames ==
  ASSUME NEW f
  PROVE  kPML4 \in Frames /\ Tree(f) \subseteq Frames
PROOF
  <1>1. kPML4 \in Frames
    BY VmmAssumption DEF kPML4, Frames
  <1>2. QED
    BY <1>1 DEF Tree, Upper, Level3, Level2, Level1, Children

\* A table has one level.
LEMMA LevelsApart ==
  ASSUME NEW f, IsTree(f)
  PROVE  /\ kPML4 \notin Level3(f) /\ kPML4 \notin Level2(f) /\ kPML4 \notin Level1(f)
         /\ Level3(f) \cap Level2(f) = {}
         /\ Level3(f) \cap Level1(f) = {}
         /\ Level2(f) \cap Level1(f) = {}
PROOF
  <1>1. kPML4 \notin Level3(f) /\ kPML4 \notin Level2(f) /\ kPML4 \notin Level1(f)
    BY DEF IsTree
  <1>2. ASSUME NEW c, NEW t \in Upper(f), NEW u \in Upper(f),
               c \in Children(f, {t}), c \in Children(f, {u})
        PROVE  t = u
    BY <1>2 DEF IsTree, Children
  <1>3. ASSUME NEW T, NEW c \in Children(f, T) PROVE \E t \in T : c \in Children(f, {t})
    BY DEF Children
  <1>4. /\ \A c \in Level3(f) : c \in Children(f, {kPML4})
        /\ \A c \in Level2(f) : \E t \in Level3(f) : c \in Children(f, {t})
        /\ \A c \in Level1(f) : \E t \in Level2(f) : c \in Children(f, {t})
    BY <1>3 DEF Level3, Level2, Level1
  <1>5. Level3(f) \cap Level2(f) = {}
    BY <1>1, <1>2, <1>4 DEF Upper
  <1>6. ASSUME NEW c \in Level3(f) \cap Level1(f) PROVE FALSE
    <2>1. PICK u \in Level2(f) : c \in Children(f, {u})
      BY <1>4
    <2>2. kPML4 = u
      BY <1>2, <1>4, <2>1 DEF Upper
    <2>3. QED
      BY <1>1, <2>2
  <1>7. ASSUME NEW c \in Level2(f) \cap Level1(f) PROVE FALSE
    <2>1. PICK t \in Level3(f) : c \in Children(f, {t})
      BY <1>4
    <2>2. PICK u \in Level2(f) : c \in Children(f, {u})
      BY <1>4
    <2>3. t = u
      BY <1>2, <2>1, <2>2 DEF Upper
    <2>4. QED
      BY <1>5, <2>3
  <1>8. QED
    BY <1>1, <1>5, <1>6, <1>7

\* Tables whose entries do not change keep their children.
LEMMA ChildrenKept ==
  ASSUME NEW f, NEW g, NEW T,
         \A t \in T, i \in Indices : /\ g[t][i].present = f[t][i].present
                                     /\ g[t][i].page_ppn = f[t][i].page_ppn
  PROVE  Children(g, T) = Children(f, T)
PROOF
  BY DEF Children

\* A zeroed table has no children.
LEMMA ChildrenOfZeroed ==
  ASSUME NEW g, NEW T, NEW n, \A i \in Indices : g[n][i] = Absent
  PROVE  Children(g, T \cup {n}) = Children(g, T)
PROOF
  BY DEF Children, Absent

\* An entry of a table of the tree is an entry.
LEMMA TreeEntries ==
  ASSUME NEW f \in FrameContents, NEW t \in Tree(f), NEW i \in Indices
  PROVE  f[t][i] \in Entry /\ f[t][i].present \in BOOLEAN /\ f[t][i].page_ppn \in Frames
PROOF
  <1>1. f[t][i] \in Entry
    BY TreeInFrames DEF FrameContents
  <1>2. QED
    BY <1>1 DEF Entry

\* A link of an upper table leads to a table.
LEMMA LinksLeadToTree ==
  ASSUME NEW f \in FrameContents, NEW t \in Upper(f), NEW i \in Indices, f[t][i].present
  PROVE  f[t][i].page_ppn \in Tree(f)
PROOF
  <1>1. f[t][i].page_ppn \in Frames
    BY TreeEntries DEF Tree
  <1>2. CASE t = kPML4
    BY <1>1, <1>2 DEF Tree, Upper, Level3, Children
  <1>3. CASE t \in Level3(f)
    BY <1>1, <1>3 DEF Tree, Upper, Level2, Children
  <1>4. CASE t \in Level2(f)
    BY <1>1, <1>4 DEF Tree, Level1, Children
  <1>5. QED
    BY <1>2, <1>3, <1>4 DEF Upper

(***************************************************************************)
(* A new table n is linked into entry i of the table t.                    *)
(***************************************************************************)
NewTable(f, g, t, i, n, e) ==
  /\ f \in FrameContents /\ IsTree(f)
  /\ t \in Upper(f) /\ i \in Indices /\ ~f[t][i].present
  /\ n \in Frames /\ n \notin Tree(f)
  /\ e \in Entry /\ e.present /\ e.page_ppn = n
  /\ g = [f EXCEPT ![n] = Zeroed, ![t][i] = e]

\* What the frames hold then.
LEMMA NewTableContents ==
  ASSUME NEW f, NEW g, NEW t, NEW i, NEW n, NEW e, NewTable(f, g, t, i, n, e)
  PROVE  /\ g \in FrameContents
         /\ n # t /\ n # kPML4
         /\ g[t][i] = e /\ g[t][i].present /\ g[t][i].page_ppn = n
         /\ \A j \in Indices : g[n][j] = Absent
         /\ \A u \in Tree(f), j \in Indices : (u # t \/ j # i) => g[u][j] = f[u][j]
PROOF
  <1>1. t \in Frames /\ kPML4 \in Frames /\ n # t /\ n # kPML4 /\ Tree(f) \subseteq Frames
    BY TreeInFrames DEF NewTable, Tree, Upper
  <1>2. Absent \in Entry /\ Zeroed \in [Indices -> Entry] /\ \A j \in Indices : Zeroed[j] = Absent
    BY VmmAssumption DEF Absent, Entry, Zeroed, Indices, Frames
  <1>3. /\ f \in [Frames -> [Indices -> Entry]]
        /\ g = [f EXCEPT ![n] = Zeroed, ![t][i] = e]
        /\ i \in Indices /\ n \in Frames /\ e \in Entry /\ n \notin Tree(f)
        /\ e.present /\ e.page_ppn = n
    BY DEF NewTable, FrameContents
  <1> HIDE DEF Zeroed, Entry, Absent
  <1>4. g \in FrameContents
    BY <1>1, <1>2, <1>3 DEF FrameContents
  <1>5. g[t] = [f[t] EXCEPT ![i] = e] /\ g[n] = Zeroed
    BY <1>1, <1>3
  <1>6. \A u \in Tree(f) : u # t => g[u] = f[u]
    BY <1>1, <1>3
  <1>7. f[t] \in [Indices -> Entry]
    BY <1>1, <1>3
  <1>8. QED
    BY <1>1, <1>2, <1>3, <1>4, <1>5, <1>6, <1>7

\* The table joins the level below t's; the other levels stay.
LEMMA NewTableLevels ==
  ASSUME NEW f, NEW g, NEW t, NEW i, NEW n, NEW e, NewTable(f, g, t, i, n, e)
  PROVE  /\ t = kPML4 =>
              Level3(g) = Level3(f) \cup {n} /\ Level2(g) = Level2(f) /\ Level1(g) = Level1(f)
         /\ t \in Level3(f) =>
              Level3(g) = Level3(f) /\ Level2(g) = Level2(f) \cup {n} /\ Level1(g) = Level1(f)
         /\ t \in Level2(f) =>
              Level3(g) = Level3(f) /\ Level2(g) = Level2(f) /\ Level1(g) = Level1(f) \cup {n}
PROOF
  <1>1. g[t][i].present /\ g[t][i].page_ppn = n
    BY NewTableContents
  <1>2. \A u \in Tree(f), j \in Indices : (u # t \/ j # i) => g[u][j] = f[u][j]
    BY NewTableContents
  <1>3. ASSUME NEW T, T \subseteq Tree(f), t \notin T PROVE Children(g, T) = Children(f, T)
    <2>1. \A u \in T, j \in Indices : g[u][j] = f[u][j]
      BY <1>2, <1>3
    <2>2. QED
      BY <2>1, ChildrenKept
  <1>4. ASSUME NEW T, T \subseteq Tree(f), t \in T PROVE Children(g, T) = Children(f, T) \cup {n}
    <2>1. \A u \in T, j \in Indices : (u # t \/ j # i) => g[u][j] = f[u][j]
      BY <1>2, <1>4
    <2>2. ~f[t][i].present /\ i \in Indices /\ n \in Frames
      BY DEF NewTable
    <2>3. Children(g, T) \subseteq Children(f, T) \cup {n}
      BY <1>1, <2>1 DEF Children
    <2>4. Children(f, T) \subseteq Children(g, T)
      BY <2>1, <2>2 DEF Children
    <2>5. n \in Children(g, T)
      BY <1>1, <1>4, <2>2 DEF Children
    <2>6. QED
      BY <2>3, <2>4, <2>5
  <1>5. ASSUME NEW T PROVE Children(g, T \cup {n}) = Children(g, T)
    BY NewTableContents, ChildrenOfZeroed
  <1>6. /\ {kPML4} \subseteq Tree(f) /\ Level3(f) \subseteq Tree(f)
        /\ Level2(f) \subseteq Tree(f)
    BY DEF Tree, Upper
  <1>7. /\ kPML4 \notin Level3(f) /\ kPML4 \notin Level2(f) /\ Level3(f) \cap Level2(f) = {}
    BY LevelsApart DEF NewTable
  <1>8. CASE t = kPML4
    <2>1. t \in {kPML4} /\ t \notin Level3(f) /\ t \notin Level2(f)
      BY <1>7, <1>8
    <2>2. Level3(g) = Level3(f) \cup {n}
      BY <1>4, <1>6, <2>1 DEF Level3
    <2>3. Level2(g) = Level2(f)
      BY <1>3, <1>5, <1>6, <2>1, <2>2 DEF Level2
    <2>4. Level1(g) = Level1(f)
      BY <1>3, <1>6, <2>1, <2>3 DEF Level1
    <2>5. QED
      BY <1>8, <2>1, <2>2, <2>3, <2>4
  <1>9. CASE t \in Level3(f)
    <2>1. t \notin {kPML4} /\ t \notin Level2(f)
      BY <1>7, <1>9
    <2>2. Level3(g) = Level3(f)
      BY <1>3, <1>6, <2>1 DEF Level3
    <2>3. Level2(g) = Level2(f) \cup {n}
      BY <1>4, <1>6, <1>9, <2>2 DEF Level2
    <2>4. Level1(g) = Level1(f)
      BY <1>3, <1>5, <1>6, <2>1, <2>3 DEF Level1
    <2>5. QED
      BY <1>9, <2>1, <2>2, <2>3, <2>4
  <1>10. CASE t \in Level2(f)
    <2>1. t \notin {kPML4} /\ t \notin Level3(f)
      BY <1>7, <1>10
    <2>2. Level3(g) = Level3(f)
      BY <1>3, <1>6, <2>1 DEF Level3
    <2>3. Level2(g) = Level2(f)
      BY <1>3, <1>6, <2>1, <2>2 DEF Level2
    <2>4. Level1(g) = Level1(f) \cup {n}
      BY <1>4, <1>6, <1>10, <2>3 DEF Level1
    <2>5. QED
      BY <1>10, <2>1, <2>2, <2>3, <2>4
  <1>11. QED
    BY <1>8, <1>9, <1>10

\* The tables are still a tree, with one more table.
LEMMA NewTableTree ==
  ASSUME NEW f, NEW g, NEW t, NEW i, NEW n, NEW e, NewTable(f, g, t, i, n, e)
  PROVE  IsTree(g) /\ Tree(g) = Tree(f) \cup {n} /\ Upper(g) \subseteq Upper(f) \cup {n}
PROOF
  <1>1. t = kPML4 \/ t \in Level3(f) \/ t \in Level2(f)
    BY DEF NewTable, Upper
  <1>2. Tree(g) = Tree(f) \cup {n} /\ Upper(g) \subseteq Upper(f) \cup {n}
    BY <1>1, NewTableLevels DEF Tree, Upper
  <1>3. kPML4 \notin Level3(g) \cup Level2(g) \cup Level1(g)
    <2>1. n # kPML4
      BY NewTableContents
    <2>2. kPML4 \notin Level3(f) \cup Level2(f) \cup Level1(f)
      BY DEF NewTable, IsTree
    <2>3. QED
      BY <1>1, <2>1, <2>2, NewTableLevels
  <1>4. ASSUME NEW u \in Upper(g), NEW v \in Upper(g), NEW j \in Indices, NEW k \in Indices,
               g[u][j].present, g[v][k].present, g[u][j].page_ppn = g[v][k].page_ppn
        PROVE  u = v /\ j = k
    <2>1. u # n /\ v # n
      BY <1>4, NewTableContents DEF Absent
    <2>2. u \in Upper(f) /\ v \in Upper(f) /\ u \in Tree(f) /\ v \in Tree(f)
      BY <1>2, <2>1 DEF Tree
    <2>3. ASSUME NEW w \in Upper(f), NEW l \in Indices, g[w][l].present,
                 ~ (w = t /\ l = i)
          PROVE  f[w][l].present /\ g[w][l].page_ppn = f[w][l].page_ppn /\ g[w][l].page_ppn # n
      <3>1. g[w][l] = f[w][l]
        BY <2>3, NewTableContents DEF Tree
      <3>2. f[w][l].page_ppn \in Tree(f)
        BY <2>3, <3>1, LinksLeadToTree DEF NewTable
      <3>3. QED
        BY <2>3, <3>1, <3>2 DEF NewTable
    <2>4. g[t][i].page_ppn = n
      BY NewTableContents
    <2>5. CASE u = t /\ j = i
      BY <1>4, <2>2, <2>3, <2>4, <2>5
    <2>6. CASE v = t /\ k = i
      BY <1>4, <2>2, <2>3, <2>4, <2>6
    <2>7. CASE ~ (u = t /\ j = i) /\ ~ (v = t /\ k = i)
      <3>1. f[u][j].present /\ f[v][k].present /\ f[u][j].page_ppn = f[v][k].page_ppn
        BY <1>4, <2>2, <2>3, <2>7
      <3>2. QED
        BY <2>2, <3>1 DEF NewTable, IsTree
    <2>8. QED
      BY <2>5, <2>6, <2>7
  <1>5. QED
    BY <1>2, <1>3, <1>4 DEF IsTree

(***************************************************************************)
(* Walks: the tables and the entries on the way to a page.                 *)
(***************************************************************************)
Step4(f, page) == f[kPML4][Index(page, 4)]
Step3(f, page) == f[Step4(f, page).page_ppn][Index(page, 3)]
Step2(f, page) == f[Step3(f, page).page_ppn][Index(page, 2)]
Step1(f, page) == f[Step2(f, page).page_ppn][Index(page, 1)]

\* The processor gets as far as the page's page table.
Reaches(f, page) ==
  Step4(f, page).present /\ Step3(f, page).present /\ Step2(f, page).present

Walk(f, page) ==
  IF Reaches(f, page) /\ Step1(f, page).present THEN Step1(f, page).page_ppn ELSE NoFrame

\* The table of a level on the way to a page, and whether it is there.
TableAt(f, page, level) ==
  CASE level = 4 -> kPML4
    [] level = 3 -> Step4(f, page).page_ppn
    [] level = 2 -> Step3(f, page).page_ppn
    [] level = 1 -> Step2(f, page).page_ppn

IsThere(f, page, level) ==
  /\ level < 4 => Step4(f, page).present
  /\ level < 3 => Step3(f, page).present
  /\ level < 2 => Step2(f, page).present

\* A walk goes from level to level.
LEMMA WalkTables ==
  ASSUME NEW f \in FrameContents, NEW page \in Pages
  PROVE  /\ Step4(f, page).present => Step4(f, page).page_ppn \in Level3(f)
         /\ Step4(f, page).present /\ Step3(f, page).present =>
              Step3(f, page).page_ppn \in Level2(f)
         /\ Reaches(f, page) => Step2(f, page).page_ppn \in Level1(f)
PROOF
  <1>1. /\ Index(page, 4) \in Indices /\ Index(page, 3) \in Indices
        /\ Index(page, 2) \in Indices
    BY IndexType
  <1>2. \A t \in Tree(f), i \in Indices : f[t][i].page_ppn \in Frames
    BY TreeEntries
  <1>3. Step4(f, page).present => Step4(f, page).page_ppn \in Level3(f)
    <2>1. Step4(f, page).page_ppn \in Frames
      BY <1>1, <1>2 DEF Step4, Tree, Upper
    <2>2. QED
      BY <1>1, <2>1 DEF Step4, Level3, Children
  <1>4. Step4(f, page).present /\ Step3(f, page).present =>
          Step3(f, page).page_ppn \in Level2(f)
    <2>1. SUFFICES ASSUME Step4(f, page).present, Step3(f, page).present
                   PROVE  Step3(f, page).page_ppn \in Level2(f)
      OBVIOUS
    <2>2. Step3(f, page).page_ppn \in Frames
      BY <1>1, <1>2, <1>3, <2>1 DEF Step3, Tree, Upper
    <2>3. QED
      BY <1>1, <1>3, <2>1, <2>2 DEF Step3, Level2, Children
  <1>5. Reaches(f, page) => Step2(f, page).page_ppn \in Level1(f)
    <2>1. SUFFICES ASSUME Step4(f, page).present, Step3(f, page).present,
                          Step2(f, page).present
                   PROVE  Step2(f, page).page_ppn \in Level1(f)
      BY DEF Reaches
    <2>2. Step2(f, page).page_ppn \in Frames
      BY <1>1, <1>2, <1>4, <2>1 DEF Step2, Tree, Upper
    <2>3. QED
      BY <1>1, <1>4, <2>1, <2>2 DEF Step2, Level1, Children
  <1>6. QED
    BY <1>3, <1>4, <1>5

\* Two pages with the same entry in the same page table are one page.
LEMMA WalkInjective ==
  ASSUME NEW f \in FrameContents, IsTree(f), NEW p \in Pages, NEW q \in Pages,
         Reaches(f, p), Reaches(f, q),
         Step2(f, p).page_ppn = Step2(f, q).page_ppn, Index(p, 1) = Index(q, 1)
  PROVE  p = q
PROOF
  <1>1. \A l \in 1 .. 4 : Index(p, l) \in Indices /\ Index(q, l) \in Indices
    BY IndexType
  <1>2. /\ Step4(f, p).page_ppn \in Upper(f) /\ Step3(f, p).page_ppn \in Upper(f)
        /\ Step4(f, q).page_ppn \in Upper(f) /\ Step3(f, q).page_ppn \in Upper(f)
        /\ kPML4 \in Upper(f)
    BY WalkTables DEF Upper, Reaches
  <1>3. \A t, u \in Upper(f), i, j \in Indices :
          f[t][i].present /\ f[u][j].present /\ f[t][i].page_ppn = f[u][j].page_ppn
          => t = u /\ i = j
    BY DEF IsTree
  <1>4. Step3(f, p).page_ppn = Step3(f, q).page_ppn /\ Index(p, 2) = Index(q, 2)
    BY <1>1, <1>2, <1>3 DEF Step2, Reaches
  <1>5. Step4(f, p).page_ppn = Step4(f, q).page_ppn /\ Index(p, 3) = Index(q, 3)
    BY <1>1, <1>2, <1>3, <1>4 DEF Step3, Reaches
  <1>6. Index(p, 4) = Index(q, 4)
    BY <1>1, <1>2, <1>3, <1>5 DEF Step4, Reaches
  <1>7. QED
    BY <1>4, <1>5, <1>6, IndexInjective

\* A new table changes no walk: it is reached by none that got through before,
\* and those that reach it end in it.
LEMMA NewTableWalks ==
  ASSUME NEW f, NEW g, NEW t, NEW i, NEW n, NEW e, NewTable(f, g, t, i, n, e),
         NEW page \in Pages
  PROVE  /\ Reaches(f, page) => Reaches(g, page) /\ Step1(g, page) = Step1(f, page)
                                /\ Step2(g, page) = Step2(f, page)
         /\ ~Reaches(f, page) /\ Reaches(g, page) => Step1(g, page) = Absent
         /\ Walk(g, page) = Walk(f, page)
PROOF
  <1>1. \A l \in 1 .. 4 : Index(page, l) \in Indices
    BY IndexType
  <1>2. /\ f \in FrameContents /\ ~f[t][i].present
        /\ g[t][i].present /\ g[t][i].page_ppn = n
        /\ \A j \in Indices : g[n][j] = Absent
        /\ \A u \in Tree(f), j \in Indices : (u # t \/ j # i) => g[u][j] = f[u][j]
    <2>1. f \in FrameContents /\ ~f[t][i].present
      BY DEF NewTable
    <2>2. QED
      BY <2>1, NewTableContents
  <1>3. ASSUME NEW u \in Tree(f), NEW j \in Indices
        PROVE  /\ f[u][j].present => g[u][j] = f[u][j]
               /\ g[u][j].present => g[u][j] = f[u][j] \/ g[u][j].page_ppn = n
    BY <1>2
  <1>4. kPML4 \in Tree(f)
    BY DEF Tree, Upper
  <1>5. Reaches(f, page) => Reaches(g, page) /\ Step1(g, page) = Step1(f, page)
                            /\ Step2(g, page) = Step2(f, page)
    <2>1. SUFFICES ASSUME Reaches(f, page)
                   PROVE  Reaches(g, page) /\ Step1(g, page) = Step1(f, page)
                          /\ Step2(g, page) = Step2(f, page)
      OBVIOUS
    <2>2. /\ Step4(f, page).page_ppn \in Tree(f) /\ Step3(f, page).page_ppn \in Tree(f)
          /\ Step2(f, page).page_ppn \in Level1(f) /\ Step2(f, page).page_ppn \in Tree(f)
      BY <1>2, <2>1, WalkTables DEF Reaches, Tree, Upper
    <2>3. Step4(g, page) = Step4(f, page)
      BY <1>1, <1>3, <1>4, <2>1 DEF Reaches, Step4
    <2>4. Step3(g, page) = Step3(f, page)
      BY <1>1, <1>3, <2>1, <2>2, <2>3 DEF Reaches, Step3
    <2>5. Step2(g, page) = Step2(f, page)
      BY <1>1, <1>3, <2>1, <2>2, <2>4 DEF Reaches, Step2
    <2>6. t \notin Level1(f)
      <3>1. IsTree(f) /\ t \in Upper(f)
        BY DEF NewTable
      <3>2. QED
        BY <3>1, LevelsApart DEF Upper
    <2>7. Step1(g, page) = Step1(f, page)
      BY <1>1, <1>2, <2>2, <2>5, <2>6 DEF Step1
    <2>8. QED
      BY <2>1, <2>3, <2>4, <2>5, <2>7 DEF Reaches
  <1>6. ~Reaches(f, page) /\ Reaches(g, page) => Step1(g, page) = Absent
    <2>1. SUFFICES ASSUME ~Reaches(f, page), Reaches(g, page)
                   PROVE  Step1(g, page) = Absent
      OBVIOUS
    <2>2. Step4(g, page) = Step4(f, page)
      <3>1. Step4(g, page) = Step4(f, page) \/ Step4(g, page).page_ppn = n
        BY <1>1, <1>3, <1>4, <2>1 DEF Reaches, Step4
      <3>2. Step4(g, page).page_ppn # n
        BY <1>1, <1>2, <2>1 DEF Reaches, Step3, Absent
      <3>3. QED
        BY <3>1, <3>2
    <2>3. Step4(f, page).page_ppn \in Tree(f)
      BY <1>2, <2>1, <2>2, WalkTables DEF Reaches, Tree, Upper
    <2>4. Step3(g, page) = Step3(f, page)
      <3>1. Step3(g, page) = Step3(f, page) \/ Step3(g, page).page_ppn = n
        BY <1>1, <1>3, <2>1, <2>2, <2>3 DEF Reaches, Step3
      <3>2. Step3(g, page).page_ppn # n
        BY <1>1, <1>2, <2>1 DEF Reaches, Step2, Absent
      <3>3. QED
        BY <3>1, <3>2
    <2>5. Step3(f, page).page_ppn \in Tree(f)
      BY <1>2, <2>1, <2>2, <2>4, WalkTables DEF Reaches, Tree, Upper
    <2>6. Step2(g, page).page_ppn = n
      <3>1. Step2(g, page) = Step2(f, page) \/ Step2(g, page).page_ppn = n
        BY <1>1, <1>3, <2>1, <2>4, <2>5 DEF Reaches, Step2
      <3>2. Step2(g, page) # Step2(f, page)
        BY <2>1, <2>2, <2>4 DEF Reaches
      <3>3. QED
        BY <3>1, <3>2
    <2>7. QED
      BY <1>1, <1>2, <2>6 DEF Step1
  <1>7. QED
    BY <1>5, <1>6 DEF Walk, Absent

(***************************************************************************)
(* Entry i of the page table t is written.                                 *)
(***************************************************************************)
NewEntry(f, g, t, i, e) ==
  /\ f \in FrameContents /\ IsTree(f)
  /\ t \in Level1(f) /\ i \in Indices /\ e \in Entry
  /\ g = [f EXCEPT ![t][i] = e]

\* What the frames hold then.
LEMMA NewEntryContents ==
  ASSUME NEW f, NEW g, NEW t, NEW i, NEW e, NewEntry(f, g, t, i, e)
  PROVE  /\ g \in FrameContents
         /\ g[t][i] = e
         /\ \A u \in Tree(f), j \in Indices : (u # t \/ j # i) => g[u][j] = f[u][j]
         /\ \A u \in Upper(f), j \in Indices : g[u][j] = f[u][j]
PROOF
  <1>1. t \in Frames /\ Tree(f) \subseteq Frames
    BY TreeInFrames DEF NewEntry, Tree
  <1>2. /\ f \in [Frames -> [Indices -> Entry]]
        /\ g = [f EXCEPT ![t][i] = e]
        /\ i \in Indices /\ e \in Entry
    BY DEF NewEntry, FrameContents
  <1> HIDE DEF Entry
  <1>3. g \in FrameContents
    BY <1>1, <1>2 DEF FrameContents
  <1>4. g[t] = [f[t] EXCEPT ![i] = e] /\ f[t] \in [Indices -> Entry]
    BY <1>1, <1>2
  <1>5. \A u \in Tree(f) : u # t => g[u] = f[u]
    BY <1>1, <1>2
  <1>6. t \notin Upper(f)
    <2>1. IsTree(f) /\ t \in Level1(f)
      BY DEF NewEntry
    <2>2. QED
      BY <2>1, LevelsApart DEF Upper
  <1>7. QED
    BY <1>2, <1>3, <1>4, <1>5, <1>6 DEF Tree

\* The tree stays.
LEMMA NewEntryTree ==
  ASSUME NEW f, NEW g, NEW t, NEW i, NEW e, NewEntry(f, g, t, i, e)
  PROVE  IsTree(g) /\ Tree(g) = Tree(f) /\ Upper(g) = Upper(f)
         /\ Level3(g) = Level3(f) /\ Level2(g) = Level2(f) /\ Level1(g) = Level1(f)
PROOF
  <1>1. \A u \in Upper(f), j \in Indices : g[u][j] = f[u][j]
    BY NewEntryContents
  <1>2. ASSUME NEW T, T \subseteq Upper(f) PROVE Children(g, T) = Children(f, T)
    <2>1. \A u \in T, j \in Indices : g[u][j] = f[u][j]
      BY <1>1, <1>2
    <2>2. QED
      BY <2>1, ChildrenKept
  <1>3. Level3(g) = Level3(f)
    BY <1>2 DEF Level3, Upper
  <1>4. Level2(g) = Level2(f)
    BY <1>2, <1>3 DEF Level2, Upper
  <1>5. Level1(g) = Level1(f)
    BY <1>2, <1>4 DEF Level1, Upper
  <1>6. Tree(g) = Tree(f) /\ Upper(g) = Upper(f)
    BY <1>3, <1>4, <1>5 DEF Tree, Upper
  <1>7. IsTree(f)
    BY DEF NewEntry
  <1>8. IsTree(g)
    BY <1>1, <1>3, <1>4, <1>5, <1>6, <1>7 DEF IsTree
  <1>9. QED
    BY <1>3, <1>4, <1>5, <1>6, <1>8

OnlyEntryOf(p, e, f, g) ==
  /\ \A q \in Pages : Reaches(g, q) = Reaches(f, q)
  /\ \A q \in Pages \ {p} : Reaches(f, q) => Step1(g, q) = Step1(f, q)
  /\ Step1(g, p) = e

\* Only the page the entry belongs to is translated anew.
LEMMA NewEntryWalks ==
  ASSUME NEW f, NEW g, NEW p \in Pages, NEW e, Reaches(f, p),
         NewEntry(f, g, Step2(f, p).page_ppn, Index(p, 1), e)
  PROVE  OnlyEntryOf(p, e, f, g)
PROOF
  <1> DEFINE t == Step2(f, p).page_ppn
             i == Index(p, 1)
  <1>1. /\ \A u \in Upper(f), j \in Indices : g[u][j] = f[u][j]
        /\ \A u \in Tree(f), j \in Indices : (u # t \/ j # i) => g[u][j] = f[u][j]
        /\ g[t][i] = e
    BY NewEntryContents
  <1>2. f \in FrameContents /\ IsTree(f)
    BY DEF NewEntry
  <1>3. ASSUME NEW q \in Pages
        PROVE  /\ Reaches(g, q) = Reaches(f, q)
               /\ Reaches(f, q) => Step2(g, q) = Step2(f, q)
    <2>1. \A l \in 1 .. 4 : Index(q, l) \in Indices
      BY IndexType
    <2>2. Step4(g, q) = Step4(f, q)
      BY <1>1, <2>1 DEF Step4, Upper
    <2>3. Step4(f, q).present => Step3(g, q) = Step3(f, q)
      BY <1>1, <1>2, <2>1, <2>2, WalkTables DEF Step3, Upper
    <2>4. Step4(f, q).present /\ Step3(f, q).present => Step2(g, q) = Step2(f, q)
      BY <1>1, <1>2, <2>1, <2>3, WalkTables DEF Step2, Upper
    <2>5. QED
      BY <2>2, <2>3, <2>4 DEF Reaches
  <1>4. ASSUME NEW q \in Pages, q # p, Reaches(f, q)
        PROVE  Step1(g, q) = Step1(f, q)
    <2>1. Index(q, 1) \in Indices /\ Step2(f, q).page_ppn \in Tree(f)
      BY <1>2, <1>4, IndexType, WalkTables DEF Tree
    <2>2. Step2(f, q).page_ppn # t \/ Index(q, 1) # i
      BY <1>2, <1>4, WalkInjective
    <2>3. QED
      BY <1>1, <1>3, <1>4, <2>1, <2>2 DEF Step1
  <1>5. Step1(g, p) = e
    BY <1>1, <1>3 DEF Step1
  <1>6. QED
    BY <1>3, <1>4, <1>5 DEF OnlyEntryOf

(***************************************************************************)
(* The definitions of Vmm, in these terms.                                 *)
(***************************************************************************)
Private(f, others) == IsTree(f) /\ Tree(f) \cap others = {}

\* The tables of each level.
LEMMA TablesAreLevels ==
  frames \in FrameContents =>
    Tables3 = Level3(frames) /\ Tables2 = Level2(frames) /\ Tables1 = Level1(frames)
PROOF
  <1>1. SUFFICES ASSUME frames \in FrameContents
                 PROVE  /\ Tables3 = Level3(frames) /\ Tables2 = Level2(frames)
                        /\ Tables1 = Level1(frames)
    OBVIOUS
  <1>2. \A t \in Tree(frames), i \in Indices : frames[t][i].page_ppn \in Frames
    BY <1>1, TreeEntries
  <1>3. kPML4 \in Tree(frames) /\ Level3(frames) \subseteq Tree(frames)
        /\ Level2(frames) \subseteq Tree(frames)
    BY DEF Tree, Upper
  <1>4. Tables3 = Level3(frames)
    <2>1. \A page \in Pages : Index(page, 4) \in Indices
      BY IndexType
    <2>2. Tables3 \subseteq Level3(frames)
      BY <1>2, <1>3, <2>1 DEF Tables3, EntryOf, Level3, Children
    <2>3. ASSUME NEW i \in Indices, frames[kPML4][i].present
          PROVE  frames[kPML4][i].page_ppn \in Tables3
      <3>1. PICK page \in Pages : Index(page, 4) = i
        BY IndexReaches
      <3>2. QED
        BY <2>3, <3>1 DEF Tables3, EntryOf
    <2>4. QED
      BY <2>2, <2>3 DEF Level3, Children
  <1>5. Tables2 = Level2(frames)
    <2>1. \A l : l \in Links3 <=> \E t \in Level3(frames), i \in Indices :
                                      l = <<t, i>> /\ frames[t][i].present
      BY <1>4 DEF Links3, Indices
    <2>2. \A c : c \in Tables2 <=> \E l \in Links3 : c = frames[l[1]][l[2]].page_ppn
      BY DEF Tables2
    <2>3. \A c : c \in Tables2 <=> \E t \in Level3(frames), i \in Indices :
                                     frames[t][i].present /\ c = frames[t][i].page_ppn
      <3>1. ASSUME NEW c \in Tables2
            PROVE  \E t \in Level3(frames), i \in Indices :
                     frames[t][i].present /\ c = frames[t][i].page_ppn
        <4>1. PICK l \in Links3 : c = frames[l[1]][l[2]].page_ppn
          BY <2>2
        <4>2. PICK t \in Level3(frames), i \in Indices : l = <<t, i>> /\ frames[t][i].present
          BY <2>1
        <4>3. QED
          BY <4>1, <4>2
      <3>2. ASSUME NEW t \in Level3(frames), NEW i \in Indices, frames[t][i].present
            PROVE  frames[t][i].page_ppn \in Tables2
        <4>1. <<t, i>> \in Links3
          BY <2>1, <3>2
        <4>2. QED
          BY <2>2, <4>1
      <3>3. QED
        BY <3>1, <3>2
    <2>4. QED
      BY <1>2, <1>3, <2>3 DEF Level2, Children
  <1>6. Tables1 = Level1(frames)
    <2>1. \A l : l \in Links2 <=> \E t \in Level2(frames), i \in Indices :
                                      l = <<t, i>> /\ frames[t][i].present
      BY <1>5 DEF Links2, Indices
    <2>2. \A c : c \in Tables1 <=> \E l \in Links2 : c = frames[l[1]][l[2]].page_ppn
      BY DEF Tables1
    <2>3. \A c : c \in Tables1 <=> \E t \in Level2(frames), i \in Indices :
                                     frames[t][i].present /\ c = frames[t][i].page_ppn
      <3>1. ASSUME NEW c \in Tables1
            PROVE  \E t \in Level2(frames), i \in Indices :
                     frames[t][i].present /\ c = frames[t][i].page_ppn
        <4>1. PICK l \in Links2 : c = frames[l[1]][l[2]].page_ppn
          BY <2>2
        <4>2. PICK t \in Level2(frames), i \in Indices : l = <<t, i>> /\ frames[t][i].present
          BY <2>1
        <4>3. QED
          BY <4>1, <4>2
      <3>2. ASSUME NEW t \in Level2(frames), NEW i \in Indices, frames[t][i].present
            PROVE  frames[t][i].page_ppn \in Tables1
        <4>1. <<t, i>> \in Links2
          BY <2>1, <3>2
        <4>2. QED
          BY <2>2, <4>1
      <3>3. QED
        BY <3>1, <3>2
    <2>4. QED
      BY <1>2, <1>3, <2>3 DEF Level1, Children
  <1>7. QED
    BY <1>4, <1>5, <1>6

\* TablesPrivate.
LEMMA PrivateTree ==
  frames \in FrameContents =>
    (TablesPrivate <=> Private(frames, owned \cup Mmio \cup (next .. RamTop)))
PROOF
  <1>1. SUFFICES ASSUME frames \in FrameContents
                 PROVE  TablesPrivate <=> Private(frames, owned \cup Mmio \cup (next .. RamTop))
    OBVIOUS
  <1>2. /\ Tables3 = Level3(frames) /\ Tables2 = Level2(frames)
        /\ Tables1 = Level1(frames) /\ Tables = Tree(frames)
    BY <1>1, TablesAreLevels DEF Tables, Tree, Upper
  <1> DEFINE links == Links4 \cup Links3 \cup Links2
  <1>3. \A l : l \in links <=> \E t \in Upper(frames), i \in Indices :
                                   l = <<t, i>> /\ frames[t][i].present
    BY <1>2 DEF Links4, Links3, Links2, Upper, Indices
  <1> HIDE DEF links
  <1>4. (\A k, l \in links :
           frames[k[1]][k[2]].page_ppn = frames[l[1]][l[2]].page_ppn => k = l)
        <=> \A t, u \in Upper(frames), i, j \in Indices :
              frames[t][i].present /\ frames[u][j].present
              /\ frames[t][i].page_ppn = frames[u][j].page_ppn => t = u /\ i = j
    <2>1. ASSUME \A k, l \in links :
                   frames[k[1]][k[2]].page_ppn = frames[l[1]][l[2]].page_ppn => k = l,
                 NEW t \in Upper(frames), NEW u \in Upper(frames),
                 NEW i \in Indices, NEW j \in Indices,
                 frames[t][i].present, frames[u][j].present,
                 frames[t][i].page_ppn = frames[u][j].page_ppn
          PROVE  t = u /\ i = j
      <3>1. <<t, i>> \in links /\ <<u, j>> \in links
        BY <1>3, <2>1
      <3>2. <<t, i>> = <<u, j>>
        BY <2>1, <3>1
      <3>3. QED
        BY <3>2
    <2>2. ASSUME \A t, u \in Upper(frames), i, j \in Indices :
                   frames[t][i].present /\ frames[u][j].present
                   /\ frames[t][i].page_ppn = frames[u][j].page_ppn => t = u /\ i = j,
                 NEW k \in links, NEW l \in links,
                 frames[k[1]][k[2]].page_ppn = frames[l[1]][l[2]].page_ppn
          PROVE  k = l
      <3>1. PICK t \in Upper(frames), i \in Indices : k = <<t, i>> /\ frames[t][i].present
        BY <1>3
      <3>2. PICK u \in Upper(frames), j \in Indices : l = <<u, j>> /\ frames[u][j].present
        BY <1>3
      <3>3. frames[t][i].page_ppn = frames[u][j].page_ppn
        BY <2>2, <3>1, <3>2
      <3>4. QED
        BY <2>2, <3>1, <3>2, <3>3
    <2>3. QED
      BY <2>1, <2>2
  <1>5. QED
    BY <1>2, <1>4 DEF TablesPrivate, Private, IsTree, links

\* The processor's walk and the functions that read an entry.
LEMMA WalksAreSteps ==
  /\ \A page \in Pages :
       /\ Translate(page) = Walk(frames, page)
       /\ Pte(page) = Step1(frames, page)
       /\ Pt(page) = Step2(frames, page).page_ppn
       /\ Linked(page, 1) <=> Reaches(frames, page)
  /\ \A page \in Pages, level \in 1 .. 4 :
       /\ Linked(page, level) <=> IsThere(frames, page, level)
       /\ TableOf(page, level) = TableAt(frames, page, level)
PROOF
  <1>1. ASSUME NEW page \in Pages
        PROVE  /\ EntryOf(kPML4, page, 4) = Step4(frames, page)
               /\ EntryOf(Pdp(page), page, 3) = Step3(frames, page)
               /\ EntryOf(Pd(page), page, 2) = Step2(frames, page)
               /\ Pte(page) = Step1(frames, page)
    BY DEF EntryOf, Pdp, Pd, Pt, Pte, Step4, Step3, Step2, Step1
  <1>2. ASSUME NEW page \in Pages
        PROVE  /\ Pdp(page) = Step4(frames, page).page_ppn
               /\ Pd(page) = Step3(frames, page).page_ppn
               /\ Pt(page) = Step2(frames, page).page_ppn
    BY DEF EntryOf, Pdp, Pd, Pt, Step4, Step3, Step2
  <1>3. ASSUME NEW page \in Pages
        PROVE  /\ Linked(page, 1) <=> Reaches(frames, page)
               /\ Translate(page) = Walk(frames, page)
    BY <1>1 DEF Linked, Reaches, Translate, Walk
  <1>4. ASSUME NEW page \in Pages, NEW level \in 1 .. 4
        PROVE  /\ Linked(page, level) <=> IsThere(frames, page, level)
               /\ TableOf(page, level) = TableAt(frames, page, level)
    <2>1. Linked(page, level) <=> IsThere(frames, page, level)
      BY <1>1 DEF Linked, IsThere
    <2>2. level = 1 \/ level = 2 \/ level = 3 \/ level = 4
      OBVIOUS
    <2>3. QED
      BY <1>2, <2>1, <2>2 DEF TableOf, TableAt
  <1>5. QED
    BY <1>1, <1>2, <1>3, <1>4

\* What callers asked for and the permissions they gave, in the frames f.
AsAsked(f, ask, grant) ==
  \A page \in Pages :
    /\ Walk(f, page) = ask[page]
    /\ grant[page] = IF Reaches(f, page) THEN Step1(f, page).perm ELSE {}

CallAt(f, nxt, ask) ==
  call = Idle \/
    /\ call.level \in 1 .. 4 /\ call.page \in Pages /\ call.frame \in Frames
    /\ IsThere(f, call.page, call.level)
    /\ call.table = TableAt(f, call.page, call.level)
    /\ nxt + (call.level - 1) <= RamTop
    /\ ask[call.page] \in {NoFrame, call.frame}
    /\ call.page \notin nxt .. RamTop - 1
    /\ call.page \in HeapPages \/ call.frame = call.page

TreeInv ==
  /\ TypeOK /\ TlbCurrent /\ FramesInOrder
  /\ Private(frames, owned \cup Mmio \cup (next .. RamTop))
  /\ AsAsked(frames, asked, granted)
  /\ CallAt(frames, next, asked)

\* An entry that is walked to is a frame, not NoFrame.
LEMMA WalkType ==
  ASSUME NEW f \in FrameContents, NEW page \in Pages, Reaches(f, page)
  PROVE  Step1(f, page) \in Entry /\ Step1(f, page).page_ppn \in Frames
         /\ Step1(f, page).page_ppn # NoFrame
PROOF
  <1>1. Step2(f, page).page_ppn \in Tree(f) /\ Index(page, 1) \in Indices
    BY WalkTables, IndexType DEF Tree
  <1>2. Step1(f, page) \in Entry /\ Step1(f, page).page_ppn \in Frames
    BY <1>1, TreeEntries DEF Step1
  <1>3. \A x \in Frames : x # NoFrame
    BY DEF Frames, NoFrame
  <1>4. QED
    BY <1>2, <1>3

\* TypeOK is about these frames.
LEMMA TypedFrames == TypeOK => frames \in FrameContents
PROOF
  BY DEF TypeOK, FrameContents, Indices

\* TreeInv is IInv in other words.
LEMMA IInvIsTreeInv == IInv <=> TreeInv
PROOF
  <1>1. SUFFICES ASSUME TypeOK PROVE IInv <=> TreeInv
    BY DEF IInv, TreeInv
  <1>2. frames \in FrameContents
    BY <1>1, TypedFrames
  <1>3. TablesPrivate <=> Private(frames, owned \cup Mmio \cup (next .. RamTop))
    BY <1>2, PrivateTree
  <1>4. TranslationCorrect /\ PermissionsKept <=> AsAsked(frames, asked, granted)
    <2>1. ASSUME NEW page \in Pages
          PROVE  /\ Translate(page) = Walk(frames, page)
                 /\ MmGetPhysicalAddress(page) = Step1(frames, page).page_ppn
                 /\ MmGetPagePermissions(page) = Step1(frames, page).perm
                 /\ Linked(page, 1) <=> Reaches(frames, page)
      BY WalksAreSteps DEF MmGetPhysicalAddress, MmGetPagePermissions
    <2>2. ASSUME NEW page \in Pages, Walk(frames, page) # NoFrame
          PROVE  Reaches(frames, page) /\ Step1(frames, page).page_ppn = Walk(frames, page)
      BY <2>2 DEF Walk
    <2>3. QED
      BY <2>1, <2>2 DEF TranslationCorrect, PermissionsKept, AsAsked
  <1>5. CallSound <=> CallAt(frames, next, asked)
    BY WalksAreSteps DEF CallSound, CallAt
  <1>6. QED
    BY <1>1, <1>3, <1>4, <1>5 DEF IInv, TreeInv

(***************************************************************************)
(* The call of MmMapMemory and its walk.                                   *)
(***************************************************************************)
\* From a table to the table of the next level.
LEMMA WalkDown ==
  ASSUME NEW f \in FrameContents, NEW page \in Pages, NEW level \in 2 .. 4,
         IsThere(f, page, level), NEW e, e = f[TableAt(f, page, level)][Index(page, level)]
  PROVE  /\ TableAt(f, page, level) \in Upper(f)
         /\ e.present => IsThere(f, page, level - 1)
         /\ TableAt(f, page, level - 1) = e.page_ppn
PROOF
  <1>1. level = 2 \/ level = 3 \/ level = 4
    OBVIOUS
  <1>2. CASE level = 4
    <2>1. TableAt(f, page, 4) = kPML4 /\ TableAt(f, page, 3) = Step4(f, page).page_ppn
      BY DEF TableAt
    <2>2. e = Step4(f, page) /\ level - 1 = 3
      BY <1>2, <2>1 DEF Step4
    <2>3. QED
      BY <1>2, <2>1, <2>2 DEF IsThere, Upper
  <1>3. CASE level = 3
    <2>1. /\ TableAt(f, page, 3) = Step4(f, page).page_ppn
          /\ TableAt(f, page, 2) = Step3(f, page).page_ppn
      BY DEF TableAt
    <2>2. e = Step3(f, page) /\ level - 1 = 2
      BY <1>3, <2>1 DEF Step3
    <2>3. Step4(f, page).present
      BY <1>3 DEF IsThere
    <2>4. QED
      BY <1>3, <2>1, <2>2, <2>3, WalkTables DEF IsThere, Upper
  <1>4. CASE level = 2
    <2>1. /\ TableAt(f, page, 2) = Step3(f, page).page_ppn
          /\ TableAt(f, page, 1) = Step2(f, page).page_ppn
      BY DEF TableAt
    <2>2. e = Step2(f, page) /\ level - 1 = 1
      BY <1>4, <2>1 DEF Step2
    <2>3. Step4(f, page).present /\ Step3(f, page).present
      BY <1>4 DEF IsThere
    <2>4. QED
      BY <1>4, <2>1, <2>2, <2>3, WalkTables DEF IsThere, Upper
  <1>5. QED
    BY <1>1, <1>2, <1>3, <1>4

\* Into a table that has just been linked.
LEMMA WalkDownNew ==
  ASSUME NEW f, NEW g, NEW page \in Pages, NEW level \in 2 .. 4, NEW n, NEW e,
         IsThere(f, page, level),
         NewTable(f, g, TableAt(f, page, level), Index(page, level), n, e)
  PROVE  IsThere(g, page, level - 1) /\ TableAt(g, page, level - 1) = n
PROOF
  <1> DEFINE t == TableAt(f, page, level)
             i == Index(page, level)
  <1>1. /\ f \in FrameContents /\ ~f[t][i].present
    BY DEF NewTable
  <1>2. /\ g[t][i].present /\ g[t][i].page_ppn = n
        /\ \A u \in Tree(f), j \in Indices : (u # t \/ j # i) => g[u][j] = f[u][j]
    BY NewTableContents
  <1>3. \A u \in Tree(f), j \in Indices : f[u][j].present => g[u][j] = f[u][j]
    BY <1>1, <1>2
  <1>4. level = 2 \/ level = 3 \/ level = 4
    OBVIOUS
  <1>5. \A l \in 1 .. 4 : Index(page, l) \in Indices
    BY IndexType
  <1>6. level < 4 => Step4(g, page) = Step4(f, page) /\ Step4(f, page).page_ppn \in Tree(f)
    BY <1>1, <1>3, <1>4, <1>5, WalkTables DEF Step4, IsThere, Tree, Upper
  <1>7. level < 3 => Step3(g, page) = Step3(f, page)
    BY <1>3, <1>4, <1>5, <1>6 DEF Step3, IsThere
  <1>8. CASE level = 4
    <2>1. t = kPML4
      BY <1>8 DEF TableAt
    <2>2. Step4(g, page).present /\ Step4(g, page).page_ppn = n
      BY <1>2, <1>8, <2>1 DEF Step4
    <2>3. TableAt(g, page, 3) = Step4(g, page).page_ppn /\ level - 1 = 3
      BY <1>8 DEF TableAt
    <2>4. QED
      BY <2>2, <2>3 DEF IsThere
  <1>9. CASE level = 3
    <2>1. t = Step4(f, page).page_ppn
      BY <1>9 DEF TableAt
    <2>2. Step3(g, page).present /\ Step3(g, page).page_ppn = n
      BY <1>2, <1>6, <1>9, <2>1 DEF Step3
    <2>3. TableAt(g, page, 2) = Step3(g, page).page_ppn /\ level - 1 = 2
      BY <1>9 DEF TableAt
    <2>4. QED
      BY <1>6, <1>9, <2>2, <2>3 DEF IsThere
  <1>10. CASE level = 2
    <2>1. t = Step3(f, page).page_ppn
      BY <1>10 DEF TableAt
    <2>2. Step2(g, page).present /\ Step2(g, page).page_ppn = n
      BY <1>2, <1>7, <1>10, <2>1 DEF Step2
    <2>3. TableAt(g, page, 1) = Step2(g, page).page_ppn /\ level - 1 = 1
      BY <1>10 DEF TableAt
    <2>4. QED
      BY <1>6, <1>7, <1>10, <2>2, <2>3 DEF IsThere
  <1>11. QED
    BY <1>4, <1>8, <1>9, <1>10

(***************************************************************************)
(* The initial state.                                                      *)
(***************************************************************************)
\* The boot loader's tables are a tree: frames 1, 2 and 3 under the PML4.
LEMMA InitTree ==
  ASSUME Init
  PROVE  /\ frames \in FrameContents
         /\ Level3(frames) = {1} /\ Level2(frames) = {2} /\ Level1(frames) = {3}
         /\ IsTree(frames)
         /\ \A f \in 0 .. 2, i \in Indices : /\ frames[f][i].present <=> i = 0
                                             /\ i = 0 => frames[f][i].page_ppn = f + 1
         /\ \A i \in Indices : frames[3][i] = IF i < BootTop THEN BootEntry(i) ELSE Absent
PROOF
  <1>1. /\ frames = [f \in Frames |->
             CASE f \in 0 .. 2 -> [Zeroed EXCEPT ![0] = BootEntry(f + 1)]
               [] f = 3 -> [i \in 0 .. Fanout - 1 |-> IF i < BootTop THEN BootEntry(i) ELSE Absent]
               [] OTHER -> Garbage]
    BY DEF Init, MmInitializePaging
  <1>2. /\ 0 \in Indices /\ 0 .. 3 \subseteq Frames /\ kPML4 = 0
        /\ \A i \in Indices : i < BootTop => i \in Frames
    BY VmmAssumption DEF Indices, Frames, kPML4
  <1>3. /\ Absent \in Entry /\ \A n \in Frames : BootEntry(n) \in Entry
        /\ Zeroed \in [Indices -> Entry] /\ Garbage \in [Indices -> Entry]
        /\ \A i \in Indices : Zeroed[i] = Absent
    BY <1>2, VmmAssumption DEF Absent, BootEntry, Entry, Zeroed, Garbage, Indices
  <1>4. /\ \A f \in 0 .. 2 : frames[f] = [Zeroed EXCEPT ![0] = BootEntry(f + 1)]
        /\ frames[3] = [i \in Indices |-> IF i < BootTop THEN BootEntry(i) ELSE Absent]
        /\ \A f \in Frames : f \notin 0 .. 3 => frames[f] = Garbage
    BY <1>1, <1>2 DEF Indices
  <1>5. frames \in FrameContents
    <2>1. ASSUME NEW f \in Frames PROVE frames[f] \in [Indices -> Entry]
      <3>1. CASE f \in 0 .. 2
        <4>1. f + 1 \in Frames
          BY <1>2, <3>1
        <4>2. PICK e \in Entry : e = BootEntry(f + 1)
          BY <1>3, <4>1
        <4>3. frames[f] = [Zeroed EXCEPT ![0] = e]
          BY <1>4, <3>1, <4>2
        <4> HIDE DEF Zeroed, Entry
        <4>4. QED
          BY <1>3, <4>3
      <3>2. CASE f = 3
        <4>1. \A i \in Indices : (IF i < BootTop THEN BootEntry(i) ELSE Absent) \in Entry
          BY <1>2, <1>3
        <4>2. QED
          BY <1>4, <3>2, <4>1
      <3>3. CASE f \notin 0 .. 3
        BY <1>3, <1>4, <3>3
      <3>4. f \in 0 .. 2 \/ f = 3 \/ f \notin 0 .. 3
        OBVIOUS
      <3>5. QED
        BY <3>1, <3>2, <3>3, <3>4
    <2>2. DOMAIN frames = Frames
      BY <1>1
    <2>3. QED
      BY <1>1, <2>1, <2>2 DEF FrameContents
  <1>6. ASSUME NEW f \in 0 .. 2, NEW i \in Indices
        PROVE  /\ frames[f][i].present <=> i = 0
               /\ i = 0 => frames[f][i].page_ppn = f + 1
    <2>1. frames[f][i] = IF i = 0 THEN BootEntry(f + 1) ELSE Absent
      <3>1. frames[f] = [Zeroed EXCEPT ![0] = BootEntry(f + 1)]
        BY <1>4
      <3>2. Zeroed \in [Indices -> Entry] /\ Zeroed[i] = Absent
        BY <1>3
      <3> HIDE DEF Zeroed, Entry
      <3>3. QED
        BY <1>2, <3>1, <3>2
    <2>2. QED
      BY <2>1 DEF BootEntry, Absent
  <1>7. ASSUME NEW f \in 0 .. 2 PROVE Children(frames, {f}) = {f + 1}
    <2>1. f + 1 \in Frames
      BY <1>2
    <2>2. QED
      BY <1>2, <1>6, <2>1 DEF Children
  <1>8. Level3(frames) = {1} /\ Level2(frames) = {2} /\ Level1(frames) = {3}
    <2>1. Level3(frames) = {1}
      BY <1>2, <1>7 DEF Level3
    <2>2. Level2(frames) = {2}
      BY <1>7, <2>1 DEF Level2
    <2>3. Level1(frames) = {3}
      BY <1>7, <2>2 DEF Level1
    <2>4. QED
      BY <2>1, <2>2, <2>3
  <1>9. IsTree(frames)
    <2>1. Upper(frames) = 0 .. 2
      BY <1>2, <1>8 DEF Upper
    <2>2. kPML4 \notin Level3(frames) \cup Level2(frames) \cup Level1(frames)
      BY <1>2, <1>8
    <2>3. ASSUME NEW t \in 0 .. 2, NEW u \in 0 .. 2, NEW i \in Indices, NEW j \in Indices,
                 frames[t][i].present, frames[u][j].present,
                 frames[t][i].page_ppn = frames[u][j].page_ppn
          PROVE  t = u /\ i = j
      <3>1. i = 0 /\ j = 0
        BY <1>6, <2>3
      <3>2. t + 1 = u + 1
        BY <1>6, <2>3, <3>1
      <3>3. QED
        BY <3>1, <3>2
    <2>4. QED
      BY <2>1, <2>2, <2>3 DEF IsTree
  <1>10. QED
    BY <1>4, <1>5, <1>6, <1>8, <1>9

\* The boot loader maps the pages below BootTop to themselves and no other.
LEMMA InitWalks ==
  ASSUME Init, NEW page \in Pages
  PROVE  /\ Walk(frames, page) = IF page < BootTop THEN page ELSE NoFrame
         /\ (IF Reaches(frames, page) THEN Step1(frames, page).perm ELSE {})
              = IF page < BootTop THEN {"write"} ELSE {}
PROOF
  <1>1. \A l \in 1 .. 4 : Index(page, l) \in Indices
    BY IndexType
  <1>2. /\ \A f \in 0 .. 2, i \in Indices : /\ frames[f][i].present <=> i = 0
                                            /\ i = 0 => frames[f][i].page_ppn = f + 1
        /\ \A i \in Indices : frames[3][i] = IF i < BootTop THEN BootEntry(i) ELSE Absent
    <2>1. \A f \in 0 .. 2, i \in Indices : /\ frames[f][i].present <=> i = 0
                                           /\ i = 0 => frames[f][i].page_ppn = f + 1
      BY InitTree
    <2>2. \A i \in Indices : frames[3][i] = IF i < BootTop THEN BootEntry(i) ELSE Absent
      BY InitTree
    <2>3. QED
      BY <2>1, <2>2
  <1>3. ASSUME Index(page, 4) = 0, Index(page, 3) = 0, Index(page, 2) = 0
        PROVE  Reaches(frames, page) /\ Step1(frames, page) = frames[3][Index(page, 1)]
    <2>1. Step4(frames, page).present /\ Step4(frames, page).page_ppn = 1
      BY <1>1, <1>2, <1>3 DEF Step4, kPML4
    <2>2. Step3(frames, page).present /\ Step3(frames, page).page_ppn = 2
      BY <1>1, <1>2, <1>3, <2>1 DEF Step3
    <2>3. Step2(frames, page).present /\ Step2(frames, page).page_ppn = 3
      BY <1>1, <1>2, <1>3, <2>2 DEF Step2
    <2>4. QED
      BY <2>1, <2>2, <2>3 DEF Reaches, Step1
  <1>4. ASSUME Reaches(frames, page)
        PROVE  Index(page, 4) = 0 /\ Index(page, 3) = 0 /\ Index(page, 2) = 0
    <2>1. Index(page, 4) = 0 /\ Step4(frames, page).page_ppn = 1
      BY <1>1, <1>2, <1>4 DEF Reaches, Step4, kPML4
    <2>2. Index(page, 3) = 0 /\ Step3(frames, page).page_ppn = 2
      BY <1>1, <1>2, <1>4, <2>1 DEF Reaches, Step3
    <2>3. Index(page, 2) = 0
      BY <1>1, <1>2, <1>4, <2>2 DEF Reaches, Step2
    <2>4. QED
      BY <2>1, <2>2, <2>3
  <1>5. CASE page < BootTop
    <2>1. page < Fanout /\ page \in Indices
      BY <1>5, VmmAssumption DEF Indices, Pages
    <2>2. Reaches(frames, page) /\ Step1(frames, page) = BootEntry(page)
      BY <1>2, <1>3, <1>5, <2>1, IndexSmall
    <2>3. QED
      BY <1>5, <2>2 DEF Walk, BootEntry
  <1>6. CASE ~ (page < BootTop)
    <2>1. SUFFICES ASSUME Reaches(frames, page) PROVE Step1(frames, page) = Absent
      BY <1>6 DEF Walk, Absent
    <2>2. Index(page, 4) = 0 /\ Index(page, 3) = 0 /\ Index(page, 2) = 0
      BY <1>4, <2>1
    <2>3. ~ (Index(page, 1) < BootTop)
      <3>1. SUFFICES ASSUME Index(page, 1) < BootTop PROVE FALSE
        OBVIOUS
      <3>2. PICK k \in Indices : k = Index(page, 1)
        BY <1>1
      <3>3. k \in Pages /\ k < Fanout
        BY <3>1, <3>2, VmmAssumption DEF Indices, Frames
      <3>4. page = k
        BY <2>2, <3>2, <3>3, IndexSmall, IndexInjective
      <3>5. QED
        BY <1>6, <3>1, <3>2, <3>4
    <2>4. QED
      BY <1>1, <1>2, <1>3, <2>2, <2>3
  <1>7. QED
    BY <1>5, <1>6

\* The initial state satisfies the invariant.
LEMMA InitTreeInv == Init => TreeInv
PROOF
  <1>1. SUFFICES ASSUME Init PROVE TreeInv
    OBVIOUS
  <1>2. frames \in FrameContents
    BY <1>1, InitTree
  <1>3. TypeOK
    <2>1. next \in Frames /\ kPML4 \in Frames /\ NoFrame \notin Pages
          /\ \A page \in Pages : page < BootTop => page \in Frames
      BY <1>1, VmmAssumption DEF Init, Frames, kPML4, Pages, NoFrame
    <2>2. call \in [page : Pages \cup {NoFrame}, frame : Frames \cup {NoFrame},
                    level : 0 .. 4, table : Frames]
      BY <1>1, <2>1 DEF Init, Idle
    <2>3. /\ tlb \in [CachedPages -> Frames \cup {NoFrame}]
          /\ asked \in [Pages -> Frames \cup {NoFrame}]
          /\ granted \in [Pages -> SUBSET Permissions]
      BY <1>1, <2>1, VmmAssumption DEF Init, MmInitializePaging
    <2>4. QED
      BY <1>1, <1>2, <2>1, <2>2, <2>3 DEF Init, TypeOK, FrameContents, Indices
  <1>4. TlbCurrent
    BY <1>1 DEF Init, MmInitializePaging, TlbCurrent
  <1>5. FramesInOrder
    <2>1. \A page \in next .. RamTop - 1 : page \in Pages /\ ~ (page < BootTop)
      BY <1>1, VmmAssumption DEF Init, Frames
    <2>2. \A page \in Mmio : page \in Pages /\ ~ (page < BootTop)
      BY VmmAssumption DEF Frames
    <2>3. QED
      BY <1>1, <2>1, <2>2, VmmAssumption DEF Init, FramesInOrder
  <1>6. Private(frames, owned \cup Mmio \cup (next .. RamTop))
    <2>1. Tree(frames) = {0, 1, 2, 3}
      BY <1>1, InitTree DEF Tree, Upper, kPML4
    <2>2. next \in 4 .. RamTop /\ owned = {} /\ RamTop \in Nat /\ MaxFrame \in Nat
          /\ Mmio \subseteq RamTop .. MaxFrame
      BY <1>1, VmmAssumption DEF Init
    <2>3. \A x \in owned \cup Mmio \cup (next .. RamTop) : x \notin {0, 1, 2, 3}
      BY <2>2
    <2>4. QED
      BY <1>1, <2>1, <2>3, InitTree DEF Private
  <1>7. AsAsked(frames, asked, granted)
    <2>1. ASSUME NEW page \in Pages
          PROVE  /\ asked[page] = IF page < BootTop THEN page ELSE NoFrame
                 /\ granted[page] = IF page < BootTop THEN {"write"} ELSE {}
      BY <1>1 DEF Init
    <2>2. QED
      BY <1>1, <2>1, InitWalks DEF AsAsked
  <1>8. CallAt(frames, next, asked)
    BY <1>1 DEF Init, CallAt
  <1>9. QED
    BY <1>3, <1>4, <1>5, <1>6, <1>7, <1>8 DEF TreeInv

(***************************************************************************)
(* The steps.                                                              *)
(***************************************************************************)
\* What the invariant says of the frames.
LEMMA TreeFacts ==
  ASSUME TreeInv
  PROVE  /\ frames \in FrameContents /\ IsTree(frames)
         /\ \A t \in Tree(frames) : t \notin owned /\ t \notin Mmio /\ t \notin next .. RamTop
         /\ next \in FirstFree .. RamTop /\ next \in Nat /\ RamTop \in Nat
         /\ Frames \subseteq Pages
PROOF
  BY TypedFrames, VmmAssumption DEF TreeInv, Private, FramesInOrder

\* A call begins: MmMapMemory(page, frame).
LEMMA EnterKeepsTreeInv ==
  ASSUME TreeInv, call = Idle, FramesLeft,
         NEW page \in Pages, NEW frame \in Frames, Enter(page, frame),
         next' \in {next, next + 1}, owned' \subseteq owned \cup {next},
         next' = next => owned' = owned,
         asked[page] \in {NoFrame, frame}, page \notin next' .. RamTop - 1,
         page \in HeapPages \/ frame = page,
         UNCHANGED <<frames, tlb, asked, granted>>
  PROVE  TreeInv'
PROOF
  <1>1. /\ next \in FirstFree .. RamTop /\ next + 4 <= RamTop /\ next' + 3 <= RamTop
        /\ next' \in FirstFree .. RamTop /\ RamTop \in Nat /\ next \in Nat /\ next' \in Nat
        /\ next' \in Frames /\ next \in Frames /\ next' + (4 - 1) <= RamTop
    BY TreeFacts, VmmAssumption DEF FramesLeft, Frames
  <1>2. /\ call'.page = page /\ call'.frame = frame /\ call'.level = 4 /\ call'.table = kPML4
        /\ call' \in [page : Pages \cup {NoFrame}, frame : Frames \cup {NoFrame},
                      level : 0 .. 4, table : Frames]
    BY TreeInFrames DEF Enter
  <1>3. TypeOK'
    BY <1>1, <1>2 DEF TreeInv, TypeOK
  <1>4. TlbCurrent'
    BY DEF TreeInv, TlbCurrent
  <1>5. FramesInOrder'
    <2>1. owned' \subseteq 0 .. next' - 1
      <3>1. owned \subseteq 0 .. next - 1
        BY DEF TreeInv, FramesInOrder
      <3>2. CASE next' = next
        BY <3>1, <3>2
      <3>3. CASE next' = next + 1
        BY <1>1, <3>1, <3>3
      <3>4. QED
        BY <3>2, <3>3
    <2>2. \A q \in next' .. RamTop - 1 : asked'[q] = NoFrame
      BY <1>1 DEF TreeInv, FramesInOrder
    <2>3. QED
      BY <1>1, <2>1, <2>2 DEF TreeInv, FramesInOrder
  <1>6. Private(frames, owned \cup Mmio \cup (next .. RamTop))'
    <2>1. next \in next .. RamTop /\ next' .. RamTop \subseteq next .. RamTop
      BY <1>1
    <2>2. owned' \cup Mmio \cup (next' .. RamTop) \subseteq owned \cup Mmio \cup (next .. RamTop)
      BY <2>1
    <2>3. QED
      BY <2>2 DEF TreeInv, Private
  <1>7. AsAsked(frames, asked, granted)'
    BY DEF TreeInv, AsAsked
  <1>8. CallAt(frames, next, asked)'
    <2>1. TableAt(frames, page, 4) = kPML4 /\ IsThere(frames, page, 4)
      BY DEF TableAt, IsThere
    <2>2. /\ call'.level \in 1 .. 4 /\ call'.page \in Pages /\ call'.frame \in Frames
          /\ IsThere(frames', call'.page, call'.level)
          /\ call'.table = TableAt(frames', call'.page, call'.level)
      BY <1>2, <2>1
    <2>3. next' + (call'.level - 1) <= RamTop
      <3>1. call'.level = 4
        BY <1>2
      <3>2. QED
        BY <1>1, <3>1
    <2>4. /\ asked'[call'.page] \in {NoFrame, call'.frame}
          /\ call'.page \notin next' .. RamTop - 1
          /\ call'.page \in HeapPages \/ call'.frame = call'.page
      BY <1>2
    <2>5. QED
      BY <2>2, <2>3, <2>4 DEF CallAt
  <1>9. QED
    BY <1>3, <1>4, <1>5, <1>6, <1>7, <1>8 DEF TreeInv

LEMMA MapDeviceKeepsTreeInv ==
  ASSUME TreeInv, NEW frame \in Mmio, MapDevice(frame)
  PROVE  TreeInv'
PROOF
  <1>1. frame \in Frames /\ frame \in Pages /\ frame \notin next' .. RamTop - 1
    BY TreeFacts, VmmAssumption DEF MapDevice, Frames
  <1>2. asked[frame] \in {NoFrame, frame}
    BY DEF TreeInv, FramesInOrder
  <1>3. /\ call = Idle /\ FramesLeft /\ Enter(frame, frame)
        /\ next' = next /\ owned' = owned
        /\ UNCHANGED <<frames, tlb, asked, granted>>
    BY DEF MapDevice
  <1>4. QED
    BY <1>1, <1>2, <1>3, EnterKeepsTreeInv

LEMMA MapHeapPageKeepsTreeInv ==
  ASSUME TreeInv, NEW page \in HeapPages, MapHeapPage(page)
  PROVE  TreeInv'
PROOF
  <1>1. page \in Pages /\ next \in Frames /\ next' # next
    BY TreeFacts, VmmAssumption DEF MapHeapPage, Frames
  <1>2. page \notin next' .. RamTop - 1
    BY TreeFacts, VmmAssumption DEF MapHeapPage, Frames
  <1>3. /\ call = Idle /\ FramesLeft /\ Enter(page, next) /\ asked[page] = NoFrame
        /\ next' = next + 1 /\ owned' = owned \cup {next}
        /\ UNCHANGED <<frames, tlb, asked, granted>>
    BY DEF MapHeapPage
  <1>4. QED
    BY <1>1, <1>2, <1>3, EnterKeepsTreeInv

LEMMA IdentityPageKeepsTreeInv ==
  ASSUME TreeInv, MmGetIdentityPage
  PROVE  TreeInv'
PROOF
  <1>1. next \in Frames /\ next \in Pages /\ next' # next /\ next \notin next' .. RamTop - 1
    BY TreeFacts, VmmAssumption DEF MmGetIdentityPage, Frames
  <1>2. asked[next] = NoFrame
    <2>1. next \in next .. RamTop - 1
      BY TreeFacts DEF MmGetIdentityPage, FramesLeft
    <2>2. QED
      BY <2>1 DEF TreeInv, FramesInOrder
  <1>3. /\ call = Idle /\ FramesLeft /\ Enter(next, next)
        /\ next' = next + 1 /\ owned' = owned \cup {next}
        /\ UNCHANGED <<frames, tlb, asked, granted>>
    BY DEF MmGetIdentityPage
  <1>4. QED
    BY <1>1, <1>2, <1>3, EnterKeepsTreeInv

\* The call under way, in a step below the PML4's.
LEMMA CallFacts ==
  ASSUME TreeInv, call.level \in 1 .. 4
  PROVE  /\ call.page \in Pages /\ call.frame \in Frames /\ call # Idle
         /\ IsThere(frames, call.page, call.level)
         /\ call.table = TableAt(frames, call.page, call.level)
         /\ next + (call.level - 1) <= RamTop
         /\ asked[call.page] \in {NoFrame, call.frame}
         /\ call.page \notin next .. RamTop - 1
         /\ call.page \in HeapPages \/ call.frame = call.page
PROOF
  <1>1. call # Idle
    BY DEF Idle
  <1>2. QED
    BY <1>1 DEF TreeInv, CallAt

LEMMA DescendKeepsTreeInv ==
  ASSUME TreeInv, Descend
  PROVE  TreeInv'
PROOF
  <1> DEFINE e == frames[call.table][Index(call.page, call.level)]
  <1>1. call.level \in 2 .. 4 /\ call.level \in 1 .. 4
    BY DEF Descend, TreeInv, TypeOK
  <1>2. /\ e.present
        /\ call' = [call EXCEPT !.level = @ - 1, !.table = e.page_ppn]
        /\ UNCHANGED <<frames, next, tlb, asked, granted, owned>>
    BY DEF Descend, EntryOf
  <1>3. e = frames[TableAt(frames, call.page, call.level)][Index(call.page, call.level)]
    BY <1>1, CallFacts
  <1>4. /\ IsThere(frames, call.page, call.level - 1)
        /\ TableAt(frames, call.page, call.level - 1) = e.page_ppn
    BY <1>1, <1>2, <1>3, CallFacts, TreeFacts, WalkDown
  <1>5. e.page_ppn \in Frames
    <2>1. call.table \in Upper(frames) /\ Index(call.page, call.level) \in Indices
      BY <1>1, CallFacts, TreeFacts, WalkDown, IndexType
    <2>2. QED
      BY <2>1, TreeFacts, TreeEntries DEF Tree
  <1> HIDE DEF e
  <1>6. /\ call'.page = call.page /\ call'.frame = call.frame
        /\ call'.level = call.level - 1 /\ call'.table = e.page_ppn
        /\ call' \in [page : Pages \cup {NoFrame}, frame : Frames \cup {NoFrame},
                      level : 0 .. 4, table : Frames]
    <2> DEFINE c == [call EXCEPT !.level = @ - 1]
    <2>1. call' = [c EXCEPT !.table = e.page_ppn]
      BY <1>2
    <2>2. /\ c \in [page : Pages \cup {NoFrame}, frame : Frames \cup {NoFrame},
                   level : 0 .. 4, table : Frames]
          /\ c.page = call.page /\ c.frame = call.frame /\ c.level = call.level - 1
      BY <1>1 DEF TreeInv, TypeOK
    <2> HIDE DEF c
    <2>3. QED
      BY <1>5, <2>1, <2>2
  <1>7. TypeOK' /\ TlbCurrent' /\ FramesInOrder'
    BY <1>2, <1>6 DEF TreeInv, TypeOK, TlbCurrent, FramesInOrder
  <1>8. Private(frames, owned \cup Mmio \cup (next .. RamTop))' /\ AsAsked(frames, asked, granted)'
    BY <1>2 DEF TreeInv, Private, AsAsked
  <1>9. CallAt(frames, next, asked)'
    <2>1. /\ call.level - 1 \in 1 .. 4
          /\ next + ((call.level - 1) - 1) <= RamTop
      BY <1>1, CallFacts, TreeFacts
    <2>2. QED
      BY <1>1, <1>2, <1>4, <1>6, <2>1, CallFacts DEF CallAt
  <1>10. QED
    BY <1>7, <1>8, <1>9 DEF TreeInv

\* The entry MmMapMemory writes.
LEMMA MappedType ==
  ASSUME NEW e \in Entry, NEW n \in Frames
  PROVE  /\ Mapped(e, n) \in Entry /\ Mapped(e, n).present /\ Mapped(e, n).page_ppn = n
         /\ Mapped(e, n).perm = e.perm \cup {"write"}
PROOF
  <1>1. n % PpnLimit = n
    <2>1. PpnLimit \in Nat \ {0} /\ n \in 0 .. PpnLimit - 1
      BY VmmAssumption DEF Frames
    <2>2. QED
      BY <2>1, DivSmall
  <1>2. QED
    BY <1>1, VmmAssumption DEF Mapped, Entry

LEMMA DescendNewKeepsTreeInv ==
  ASSUME TreeInv, DescendNew
  PROVE  TreeInv'
PROOF
  <1> DEFINE t == call.table
             i == Index(call.page, call.level)
             e == Mapped(frames[t][i], next)
  <1>1. call.level \in 2 .. 4 /\ call.level \in 1 .. 4
    BY DEF DescendNew, TreeInv, TypeOK
  <1>2. /\ ~frames[t][i].present
        /\ frames' = [frames EXCEPT ![next] = Zeroed, ![t][i] = e]
        /\ next' = next + 1
        /\ call' = [call EXCEPT !.level = @ - 1, !.table = next]
        /\ UNCHANGED <<tlb, asked, granted, owned>>
    <2>1. /\ ~frames[t][i].present
          /\ frames' = Link(t, i, next)
          /\ next' = next + 1
          /\ call' = [call EXCEPT !.level = @ - 1, !.table = next]
          /\ UNCHANGED <<tlb, asked, granted, owned>>
      BY DEF DescendNew, EntryOf
    <2>2. Link(t, i, next) = [frames EXCEPT ![next] = Zeroed, ![t][i] = e]
      BY DEF Link
    <2>3. QED
      BY <2>1, <2>2
  <1>3. /\ call.page \in Pages
        /\ IsThere(frames, call.page, call.level)
        /\ t = TableAt(frames, call.page, call.level)
        /\ i \in Indices /\ t \in Upper(frames)
    BY <1>1, CallFacts, TreeFacts, WalkDown, IndexType
  <1>4. next < RamTop /\ next \in Frames /\ next \notin Tree(frames)
        /\ next' \in FirstFree .. RamTop /\ next' \in Frames
    <2>1. next + (call.level - 1) <= RamTop
      BY <1>1, CallFacts
    <2>2. next \in FirstFree .. RamTop /\ RamTop \in Nat
      BY TreeFacts
    <2>3. next < RamTop /\ next' \in FirstFree .. RamTop
      BY <1>1, <1>2, <2>1, <2>2, VmmAssumption
    <2>4. next \in next .. RamTop
      BY <2>2, <2>3, VmmAssumption
    <2>5. QED
      BY <2>2, <2>3, <2>4, TreeFacts, VmmAssumption DEF Frames
  <1>5. NewTable(frames, frames', t, i, next, e)
    <2>1. frames[t][i] \in Entry
      BY <1>3, TreeFacts, TreeEntries DEF Tree
    <2>2. e \in Entry /\ e.present /\ e.page_ppn = next
      BY <1>4, <2>1, MappedType
    <2> HIDE DEF e, t, i
    <2>3. QED
      BY <1>2, <1>3, <1>4, <2>2, TreeFacts DEF NewTable
  <1> HIDE DEF e, t, i
  <1>6. /\ call'.page = call.page /\ call'.frame = call.frame
        /\ call'.level = call.level - 1 /\ call'.table = next
        /\ call' \in [page : Pages \cup {NoFrame}, frame : Frames \cup {NoFrame},
                      level : 0 .. 4, table : Frames]
    <2> DEFINE c == [call EXCEPT !.level = @ - 1]
    <2>1. call' = [c EXCEPT !.table = next]
      BY <1>2
    <2>2. /\ c \in [page : Pages \cup {NoFrame}, frame : Frames \cup {NoFrame},
                   level : 0 .. 4, table : Frames]
          /\ c.page = call.page /\ c.frame = call.frame /\ c.level = call.level - 1
      BY <1>1 DEF TreeInv, TypeOK
    <2> HIDE DEF c
    <2>3. QED
      BY <1>4, <2>1, <2>2
  <1>7. TypeOK'
    <2>1. frames' \in [Frames -> [0 .. Fanout - 1 -> Entry]]
      BY <1>5, NewTableContents DEF FrameContents, Indices
    <2>2. QED
      BY <1>2, <1>4, <1>6, <2>1 DEF TreeInv, TypeOK
  <1>8. TlbCurrent'
    BY <1>2 DEF TreeInv, TlbCurrent
  <1>9. FramesInOrder'
    <2>1. owned' \subseteq 0 .. next' - 1
      BY <1>2, TreeFacts DEF TreeInv, FramesInOrder
    <2>2. \A page \in next' .. RamTop - 1 : asked'[page] = NoFrame
      BY <1>2, TreeFacts DEF TreeInv, FramesInOrder
    <2>3. QED
      BY <1>2, <1>4, <2>1, <2>2 DEF TreeInv, FramesInOrder
  <1>10. Private(frames, owned \cup Mmio \cup (next .. RamTop))'
    <2>1. IsTree(frames') /\ Tree(frames') = Tree(frames) \cup {next}
      BY <1>5, NewTableTree
    <2>2. next \notin owned /\ next \notin Mmio /\ next \notin next' .. RamTop
          /\ next' .. RamTop \subseteq next .. RamTop
      BY <1>2, <1>4, TreeFacts, VmmAssumption DEF TreeInv, FramesInOrder
    <2>3. QED
      BY <1>2, <2>1, <2>2, TreeFacts DEF Private
  <1>11. AsAsked(frames, asked, granted)'
    <2>1. ASSUME NEW page \in Pages
          PROVE  /\ Walk(frames', page) = asked[page]
                 /\ granted[page] = IF Reaches(frames', page) THEN Step1(frames', page).perm ELSE {}
      <3>1. /\ Walk(frames, page) = asked[page]
            /\ granted[page] = IF Reaches(frames, page) THEN Step1(frames, page).perm ELSE {}
        BY DEF TreeInv, AsAsked
      <3>2. /\ Reaches(frames, page) =>
                 Reaches(frames', page) /\ Step1(frames', page) = Step1(frames, page)
            /\ ~Reaches(frames, page) /\ Reaches(frames', page) => Step1(frames', page) = Absent
            /\ Walk(frames', page) = Walk(frames, page)
        BY <1>5, NewTableWalks
      <3>3. Absent.perm = {}
        BY DEF Absent
      <3>4. QED
        BY <3>1, <3>2, <3>3
    <2>2. QED
      BY <1>2, <2>1 DEF AsAsked
  <1>12. CallAt(frames, next, asked)'
    <2>1. /\ IsThere(frames', call.page, call.level - 1)
          /\ next = TableAt(frames', call.page, call.level - 1)
      BY <1>1, <1>3, <1>5, WalkDownNew DEF t, i
    <2>2. /\ call.level - 1 \in 1 .. 4
          /\ next' + ((call.level - 1) - 1) <= RamTop
      BY <1>1, <1>2, CallFacts, TreeFacts
    <2>3. call.page \notin next' .. RamTop - 1
      BY <1>1, <1>2, CallFacts, TreeFacts
    <2>4. QED
      BY <1>1, <1>2, <1>6, <2>1, <2>2, <2>3, CallFacts DEF CallAt
  <1>13. QED
    BY <1>7, <1>8, <1>9, <1>10, <1>11, <1>12 DEF TreeInv

\* A write to the entry of a page p that the processor gets to, when p is the
\* only page whose history changes.
LEMMA EntryKeepsTreeInv ==
  ASSUME TreeInv, NEW p \in Pages, NEW e, Reaches(frames, p),
         NewEntry(frames, frames', Step2(frames, p).page_ppn, Index(p, 1), e),
         \A q \in Pages \ {p} : asked'[q] = asked[q] /\ granted'[q] = granted[q],
         asked'[p] = IF e.present THEN e.page_ppn ELSE NoFrame,
         granted'[p] = e.perm,
         UNCHANGED <<next, owned>>
  PROVE  /\ frames' \in FrameContents
         /\ Private(frames, owned \cup Mmio \cup (next .. RamTop))'
         /\ AsAsked(frames, asked, granted)'
PROOF
  <1>1. frames' \in FrameContents
    BY NewEntryContents
  <1>2. IsTree(frames') /\ Tree(frames') = Tree(frames)
    BY NewEntryTree
  <1>3. Private(frames, owned \cup Mmio \cup (next .. RamTop))'
    BY <1>2 DEF TreeInv, Private
  <1>4. OnlyEntryOf(p, e, frames, frames')
    BY NewEntryWalks
  <1>5. ASSUME NEW q \in Pages
        PROVE  /\ Walk(frames', q) = asked'[q]
               /\ granted'[q] = IF Reaches(frames', q) THEN Step1(frames', q).perm ELSE {}
    <2>1. /\ Reaches(frames', q) = Reaches(frames, q)
          /\ q # p /\ Reaches(frames, q) => Step1(frames', q) = Step1(frames, q)
          /\ Step1(frames', p) = e
      BY <1>4 DEF OnlyEntryOf
    <2>2. CASE q = p
      BY <2>1, <2>2 DEF Walk
    <2>3. CASE q # p
      <3>1. /\ Walk(frames, q) = asked[q]
            /\ granted[q] = IF Reaches(frames, q) THEN Step1(frames, q).perm ELSE {}
        BY DEF TreeInv, AsAsked
      <3>2. Walk(frames', q) = Walk(frames, q)
        BY <2>1, <2>3 DEF Walk
      <3>3. QED
        BY <2>1, <2>3, <3>1, <3>2
    <2>4. QED
      BY <2>2, <2>3
  <1>6. QED
    BY <1>1, <1>3, <1>5 DEF AsAsked

LEMMA SetEntryKeepsTreeInv ==
  ASSUME TreeInv, SetEntry
  PROVE  TreeInv'
PROOF
  <1> DEFINE p == call.page
             t == call.table
             i == Index(p, 1)
             e == Mapped(frames[t][i], call.frame)
  <1>1. /\ call.level = 1 /\ call.level \in 1 .. 4 /\ call' = Idle
        /\ frames' = [frames EXCEPT ![t][i] = e]
        /\ asked' = [asked EXCEPT ![p] = call.frame]
        /\ granted' = [granted EXCEPT ![p] = @ \cup {"write"}]
        /\ UNCHANGED <<next, tlb, owned>>
    BY DEF SetEntry
  <1>2. /\ p \in Pages /\ call.frame \in Frames
        /\ asked[p] \in {NoFrame, call.frame}
        /\ p \notin next .. RamTop - 1
        /\ p \in HeapPages \/ call.frame = p
    BY <1>1, CallFacts
  <1>3. t = Step2(frames, p).page_ppn /\ Reaches(frames, p)
    <2>1. TableAt(frames, p, 1) = Step2(frames, p).page_ppn
      BY DEF TableAt
    <2>2. t = TableAt(frames, p, 1) /\ IsThere(frames, p, 1)
      BY <1>1, CallFacts
    <2>3. QED
      BY <2>1, <2>2 DEF IsThere, Reaches
  <1>4. /\ frames[t][i] = Step1(frames, p) /\ frames[t][i] \in Entry
        /\ i \in Indices /\ t \in Level1(frames)
    <2>1. i \in Indices
      BY <1>2, IndexType
    <2>2. QED
      BY <1>2, <1>3, <2>1, TreeFacts, WalkType, WalkTables DEF Step1
  <1>5. /\ e \in Entry /\ e.present /\ e.page_ppn = call.frame
        /\ e.perm = Step1(frames, p).perm \cup {"write"}
    BY <1>2, <1>4, MappedType
  <1> HIDE DEF e, p
  <1>6. NewEntry(frames, frames', Step2(frames, p).page_ppn, Index(p, 1), e)
    BY <1>1, <1>3, <1>4, <1>5, TreeFacts DEF NewEntry
  <1>7. /\ \A q \in Pages \ {p} : asked'[q] = asked[q] /\ granted'[q] = granted[q]
        /\ asked'[p] = call.frame
        /\ granted'[p] = granted[p] \cup {"write"}
        /\ asked' \in [Pages -> Frames \cup {NoFrame}]
    BY <1>1, <1>2 DEF TreeInv, TypeOK
  <1>8. granted' \in [Pages -> SUBSET Permissions]
    BY <1>1, <1>2, VmmAssumption DEF TreeInv, TypeOK
  <1>9. granted[p] = Step1(frames, p).perm
    BY <1>2, <1>3 DEF TreeInv, AsAsked
  <1>10. /\ frames' \in FrameContents
         /\ Private(frames, owned \cup Mmio \cup (next .. RamTop))'
         /\ AsAsked(frames, asked, granted)'
    <2>1. asked'[p] = IF e.present THEN e.page_ppn ELSE NoFrame
      BY <1>5, <1>7
    <2>2. granted'[p] = e.perm
      BY <1>5, <1>7, <1>9
    <2>3. UNCHANGED <<next, owned>>
      BY <1>1
    <2>4. QED
      BY <1>2, <1>3, <1>6, <1>7, <2>1, <2>2, <2>3, EntryKeepsTreeInv
  <1>11. TypeOK'
    <2>1. call' \in [page : Pages \cup {NoFrame}, frame : Frames \cup {NoFrame},
                     level : 0 .. 4, table : Frames]
      BY <1>1, TreeInFrames DEF Idle
    <2>2. QED
      BY <1>1, <1>7, <1>8, <1>10, <2>1 DEF TreeInv, TypeOK, FrameContents, Indices
  <1>12. TlbCurrent'
    <2>1. ASSUME NEW q \in CachedPages PROVE tlb'[q] \in {NoFrame, asked'[q]}
      <3>1. q \in Pages /\ tlb[q] \in {NoFrame, asked[q]} /\ tlb' = tlb
        BY <1>1, VmmAssumption DEF TreeInv, TlbCurrent
      <3>2. CASE q = p
        BY <1>2, <1>7, <3>1, <3>2
      <3>3. CASE q # p
        BY <1>7, <3>1, <3>3
      <3>4. QED
        BY <3>2, <3>3
    <2>2. QED
      BY <2>1 DEF TlbCurrent
  <1>13. FramesInOrder'
    <2>1. \A q \in next .. RamTop - 1 : q \in Pages /\ q # p
      BY <1>2, TreeFacts, VmmAssumption DEF Frames
    <2>2. \A q \in Mmio : q \in Pages /\ (q = p => call.frame = p)
      BY <1>2, VmmAssumption DEF Frames
    <2>3. QED
      BY <1>1, <1>7, <2>1, <2>2 DEF TreeInv, FramesInOrder
  <1>14. CallAt(frames, next, asked)'
    BY <1>1 DEF CallAt
  <1>15. QED
    BY <1>10, <1>11, <1>12, <1>13, <1>14 DEF TreeInv

\* MmPageSet and MmPageClear.
LEMMA PermissionsKeepTreeInv ==
  ASSUME TreeInv, NEW p \in Pages, call = Idle, asked[p] # NoFrame,
         NEW perm \in SUBSET Permissions,
         MmSetPagePermissions(p, perm), granted' = [granted EXCEPT ![p] = perm],
         UNCHANGED <<next, call, tlb, asked, owned>>
  PROVE  TreeInv'
PROOF
  <1> DEFINE t == Step2(frames, p).page_ppn
             i == Index(p, 1)
             e == [frames[t][i] EXCEPT !.perm = perm]
  <1>1. Reaches(frames, p) /\ Step1(frames, p).present /\ Step1(frames, p).page_ppn = asked[p]
    BY DEF TreeInv, AsAsked, Walk
  <1>2. /\ frames[t][i] = Step1(frames, p) /\ frames[t][i] \in Entry
        /\ i \in Indices /\ t \in Level1(frames)
    <2>1. i \in Indices
      BY IndexType
    <2>2. QED
      BY <1>1, <2>1, TreeFacts, WalkType, WalkTables DEF Step1
  <1>3. e \in Entry /\ e.present /\ e.page_ppn = asked[p] /\ e.perm = perm
    BY <1>1, <1>2 DEF Entry
  <1>4. frames' = [frames EXCEPT ![t][i] = e]
    BY WalksAreSteps DEF MmSetPagePermissions
  <1> HIDE DEF e
  <1>5. NewEntry(frames, frames', t, i, e)
    BY <1>2, <1>3, <1>4, TreeFacts DEF NewEntry
  <1>6. /\ \A q \in Pages \ {p} : asked'[q] = asked[q] /\ granted'[q] = granted[q]
        /\ granted'[p] = perm
        /\ granted' \in [Pages -> SUBSET Permissions]
    BY DEF TreeInv, TypeOK
  <1>7. /\ frames' \in FrameContents
        /\ Private(frames, owned \cup Mmio \cup (next .. RamTop))'
        /\ AsAsked(frames, asked, granted)'
    BY <1>1, <1>3, <1>5, <1>6, EntryKeepsTreeInv
  <1>8. TypeOK' /\ TlbCurrent' /\ FramesInOrder'
    BY <1>6, <1>7 DEF TreeInv, TypeOK, TlbCurrent, FramesInOrder, FrameContents, Indices
  <1>9. CallAt(frames, next, asked)'
    BY DEF CallAt
  <1>10. QED
    BY <1>7, <1>8, <1>9 DEF TreeInv

LEMMA PageSetKeepsTreeInv ==
  ASSUME TreeInv, NEW page \in HeapPages \cup Mmio, NEW field \in Permissions,
         MmPageSet(page, field) \/ MmPageClear(page, field)
  PROVE  TreeInv'
PROOF
  <1>1. page \in Pages
    <2>1. CASE page \in HeapPages
      BY <2>1, VmmAssumption
    <2>2. CASE page \in Mmio
      <3>1. page \in Frames
        BY <2>2, VmmAssumption DEF Frames
      <3>2. QED
        BY <3>1, VmmAssumption
    <2>3. QED
      BY <2>1, <2>2
  <1>2. call = Idle /\ asked[page] # NoFrame /\ UNCHANGED <<next, call, tlb, asked, owned>>
    BY DEF MmPageSet, MmPageClear
  <1>3. MmGetPagePermissions(page) = granted[page]
    <2>1. Reaches(frames, page) /\ granted[page] = Step1(frames, page).perm
      BY <1>1, <1>2 DEF TreeInv, AsAsked, Walk
    <2>2. QED
      BY <1>1, <2>1, WalksAreSteps DEF MmGetPagePermissions
  <1>4. granted[page] \subseteq Permissions
    BY <1>1 DEF TreeInv, TypeOK
  <1>5. PICK perm \in SUBSET Permissions :
          MmSetPagePermissions(page, perm) /\ granted' = [granted EXCEPT ![page] = perm]
    <2>1. CASE MmPageSet(page, field)
      BY <1>3, <1>4, <2>1 DEF MmPageSet
    <2>2. CASE MmPageClear(page, field)
      BY <1>3, <1>4, <2>2 DEF MmPageClear
    <2>3. QED
      BY <2>1, <2>2
  <1>6. QED
    BY <1>1, <1>2, <1>5, PermissionsKeepTreeInv

\* The processor.
LEMMA TlbKeepsTreeInv ==
  ASSUME TreeInv, NEW page \in CachedPages, TlbFill(page) \/ TlbEvict(page)
  PROVE  TreeInv'
PROOF
  <1>1. page \in Pages
    BY VmmAssumption
  <1>2. UNCHANGED <<frames, next, call, asked, granted, owned>>
    BY DEF TlbFill, TlbEvict
  <1>3. Translate(page) = asked[page] /\ asked[page] \in Frames \cup {NoFrame}
    BY <1>1, WalksAreSteps DEF TreeInv, AsAsked, TypeOK
  <1>4. PICK x \in {NoFrame, asked[page]} : tlb' = [tlb EXCEPT ![page] = x]
    BY <1>3 DEF TlbFill, TlbEvict
  <1>5. TypeOK' /\ TlbCurrent' /\ FramesInOrder'
    BY <1>2, <1>3, <1>4 DEF TreeInv, TypeOK, TlbCurrent, FramesInOrder
  <1>6. QED
    BY <1>2, <1>5 DEF TreeInv, Private, AsAsked, CallAt

LEMMA NextKeepsTreeInv == TreeInv /\ [Next]_vars => TreeInv'
PROOF
  <1>1. SUFFICES ASSUME TreeInv, [Next]_vars PROVE TreeInv'
    OBVIOUS
  <1>2. CASE \E frame \in Mmio : MapDevice(frame)
    BY <1>1, <1>2, MapDeviceKeepsTreeInv
  <1>3. CASE \E page \in HeapPages : MapHeapPage(page)
    BY <1>1, <1>3, MapHeapPageKeepsTreeInv
  <1>4. CASE MmGetIdentityPage
    BY <1>1, <1>4, IdentityPageKeepsTreeInv
  <1>5. CASE Descend
    BY <1>1, <1>5, DescendKeepsTreeInv
  <1>6. CASE DescendNew
    BY <1>1, <1>6, DescendNewKeepsTreeInv
  <1>7. CASE SetEntry
    BY <1>1, <1>7, SetEntryKeepsTreeInv
  <1>8. CASE \E page \in HeapPages \cup Mmio, field \in Permissions :
               MmPageSet(page, field) \/ MmPageClear(page, field)
    BY <1>1, <1>8, PageSetKeepsTreeInv
  <1>9. CASE \E page \in CachedPages : TlbFill(page) \/ TlbEvict(page)
    BY <1>1, <1>9, TlbKeepsTreeInv
  <1>10. CASE UNCHANGED vars
    <2>1. UNCHANGED <<frames, next, call, tlb, asked, granted, owned>>
      BY <1>10 DEF vars
    <2>2. QED
      BY <1>1, <2>1 DEF TreeInv, TypeOK, TlbCurrent, FramesInOrder, Private, AsAsked, CallAt
  <1>11. QED
    BY <1>1, <1>2, <1>3, <1>4, <1>5, <1>6, <1>7, <1>8, <1>9, <1>10 DEF Next, MmMapMemory

-----------------------------------------------------------------------------
(***************************************************************************)
(* The results.                                                            *)
(***************************************************************************)
\* IInv holds in every state MmMapMemory, the permission functions and the
\* processor can reach.
THEOREM Invariance == Spec => []IInv
PROOF
  <1>1. Init => TreeInv
    BY InitTreeInv
  <1>2. TreeInv /\ [Next]_vars => TreeInv'
    BY NextKeepsTreeInv
  <1>3. Spec => []TreeInv
    BY <1>1, <1>2, PTL DEF Spec
  <1>4. QED
    BY <1>3, IInvIsTreeInv, PTL

\* The state has its type: MmMapMemory never writes outside a table, nor asks
\* for a frame there is not.
THEOREM TypeCorrect == Spec => []TypeOK
PROOF
  <1>1. IInv => TypeOK
    BY DEF IInv
  <1>2. QED
    BY <1>1, Invariance, PTL

\* Every table MmMapMemory links is linked once and is nobody else's frame.
THEOREM TablesArePrivate == Spec => []TablesPrivate
PROOF
  <1>1. IInv => TablesPrivate
    BY DEF IInv
  <1>2. QED
    BY <1>1, Invariance, PTL

\* The processor translates exactly what callers of MmMapMemory asked for, at
\* every moment, with the permissions they set.
THEOREM TranslationsAreCorrect == Spec => []TranslationCorrect
PROOF
  <1>1. IInv => TranslationCorrect
    BY DEF IInv
  <1>2. QED
    BY <1>1, Invariance, PTL

\* MmMapMemory may leave the TLB alone: it is never stale.
THEOREM TlbIsCurrent == Spec => []TlbCurrent
PROOF
  <1>1. IInv => TlbCurrent
    BY DEF IInv
  <1>2. QED
    BY <1>1, Invariance, PTL
=============================================================================

------------------------------ MODULE VmProofs ------------------------------
(*****************************************************************************)
(* Proofs about virtual memory, for any number of tasks and pages: page      *)
(* directories never share a page, they implement separate spaces, and every *)
(* heap is mapped, as long as addr_free_page clears no bit of the allocator. *)
(*                                                                           *)
(* In this order: the loops over pages, as runs of turns; the invariant      *)
(* Tree, by which each page has one owner; what a new directory, table or    *)
(* page keeps of it; the relations between two memories (Grown, Rewrites,    *)
(* Filled, Adds, Same) and the loops that stay in them; the system calls;    *)
(* the theorems about disjoint spaces, the refinement, and the heaps.        *)
(*****************************************************************************)
EXTENDS Vm, Loops

-----------------------------------------------------------------------------
(* Loops *)

\* The turns of a loop over the numbers lo .. hi, by its recursion: the one CHOOSE
\* picks, that is.
LEMMA NumbersLemma ==
  ASSUME NEW lo \in Nat, NEW hi \in Int, hi - lo + 1 \in Nat
  PROVE  LET s == Numbers(lo, hi)  n == hi - lo + 1 IN
         /\ DOMAIN s = 1 .. n
         /\ \A i \in 1 .. n : s[i] = lo + i - 1 /\ s[i] \in lo .. hi
         /\ \A i \in 1 .. n : Max(1 .. i) = i /\ 1 .. i \in SUBSET (1 .. n) /\ 1 .. i # {}
                              /\ (1 .. i) \ {i} = 1 .. i - 1
         /\ {} \in SUBSET (1 .. n)
         /\ \A x \in SUBSET (1 .. n) : x # {} =>
              Max(x) \in 1 .. n /\ x \ {Max(x)} \in SUBSET (1 .. n)
<1> DEFINE n == hi - lo + 1
<1>1. DOMAIN Numbers(lo, hi) = 1 .. n /\ \A i \in 1 .. n : Numbers(lo, hi)[i] = lo + i - 1
  BY DEF Numbers
<1>2. \A i \in 1 .. n : lo + i - 1 \in lo .. hi
  OBVIOUS
<1>3. ASSUME NEW i \in 1 .. n
      PROVE  /\ Max(1 .. i) = i /\ 1 .. i \in SUBSET (1 .. n) /\ 1 .. i # {}
             /\ (1 .. i) \ {i} = 1 .. i - 1
  <2>1. i \in 1 .. i /\ i \in Nat /\ \A j \in 1 .. i : j \in 1 .. n
    OBVIOUS
  <2>2. (1 .. i) \ {i} = 1 .. i - 1
    OBVIOUS
  <2>3. 1 .. i \in SUBSET (1 .. i)
    OBVIOUS
  <2> QED
    BY <2>1, <2>2, <2>3, MaxLemma
<1>4. \A x \in SUBSET (1 .. n) : x # {} =>
              Max(x) \in 1 .. n /\ x \ {Max(x)} \in SUBSET (1 .. n)
  BY MaxIn
<1> QED
  BY <1>1, <1>2, <1>3, <1>4

\* The loop of memory_alloc_for_page_dir, turn by turn.
AllocTurns(run, n, V, m, dir, lo, hi) ==
  /\ run \in [0 .. n -> V]
  /\ run[0] = m /\ run[n] = memory_alloc_for_page_dir(m, dir, lo, hi)
  /\ \A i \in 1 .. n : run[i] = AllocPage(run[i - 1], dir, lo + i - 1)

LEMMA AllocRun ==
  ASSUME NEW lo \in Nat, NEW hi \in Int, hi - lo + 1 \in Nat,
         NEW dir, NEW V, NEW m \in V, \A r \in V, v \in lo .. hi : AllocPage(r, dir, v) \in V
  PROVE  \E run : AllocTurns(run, hi - lo + 1, V, m, dir, lo, hi)
<1> DEFINE n == hi - lo + 1
           s == Numbers(lo, hi)
           step == [i \in 1 .. n |-> [r \in V |-> AllocPage(r, dir, s[i])]]
           Solves(fold) == fold = [x \in SUBSET (1 .. n) |->
                                 IF x = {} THEN m ELSE AllocPage(fold[x \ {Max(x)}], dir, s[Max(x)])]
           fold == CHOOSE fold : Solves(fold)
<1>1. /\ DOMAIN s = 1 .. n
      /\ \A i \in 1 .. n : s[i] = lo + i - 1 /\ s[i] \in lo .. hi
      /\ \A i \in 1 .. n : Max(1 .. i) = i /\ 1 .. i \in SUBSET (1 .. n) /\ 1 .. i # {}
                           /\ (1 .. i) \ {i} = 1 .. i - 1
      /\ {} \in SUBSET (1 .. n)
      /\ \A x \in SUBSET (1 .. n) : x # {} =>
           Max(x) \in 1 .. n /\ x \ {Max(x)} \in SUBSET (1 .. n)
  BY NumbersLemma
<1>2. memory_alloc_for_page_dir(m, dir, lo, hi) = fold[1 .. n]
  BY <1>1 DEF memory_alloc_for_page_dir, FoldLeft, MapThenFoldSet
<1> HIDE DEF s
<1>3. step \in [1 .. n -> [V -> V]]
  BY <1>1
<1>4. \A i \in 1 .. n, r \in V : step[i][r] = AllocPage(r, dir, lo + i - 1)
  BY <1>1
<1>5. n \in Nat
  OBVIOUS
<1> HIDE DEF n, step, Solves, fold
<1>6. Solves(fold)
  <2>0. PICK at : at \in [Firsts(n) -> V] /\ at = FoldTurn(at, n, m, step)
    BY <1>3, <1>5, FoldExists
  <2>1. at \in [SUBSET (1 .. n) -> V] /\ at = FoldTurn(at, n, m, step)
    BY <2>0 DEF Firsts
  <2>2. ASSUME NEW x \in SUBSET (1 .. n), x # {}
        PROVE  step[Max(x)][at[x \ {Max(x)}]] = AllocPage(at[x \ {Max(x)}], dir, s[Max(x)])
    BY <1>1, <1>4, <2>1, <2>2
  <2>3. Solves(at)
    BY <2>1, <2>2 DEF FoldTurn, Solves
  <2> QED
    BY <2>3 DEF fold
<1>7. fold[{}] = m
  BY <1>1, <1>6 DEF Solves
<1>8. ASSUME NEW i \in 1 .. n, fold[1 .. i - 1] \in V
      PROVE  fold[1 .. i] = step[i][fold[1 .. i - 1]]
  <2>1. fold[1 .. i] = AllocPage(fold[(1 .. i) \ {i}], dir, s[i])
    BY <1>1, <1>6 DEF Solves
  <2>2. (1 .. i) \ {i} = 1 .. i - 1 /\ s[i] = lo + i - 1
    BY <1>1
  <2>3. step[i][fold[1 .. i - 1]] = AllocPage(fold[1 .. i - 1], dir, lo + i - 1)
    BY <1>4, <1>8
  <2> QED
    BY <2>1, <2>2, <2>3
<1>9. \E run \in [0 .. n -> V] :
        /\ run[0] = m /\ run[n] = fold[1 .. n]
        /\ \A i \in 1 .. n : run[i] = step[i][run[i - 1]]
  BY <1>3, <1>5, <1>7, <1>8, FoldRuns
<1>10. \A run \in [0 .. n -> V] : \A i \in 1 .. n :
         step[i][run[i - 1]] = AllocPage(run[i - 1], dir, lo + i - 1)
  <2>1. \A i \in 1 .. n : i - 1 \in 0 .. n
    BY <1>5
  <2> QED
    BY <1>4, <2>1
<1>11. PICK run \in [0 .. n -> V] :
         /\ run[0] = m /\ run[n] = fold[1 .. n]
         /\ \A i \in 1 .. n : run[i] = step[i][run[i - 1]]
  BY <1>9
<1>12. /\ run[0] = m /\ run[n] = memory_alloc_for_page_dir(m, dir, lo, hi)
       /\ \A i \in 1 .. n : run[i] = AllocPage(run[i - 1], dir, lo + i - 1)
  BY <1>2, <1>10, <1>11
<1> QED
  BY <1>11, <1>12 DEF n, AllocTurns

-----------------------------------------------------------------------------
(* Whose a page is *)

Errors == {"no", "no table", "present", "no page", "undefined"}
Contents == [Phys -> [Entries -> Nat]]
Mems == [mem : Contents, used : SUBSET Phys, err : Errors]

\* The page entry i of the table in entry e of directory d names.
PageAt(w, d, e, i) == LET table == w[d][e] IN IF table = None THEN None ELSE w[table][i]

\* The owner of a page: a directory and a place in it, a table's slot being -1.
\* Pages are exclusive because each has one owner.
Places == Nat \X Nat \X Int
Owners == [Phys -> Places]

KernelOK(w, u) ==
  KernelTable \in u /\ \A i \in Entries : w[KernelTable][i] # None

DirsOK(w, u, own, dirs) ==
  \A d \in dirs : /\ d \in u \ {KernelTable} /\ own[d] = <<d, 0, 0>>
                  /\ w[d][0] = KernelTable

TablesOK(w, u, own, dirs) ==
  \A d \in dirs, e \in Entries \ {0} :
    w[d][e] # None => w[d][e] \in u \ {KernelTable} /\ own[w[d][e]] = <<d, e, -1>>

LeavesOK(w, u, own, dirs) ==
  \A d \in dirs, e \in Entries \ {0}, i \in Entries :
    PageAt(w, d, e, i) # None =>
      PageAt(w, d, e, i) \in u \ {KernelTable} /\ own[PageAt(w, d, e, i)] = <<d, e, i>>

\* The directories of a memory and all they lead to, each page at one place.
Tree(w, u, own, dirs) ==
  KernelOK(w, u) /\ DirsOK(w, u, own, dirs) /\ TablesOK(w, u, own, dirs) /\ LeavesOK(w, u, own, dirs)

\* The pages that are read as directories or tables.
Pointers(w, dirs) ==
  {KernelTable} \union dirs \union {w[de[1]][de[2]] : de \in dirs \X (Entries \ {0})}

LEMMA ConstantsLemma ==
  /\ PageNr \in Nat /\ PageNr >= 3 /\ KernelTable \in Phys /\ None \notin Phys /\ Phys \subseteq Nat
  /\ PDE_CNT \in Nat /\ PDE_CNT >= 2 /\ 0 \in Entries /\ 1 \in Entries
  /\ Entries \subseteq Nat /\ None \in Nat /\ KernelTable # None
BY VmAssumption DEF Phys, Entries, KernelTable, None

\* A memory with the same directories and tables has the same tree.
LEMMA SameTree ==
  ASSUME NEW w \in Contents, NEW u \in SUBSET Phys, NEW own \in Owners, NEW dirs \in SUBSET Phys,
         Tree(w, u, own, dirs), NEW w2 \in Contents, NEW u2 \in SUBSET Phys, u \subseteq u2,
         \A p \in Phys : p \in Pointers(w, dirs) => w2[p] = w[p]
  PROVE  /\ Tree(w2, u2, own, dirs)
         /\ \A d \in dirs, e, i \in Entries : PageAt(w2, d, e, i) = PageAt(w, d, e, i)
<1>1. w2[KernelTable] = w[KernelTable]
  BY ConstantsLemma DEF Pointers
<1>2. \A d \in dirs : w2[d] = w[d]
  BY DEF Pointers
<1>3. \A d \in dirs, e \in Entries \ {0} :
        w[d][e] # None => w[d][e] \in Phys /\ w2[w[d][e]] = w[w[d][e]]
  <2> SUFFICES ASSUME NEW d \in dirs, NEW e \in Entries \ {0}, w[d][e] # None
               PROVE  w[d][e] \in Phys /\ w2[w[d][e]] = w[w[d][e]]
    OBVIOUS
  <2>1. w[d][e] \in Phys
    BY DEF Tree, TablesOK
  <2>2. <<d, e>> \in dirs \X (Entries \ {0}) /\ <<d, e>>[1] = d /\ <<d, e>>[2] = e
    OBVIOUS
  <2>3. w[d][e] \in Pointers(w, dirs)
    BY <2>2 DEF Pointers
  <2> QED
    BY <2>1, <2>3
<1>4. ASSUME NEW d \in dirs, NEW e \in Entries, NEW i \in Entries
      PROVE  PageAt(w2, d, e, i) = PageAt(w, d, e, i)
  <2>1. CASE e = 0
    BY <1>1, <1>2, <2>1 DEF PageAt, Tree, DirsOK
  <2>2. CASE e # 0
    BY <1>2, <1>3, <2>2 DEF PageAt
  <2> QED
    BY <2>1, <2>2
<1>5. KernelOK(w2, u2)
  BY <1>1 DEF Tree, KernelOK
<1>6. DirsOK(w2, u2, own, dirs)
  BY <1>2 DEF Tree, DirsOK
<1>7. TablesOK(w2, u2, own, dirs)
  BY <1>2 DEF Tree, TablesOK
<1>8. LeavesOK(w2, u2, own, dirs)
  BY <1>4 DEF Tree, LeavesOK
<1> QED
  BY <1>4, <1>5, <1>6, <1>7, <1>8 DEF Tree

\* Pages that are read as directories or tables are in use.
LEMMA PointersUsed ==
  ASSUME NEW w \in Contents, NEW u \in SUBSET Phys, NEW own \in Owners, NEW dirs \in SUBSET Phys,
         Tree(w, u, own, dirs), NEW p \in Phys, p \in Pointers(w, dirs)
  PROVE  p \in u
<1>1. CASE p = KernelTable
  BY <1>1 DEF Tree, KernelOK
<1>2. CASE p \in dirs
  BY <1>2 DEF Tree, DirsOK
<1>3. CASE p \notin {KernelTable} \union dirs
  <2>1. PICK d \in dirs, e \in Entries \ {0} : p = w[d][e]
    BY <1>3 DEF Pointers
  <2> QED
    BY <2>1, ConstantsLemma DEF Tree, TablesOK
<1> QED
  BY <1>1, <1>2, <1>3

\* What a mapped page holds is not read as a directory or a table.
LEMMA LeavesAreData ==
  ASSUME NEW w \in Contents, NEW u \in SUBSET Phys, NEW own \in Owners, NEW dirs \in SUBSET Phys,
         Tree(w, u, own, dirs), NEW d \in dirs, NEW e \in Entries \ {0}, NEW i \in Entries,
         PageAt(w, d, e, i) # None
  PROVE  PageAt(w, d, e, i) \in Phys /\ PageAt(w, d, e, i) \notin Pointers(w, dirs)
<1> DEFINE p == PageAt(w, d, e, i)
<1>1. p \in u \ {KernelTable} /\ own[p] = <<d, e, i>> /\ e # 0 /\ i # -1
  BY ConstantsLemma DEF Tree, LeavesOK
<1>2. p \notin dirs
  BY <1>1 DEF Tree, DirsOK
<1>3. \A d2 \in dirs, e2 \in Entries \ {0} : p # w[d2][e2]
  BY <1>1, ConstantsLemma DEF Tree, TablesOK
<1> HIDE DEF p
<1> QED
  BY <1>1, <1>2, <1>3 DEF Pointers, p

\* What is written into pages: a directory with the kernel's entry, a new table in
\* entry e of a directory, a page in entry i of a table.
ClearDir(w, p) == [w EXCEPT ![p] = [e \in Entries |-> IF e = 0 THEN KernelTable ELSE None]]
EnterTable(w, dir, e, t) == [w EXCEPT ![t] = [i \in Entries |-> None], ![dir][e] = t]
EnterPage(w, t, i, p) == [w EXCEPT ![t][i] = p]

\* A free page may get any owner.
LEMMA OwnFree ==
  ASSUME NEW w \in Contents, NEW u \in SUBSET Phys, NEW own \in Owners, NEW dirs \in SUBSET Phys,
         Tree(w, u, own, dirs), NEW p \in Phys, p \notin u, NEW o \in Places,
         NEW u2 \in SUBSET Phys, u \subseteq u2
  PROVE  /\ \E own2 \in Owners : /\ own2[p] = o /\ \A q \in Phys : q # p => own2[q] = own[q]
                                /\ Tree(w, u2, own2, dirs)
         /\ p # KernelTable /\ p \notin dirs /\ p \notin Pointers(w, dirs)
<1> DEFINE own2 == [q \in Phys |-> IF q = p THEN o ELSE own[q]]
<1>1. own2 \in Owners /\ own2[p] = o /\ (\A q \in Phys : q # p => own2[q] = own[q])
      /\ \A q \in u : own2[q] = own[q]
  BY DEF Owners
<1> HIDE DEF own2
<1>2. KernelOK(w, u2)
  BY DEF Tree, KernelOK
<1>3. DirsOK(w, u2, own2, dirs)
  BY <1>1 DEF Tree, DirsOK
<1>4. TablesOK(w, u2, own2, dirs)
  BY <1>1 DEF Tree, TablesOK
<1>5. LeavesOK(w, u2, own2, dirs)
  BY <1>1 DEF Tree, LeavesOK
<1>6. p \notin Pointers(w, dirs)
  BY PointersUsed
<1>7. Tree(w, u2, own2, dirs)
  BY <1>2, <1>3, <1>4, <1>5 DEF Tree
<1>8. \E f \in Owners : /\ f[p] = o /\ \A q \in Phys : q # p => f[q] = own[q]
                       /\ Tree(w, u2, f, dirs)
  BY <1>1, <1>7
<1> QED
  BY <1>6, <1>8, ConstantsLemma DEF Pointers

\* w2 is w with p as a directory that maps nothing.
AddsDirectory(w, w2, u2, dirs, p) ==
  /\ w2 \in Contents
  /\ \E own \in Owners : Tree(w2, u2, own, dirs \union {p})
  /\ \A d \in dirs, e, i \in Entries : PageAt(w2, d, e, i) = PageAt(w, d, e, i)
  /\ \A e \in Entries \ {0}, i \in Entries : PageAt(w2, p, e, i) = None
  /\ \A q \in Phys \ {p} : w2[q] = w[q]

\* A page that gets the kernel's entries, and nobody's, is a directory.
LEMMA NewDir ==
  ASSUME NEW w \in Contents, NEW u \in SUBSET Phys, NEW own \in Owners, NEW dirs \in SUBSET Phys,
         Tree(w, u, own, dirs), NEW p \in Phys, p \notin u
  PROVE  AddsDirectory(w, ClearDir(w, p), u \union {p}, dirs, p)
<1> DEFINE w2   == ClearDir(w, p)
           u2   == u \union {p}
<1>0. <<p, 0, 0>> \in Places /\ u2 \in SUBSET Phys /\ u \subseteq u2
  BY ConstantsLemma DEF Places
<1> HIDE DEF u2
<1>a. /\ \E own2 \in Owners : /\ own2[p] = <<p, 0, 0>> /\ \A q \in Phys : q # p => own2[q] = own[q]
                             /\ Tree(w, u2, own2, dirs)
      /\ p # KernelTable /\ p \notin dirs /\ p \notin Pointers(w, dirs)
  BY <1>0, OwnFree
<1>b. PICK own2 \in Owners : /\ own2[p] = <<p, 0, 0>> /\ \A q \in Phys : q # p => own2[q] = own[q]
                            /\ Tree(w, u2, own2, dirs)
  BY <1>a
<1>1. own2 \in Owners /\ own2[p] = <<p, 0, 0>> /\ Tree(w, u2, own2, dirs)
      /\ p # KernelTable /\ p \notin dirs /\ p \notin Pointers(w, dirs) /\ u2 \in SUBSET Phys
  BY <1>0, <1>a, <1>b
<1>2. /\ w2 \in Contents /\ w2[p][0] = KernelTable
      /\ \A e \in Entries \ {0} : w2[p][e] = None
      /\ \A q \in Phys \ {p} : w2[q] = w[q]
  BY ConstantsLemma DEF Contents, ClearDir
<1> HIDE DEF w2
<1>3. Tree(w2, u2, own2, dirs) /\ \A d \in dirs, e, i \in Entries : PageAt(w2, d, e, i) = PageAt(w, d, e, i)
  <2>1. \A q \in Phys : q \in Pointers(w, dirs) => w2[q] = w[q]
    BY <1>1, <1>2
  <2> QED
    BY <1>1, <1>2, <2>1, SameTree
<1>4. \A e \in Entries \ {0}, i \in Entries : PageAt(w2, p, e, i) = None
  BY <1>2 DEF PageAt
<1>5. KernelOK(w2, u2)
  BY <1>3 DEF Tree
<1>6. DirsOK(w2, u2, own2, dirs \union {p})
  BY <1>1, <1>2, <1>3 DEF Tree, DirsOK, u2
<1>7. TablesOK(w2, u2, own2, dirs \union {p})
  BY <1>2, <1>3 DEF Tree, TablesOK
<1>8. LeavesOK(w2, u2, own2, dirs \union {p})
  BY <1>3, <1>4 DEF Tree, LeavesOK
<1>9. Tree(w2, u2, own2, dirs \union {p})
  BY <1>5, <1>6, <1>7, <1>8 DEF Tree
<1>10. \E o \in Owners : Tree(w2, u2, o, dirs \union {p})
  BY <1>1, <1>9
<1> QED
  BY <1>2, <1>3, <1>4, <1>10 DEF w2, u2, AddsDirectory

\* w2 is w with p as the table of an entry, which maps nothing.
AddsTable(w, w2, u2, dirs, dir, e, p) ==
  /\ w2 \in Contents /\ \E own \in Owners : Tree(w2, u2, own, dirs)
  /\ w2[dir][e] = p /\ \A i \in Entries : w2[p][i] = None
  /\ \A d \in dirs, f, i \in Entries : PageAt(w2, d, f, i) = PageAt(w, d, f, i)
  /\ \A q \in Phys \ {dir, p} : w2[q] = w[q]

\* A cleared page becomes the table of an entry without one.
LEMMA NewTable ==
  ASSUME NEW w \in Contents, NEW u \in SUBSET Phys, NEW own \in Owners, NEW dirs \in SUBSET Phys,
         Tree(w, u, own, dirs), NEW p \in Phys, p \notin u, NEW dir \in dirs, NEW e \in Entries, e # 0,
         w[dir][e] = None, NEW u2, u2 = u \union {p}
  PROVE  AddsTable(w, EnterTable(w, dir, e, p), u2, dirs, dir, e, p)
<1> DEFINE w2   == EnterTable(w, dir, e, p)
           o    == <<dir, e, -1>>
<1>0. o \in Places
  BY ConstantsLemma DEF Places
<1> HIDE DEF o
<1>a. /\ \E own2 \in Owners : /\ own2[p] = o /\ \A q \in Phys : q # p => own2[q] = own[q]
                             /\ Tree(w, u2, own2, dirs)
      /\ p # KernelTable /\ p \notin dirs /\ p \notin Pointers(w, dirs)
  BY <1>0, OwnFree
<1>b. PICK own2 \in Owners : own2[p] = o /\ Tree(w, u2, own2, dirs)
  BY <1>a
<1>1. own2 \in Owners /\ own2[p] = <<dir, e, -1>> /\ Tree(w, u2, own2, dirs)
      /\ p # KernelTable /\ p \notin dirs /\ p \notin Pointers(w, dirs) /\ u2 \in SUBSET Phys
  BY <1>0, <1>a, <1>b DEF o
<1>2. dir \in Phys /\ dir # p /\ dir # KernelTable
  BY <1>1 DEF Tree, DirsOK
<1>3. /\ w2 \in Contents /\ w2[dir][e] = p /\ \A i \in Entries : w2[p][i] = None
      /\ \A f \in Entries \ {e} : w2[dir][f] = w[dir][f]
      /\ \A q \in Phys \ {dir, p} : w2[q] = w[q]
  BY <1>2, ConstantsLemma DEF Contents, EnterTable
<1> HIDE DEF w2
<1>4. \A d \in dirs, f \in Entries : (d # dir \/ f # e) => w2[d][f] = w[d][f]
  BY <1>1, <1>3
<1>5. ASSUME NEW d \in dirs, NEW f \in Entries \ {0}, d # dir \/ f # e, w[d][f] # None
      PROVE  w2[w[d][f]] = w[w[d][f]]
  <2>1. w[d][f] \in Phys /\ own2[w[d][f]] = <<d, f, -1>>
    BY <1>1, <1>5 DEF Tree, TablesOK
  <2>2. own2[dir] = <<dir, 0, 0>> /\ own2[p] = <<dir, e, -1>>
    BY <1>1 DEF Tree, DirsOK
  <2>3. w[d][f] # dir /\ w[d][f] # p
    BY <1>5, <2>1, <2>2
  <2> QED
    BY <1>3, <2>1, <2>3
<1>6. w2[KernelTable] = w[KernelTable]
  BY <1>1, <1>2, <1>3, ConstantsLemma
<1>7. ASSUME NEW d \in dirs, NEW f \in Entries, NEW i \in Entries
      PROVE  PageAt(w2, d, f, i) = PageAt(w, d, f, i)
  <2>1. CASE f = 0
    <3>1. w2[d][0] = w[d][0] /\ w[d][0] = KernelTable
      BY <1>1, <1>4, ConstantsLemma DEF Tree, DirsOK
    <3> QED
      BY <1>6, <2>1, <3>1 DEF PageAt
  <2>2. CASE f # 0 /\ (d # dir \/ f # e)
    BY <1>4, <1>5, <2>2 DEF PageAt
  <2>3. CASE d = dir /\ f = e
    BY <1>3, <2>3 DEF PageAt
  <2> QED
    BY <2>1, <2>2, <2>3
<1>8. KernelOK(w2, u2)
  BY <1>1, <1>6 DEF Tree, KernelOK
<1>9. DirsOK(w2, u2, own2, dirs)
  BY <1>1, <1>4, ConstantsLemma DEF Tree, DirsOK
<1>10. TablesOK(w2, u2, own2, dirs)
  <2> SUFFICES ASSUME NEW d \in dirs, NEW f \in Entries \ {0}, w2[d][f] # None
               PROVE  w2[d][f] \in u2 \ {KernelTable} /\ own2[w2[d][f]] = <<d, f, -1>>
    BY DEF TablesOK
  <2>1. CASE d = dir /\ f = e
    BY <1>1, <1>3, <2>1
  <2>2. CASE d # dir \/ f # e
    BY <1>1, <1>4, <2>2 DEF Tree, TablesOK
  <2> QED
    BY <2>1, <2>2
<1>11. LeavesOK(w2, u2, own2, dirs)
  BY <1>1, <1>7 DEF Tree, LeavesOK
<1>12. Tree(w2, u2, own2, dirs)
  BY <1>8, <1>9, <1>10, <1>11 DEF Tree
<1>13. \E f \in Owners : Tree(w2, u2, f, dirs)
  BY <1>12
<1> QED
  BY <1>3, <1>7, <1>13 DEF w2, AddsTable

\* A page that has its owner by now is entered into the table of its place.
LEMMA NewLeaf ==
  ASSUME NEW w \in Contents, NEW u \in SUBSET Phys, NEW own \in Owners, NEW dirs \in SUBSET Phys,
         Tree(w, u, own, dirs), NEW dir \in dirs, NEW e \in Entries, e # 0, NEW i \in Entries,
         NEW p \in u, p # KernelTable, own[p] = <<dir, e, i>>,
         w[dir][e] # None, PageAt(w, dir, e, i) = None
  PROVE  LET w2 == EnterPage(w, w[dir][e], i, p) IN
         /\ w2 \in Contents /\ Tree(w2, u, own, dirs)
         /\ PageAt(w2, dir, e, i) = p
         /\ \A d \in dirs, f, j \in Entries : <<d, f, j>> # <<dir, e, i>> =>
              PageAt(w2, d, f, j) = PageAt(w, d, f, j)
         /\ \A q \in Phys \ {w[dir][e]} : w2[q] = w[q]
<1> DEFINE w2 == EnterPage(w, w[dir][e], i, p)
<1>1. /\ w[dir][e] \in Phys \ {KernelTable} /\ own[w[dir][e]] = <<dir, e, -1>>
      /\ w[dir][e] \notin dirs /\ dir \in Phys
  BY ConstantsLemma DEF Tree, TablesOK, DirsOK
<1>2. /\ w2 \in Contents /\ w2[w[dir][e]][i] = p
      /\ \A j \in Entries \ {i} : w2[w[dir][e]][j] = w[w[dir][e]][j]
      /\ \A q \in Phys \ {w[dir][e]} : w2[q] = w[q]
  BY <1>1, ConstantsLemma DEF Contents, EnterPage
<1> HIDE DEF w2
<1>3. \A d \in dirs : w2[d] = w[d]
  BY <1>1, <1>2
<1>4. w2[KernelTable] = w[KernelTable]
  BY <1>1, <1>2, ConstantsLemma
<1>5. ASSUME NEW d \in dirs, NEW f \in Entries \ {0}, d # dir \/ f # e, w[d][f] # None
      PROVE  w2[w[d][f]] = w[w[d][f]]
  <2>1. w[d][f] \in Phys /\ own[w[d][f]] = <<d, f, -1>>
    BY <1>5 DEF Tree, TablesOK
  <2>2. w[d][f] # w[dir][e]
    BY <1>1, <1>5, <2>1
  <2> QED
    BY <1>2, <2>1, <2>2
<1>6. PageAt(w2, dir, e, i) = p
  BY <1>2, <1>3 DEF PageAt
<1>7. ASSUME NEW d \in dirs, NEW f \in Entries, NEW j \in Entries, <<d, f, j>> # <<dir, e, i>>
      PROVE  PageAt(w2, d, f, j) = PageAt(w, d, f, j)
  <2>1. CASE f = 0
    BY <1>3, <1>4, <2>1 DEF PageAt, Tree, DirsOK
  <2>2. CASE f # 0 /\ (d # dir \/ f # e)
    BY <1>3, <1>5, <2>2 DEF PageAt
  <2>3. CASE d = dir /\ f = e /\ j # i
    BY <1>2, <1>3, <2>3 DEF PageAt
  <2> QED
    BY <1>7, <2>1, <2>2, <2>3
<1>8. KernelOK(w2, u)
  BY <1>4 DEF Tree, KernelOK
<1>9. DirsOK(w2, u, own, dirs)
  BY <1>3 DEF Tree, DirsOK
<1>10. TablesOK(w2, u, own, dirs)
  BY <1>3 DEF Tree, TablesOK
<1>11. LeavesOK(w2, u, own, dirs)
  <2> SUFFICES ASSUME NEW d \in dirs, NEW f \in Entries \ {0}, NEW j \in Entries,
                      PageAt(w2, d, f, j) # None
               PROVE  PageAt(w2, d, f, j) \in u \ {KernelTable} /\ own[PageAt(w2, d, f, j)] = <<d, f, j>>
    BY DEF LeavesOK
  <2>1. CASE <<d, f, j>> = <<dir, e, i>>
    <3>1. d = dir /\ f = e /\ j = i
      BY <2>1
    <3> QED
      BY <1>6, <3>1
  <2>2. CASE <<d, f, j>> # <<dir, e, i>>
    BY <1>7, <2>2 DEF Tree, LeavesOK
  <2> QED
    BY <2>1, <2>2
<1>12. Tree(w2, u, own, dirs)
  BY <1>8, <1>9, <1>10, <1>11 DEF Tree
<1> QED
  BY <1>2, <1>6, <1>7, <1>12 DEF w2

-----------------------------------------------------------------------------
(* Allocating and mapping a page *)

AllPages == 0 .. PDE_CNT * PDE_CNT - 1

LEMMA IndexLemma ==
  ASSUME NEW v \in AllPages
  PROVE  /\ pde_index(v) \in Entries /\ pte_index(v) \in Entries
         /\ v = pde_index(v) * PDE_CNT + pte_index(v)
         /\ pde_index(v) # 0 <=> v \in UserPages
<1> DEFINE e == v \div PDE_CNT
           i == v % PDE_CNT
<1>1. v \in Nat /\ v < PDE_CNT * PDE_CNT /\ PDE_CNT \in Nat /\ PDE_CNT > 0
  BY ConstantsLemma DEF AllPages
<1>2. e \in Int /\ i \in 0 .. PDE_CNT - 1 /\ v = PDE_CNT * e + i
  BY <1>1
<1> HIDE DEF e, i
<1>3. e >= 0
  <2>1. CASE e < 0
    <3>1. PDE_CNT * e <= PDE_CNT * (-1)
      BY <1>1, <1>2, <2>1
    <3> QED
      BY <1>1, <1>2, <3>1
  <2> QED
    BY <1>2, <2>1
<1>4. e < PDE_CNT
  <2>1. CASE e >= PDE_CNT
    <3>1. PDE_CNT * e >= PDE_CNT * PDE_CNT
      BY <1>1, <1>2, <2>1
    <3> QED
      BY <1>1, <1>2, <3>1
  <2> QED
    BY <1>1, <1>2, <2>1
<1>5. e # 0 <=> v >= PDE_CNT
  <2>1. CASE e >= 1
    <3>1. PDE_CNT * e >= PDE_CNT * 1
      BY <1>1, <1>2, <2>1
    <3> QED
      BY <1>1, <1>2, <2>1, <3>1
  <2>2. CASE e = 0
    BY <1>1, <1>2, <2>2
  <2> QED
    BY <1>2, <1>3, <2>1, <2>2
<1>6. v = e * PDE_CNT + i
  BY <1>1, <1>2
<1> QED
  BY <1>1, <1>2, <1>3, <1>4, <1>5, <1>6 DEF pde_index, pte_index, Entries, UserPages, e, i

LEMMA PlacesDiffer ==
  ASSUME NEW v \in AllPages, NEW x \in AllPages, v # x
  PROVE  <<pde_index(v), pte_index(v)>> # <<pde_index(x), pte_index(x)>>
<1>1. pde_index(v) # pde_index(x) \/ pte_index(v) # pte_index(x)
  BY IndexLemma
<1> QED
  BY <1>1

\* addr_alloc_page takes a free page, if there is one.
LEMMA AllocLemma ==
  ASSUME NEW m \in Mems
  PROVE  /\ FreePages(m) = {} => addr_alloc_page(m) = None
         /\ FreePages(m) # {} => addr_alloc_page(m) \in Phys \ m.used
         /\ addr_alloc_page(m) # None => addr_alloc_page(m) \in Phys \ m.used
<1>1. ASSUME FreePages(m) # {}
      PROVE  Min(FreePages(m)) \in Phys \ m.used
  <2>1. FreePages(m) \in SUBSET Nat /\ FreePages(m) \subseteq Phys \ m.used
    BY ConstantsLemma DEF FreePages
  <2>2. PICK p \in FreePages(m) : \A q \in FreePages(m) : p <= q
    BY <1>1, <2>1, LeastLemma
  <2>3. Min(FreePages(m)) \in FreePages(m)
    BY <2>2 DEF Min
  <2> QED
    BY <2>1, <2>3
<1> QED
  BY <1>1, ConstantsLemma DEF addr_alloc_page

\* The pages mapped in the directories hold in q what they held in m.
Keeps(m, q, dirs) ==
  \A d \in dirs, v \in UserPages :
    PageOf(m.mem, d, v) # None => q.mem[PageOf(m.mem, d, v)] = m.mem[PageOf(m.mem, d, v)]

\* q is m with pages added to the tree: the pages lo .. hi of dir may have been
\* mapped, if they were not, and nothing else has changed that a task can see.
Grown(m, q, dirs, dir, lo, hi) ==
  /\ q \in Mems /\ m.used \subseteq q.used /\ (Ok(q) => Ok(m))
  /\ \E own \in Owners : Tree(q.mem, q.used, own, dirs)
  /\ \A d \in dirs, v \in AllPages :
       d # dir \/ v \notin lo .. hi \/ PageOf(m.mem, d, v) # None
         => PageOf(q.mem, d, v) = PageOf(m.mem, d, v)
  /\ Keeps(m, q, dirs)

\* Taking a page that nobody has changes nothing.
LEMMA TakeGrows ==
  ASSUME NEW m \in Mems, NEW own \in Owners, NEW dirs \in SUBSET Phys,
         Tree(m.mem, m.used, own, dirs), NEW q \in Mems, q.mem = m.mem, m.used \subseteq q.used,
         Ok(q) => Ok(m), NEW dir, NEW lo, NEW hi
  PROVE  Grown(m, q, dirs, dir, lo, hi)
<1>1. m.mem \in Contents /\ q.mem \in Contents /\ m.used \in SUBSET Phys /\ q.used \in SUBSET Phys
  BY DEF Mems
<1>2. Tree(q.mem, q.used, own, dirs)
  BY <1>1, SameTree
<1>3. Keeps(m, q, dirs)
  BY DEF Keeps
<1> QED
  BY <1>2, <1>3 DEF Grown

\* The same over the entries of a directory.
LEMMA GrownByEntries ==
  ASSUME NEW m \in Mems, NEW q \in Mems, NEW own \in Owners, NEW own2 \in Owners, NEW dirs \in SUBSET Phys,
         NEW dir \in dirs, NEW v \in AllPages,
         Tree(m.mem, m.used, own, dirs), Tree(q.mem, q.used, own2, dirs),
         m.used \subseteq q.used, Ok(q) => Ok(m),
         \A d \in dirs, f, j \in Entries : <<d, f, j>> # <<dir, pde_index(v), pte_index(v)>> =>
           PageAt(q.mem, d, f, j) = PageAt(m.mem, d, f, j),
         PageOf(m.mem, dir, v) = None,
         \A x \in m.used : x \notin Pointers(m.mem, dirs) => q.mem[x] = m.mem[x]
  PROVE  Grown(m, q, dirs, dir, v, v)
<1>1. v \in v .. v
  BY DEF AllPages
<1>2. ASSUME NEW d \in dirs, NEW x \in AllPages,
             d # dir \/ x \notin v .. v \/ PageOf(m.mem, d, x) # None
      PROVE  PageOf(q.mem, d, x) = PageOf(m.mem, d, x)
  <2>1. d # dir \/ x # v
    BY <1>1, <1>2
  <2>2. <<d, pde_index(x), pte_index(x)>> # <<dir, pde_index(v), pte_index(v)>>
    BY <2>1, PlacesDiffer
  <2> QED
    BY <2>2, IndexLemma DEF PageOf, PageAt
<1>3. ASSUME NEW d \in dirs, NEW x \in UserPages, PageOf(m.mem, d, x) # None
      PROVE  q.mem[PageOf(m.mem, d, x)] = m.mem[PageOf(m.mem, d, x)]
  <2>1. x \in AllPages
    BY ConstantsLemma DEF UserPages, AllPages
  <2>2. pde_index(x) \in Entries \ {0} /\ pte_index(x) \in Entries
    BY <2>1, IndexLemma, ConstantsLemma
  <2>3. PageOf(m.mem, d, x) = PageAt(m.mem, d, pde_index(x), pte_index(x))
    BY DEF PageOf, PageAt
  <2>4. m.mem \in Contents /\ m.used \in SUBSET Phys
    BY DEF Mems
  <2>5. PageOf(m.mem, d, x) \notin Pointers(m.mem, dirs)
    BY <1>3, <2>2, <2>3, <2>4, LeavesAreData
  <2>6. PageOf(m.mem, d, x) \in m.used
    BY <1>3, <2>2, <2>3 DEF Tree, LeavesOK
  <2> QED
    BY <2>5, <2>6
<1> QED
  BY <1>2, <1>3 DEF Grown, Keeps

\* w2 is w with p entered at a place that was empty, and nothing else that is
\* mapped has changed.
EntersOne(w, u, w2, u2, dirs, dir, e, i, p) ==
  /\ w2 \in Contents /\ \E own \in Owners : Tree(w2, u2, own, dirs)
  /\ PageAt(w2, dir, e, i) = p
  /\ \A d \in dirs, f, j \in Entries : <<d, f, j>> # <<dir, e, i>> =>
       PageAt(w2, d, f, j) = PageAt(w, d, f, j)
  /\ \A x \in u : x \notin Pointers(w, dirs) => w2[x] = w[x]

\* A free page is entered into a table that is there ...
LEMMA MapInTable ==
  ASSUME NEW w \in Contents, NEW u \in SUBSET Phys, NEW own \in Owners, NEW dirs \in SUBSET Phys,
         Tree(w, u, own, dirs), NEW dir \in dirs, NEW e \in Entries, e # 0, NEW i \in Entries,
         NEW p \in Phys, p \notin u, w[dir][e] # None, w[w[dir][e]][i] = None,
         NEW u2, u2 = u \union {p}
  PROVE  EntersOne(w, u, EnterPage(w, w[dir][e], i, p), u2, dirs, dir, e, i, p)
<1> DEFINE o  == <<dir, e, i>>
           w2 == EnterPage(w, w[dir][e], i, p)
<1>1. u2 \in SUBSET Phys /\ u \subseteq u2 /\ p \in u2
  OBVIOUS
<1>o. o \in Places
  BY ConstantsLemma DEF Places
<1> HIDE DEF o
<1>2. /\ \E own2 \in Owners : /\ own2[p] = o /\ \A x \in Phys : x # p => own2[x] = own[x]
                             /\ Tree(w, u2, own2, dirs)
      /\ p # KernelTable /\ p \notin dirs /\ p \notin Pointers(w, dirs)
  BY <1>1, <1>o, OwnFree
<1>3. PICK own2 \in Owners : own2[p] = o /\ Tree(w, u2, own2, dirs)
  BY <1>2
<1>4. PageAt(w, dir, e, i) = None
  BY DEF PageAt
<1>5. /\ w2 \in Contents /\ Tree(w2, u2, own2, dirs)
      /\ PageAt(w2, dir, e, i) = p
      /\ \A d \in dirs, f, j \in Entries : <<d, f, j>> # <<dir, e, i>> =>
           PageAt(w2, d, f, j) = PageAt(w, d, f, j)
      /\ \A x \in Phys \ {w[dir][e]} : w2[x] = w[x]
  BY <1>1, <1>2, <1>3, <1>4, NewLeaf DEF o
<1>6. w[dir][e] \in Pointers(w, dirs)
  <2>1. <<dir, e>> \in dirs \X (Entries \ {0}) /\ <<dir, e>>[1] = dir /\ <<dir, e>>[2] = e
    OBVIOUS
  <2> QED
    BY <2>1 DEF Pointers
<1> HIDE DEF w2
<1>7. \A x \in u : x \notin Pointers(w, dirs) => w2[x] = w[x]
  BY <1>5, <1>6
<1>8. \E f \in Owners : Tree(w2, u2, f, dirs)
  BY <1>5
<1>9. EntersOne(w, u, w2, u2, dirs, dir, e, i, p)
  BY <1>5, <1>7, <1>8 DEF EntersOne
<1> QED
  BY <1>9 DEF w2

\* ... or into one that is allocated for it.
LEMMA MapInNewTable ==
  ASSUME NEW w \in Contents, NEW u \in SUBSET Phys, NEW own \in Owners, NEW dirs \in SUBSET Phys,
         Tree(w, u, own, dirs), NEW dir \in dirs, NEW e \in Entries, e # 0, NEW i \in Entries,
         NEW p \in Phys, p \notin u, NEW t \in Phys, t \notin u, t # p, w[dir][e] = None,
         NEW u3, u3 = u \union {p, t}
  PROVE  /\ EnterTable(w, dir, e, t)[dir][e] = t /\ EnterTable(w, dir, e, t)[t][i] = None
         /\ EntersOne(w, u, EnterPage(EnterTable(w, dir, e, t), t, i, p), u3, dirs, dir, e, i, p)
<1> DEFINE u1 == u \union {t}
           w1 == EnterTable(w, dir, e, t)
           w2 == EnterPage(w1, t, i, p)
<1>1. /\ w1 \in Contents
      /\ \E own1 \in Owners : Tree(w1, u1, own1, dirs)
      /\ w1[dir][e] = t /\ \A x \in Entries : w1[t][x] = None
      /\ \A d \in dirs, f, x \in Entries : PageAt(w1, d, f, x) = PageAt(w, d, f, x)
      /\ \A q \in Phys \ {dir, t} : w1[q] = w[q]
  <2>1. u1 = u \union {t}
    OBVIOUS
  <2> HIDE DEF u1
  <2>2. AddsTable(w, EnterTable(w, dir, e, t), u1, dirs, dir, e, t)
    BY <2>1, NewTable
  <2> QED
    BY <2>2 DEF AddsTable
<1>2. PICK own1 \in Owners : Tree(w1, u1, own1, dirs)
  BY <1>1
<1>3. /\ u1 \in SUBSET Phys /\ p \notin u1 /\ w1[dir][e] # None /\ w1[w1[dir][e]][i] = None
      /\ u3 = u1 \union {p} /\ u \subseteq u1
  BY <1>1, ConstantsLemma
<1>4. w2 = EnterPage(w1, w1[dir][e], i, p)
  BY <1>1
<1>5. dir \in Phys /\ dir \in Pointers(w, dirs)
  BY DEF Pointers
<1> HIDE DEF w1, u1, w2
<1>6. EntersOne(w1, u1, EnterPage(w1, w1[dir][e], i, p), u3, dirs, dir, e, i, p)
  BY <1>1, <1>2, <1>3, MapInTable
<1>7. EntersOne(w1, u1, w2, u3, dirs, dir, e, i, p)
  BY <1>4, <1>6
<1>8. \A x \in Phys \ {t} : w2[x] = w1[x]
  BY <1>1 DEF EnterPage, Contents, w2
<1>9. \A x \in u : x \notin Pointers(w, dirs) => w2[x] = w[x]
  BY <1>1, <1>5, <1>8
<1>10. \A d \in dirs, f, j \in Entries : <<d, f, j>> # <<dir, e, i>> =>
        PageAt(w2, d, f, j) = PageAt(w, d, f, j)
  BY <1>1, <1>7 DEF EntersOne
<1>11. EntersOne(w, u, w2, u3, dirs, dir, e, i, p)
  BY <1>7, <1>9, <1>10 DEF EntersOne
<1> QED
  BY <1>1, <1>11 DEF w1, w2

\* memory_create_map with a free page: the page is mapped there, in a new table if
\* need be, or nothing is, and that is an error.
LEMMA MapLemma ==
  ASSUME NEW m \in Mems, NEW own \in Owners, NEW dirs \in SUBSET Phys,
         Tree(m.mem, m.used, own, dirs), Ok(m), NEW dir \in dirs, NEW v \in AllPages,
         NEW p \in Phys, p \notin m.used
  PROVE  LET q == memory_create_map(Take(m, p), dir, v, p) IN
         /\ Grown(m, q, dirs, dir, v, v)
         /\ Ok(q) => PageOf(m.mem, dir, v) = None /\ PageOf(q.mem, dir, v) = p
<1> DEFINE e == pde_index(v)
           i == pte_index(v)
           w == m.mem
           u == m.used
           u2 == u \union {p}
           r == [mem |-> w, used |-> u2, err |-> "no"]
           q == memory_create_map(r, dir, v, p)
<1>1. e \in Entries /\ i \in Entries
  BY IndexLemma
<1>2. w \in Contents /\ u \in SUBSET Phys /\ m = [mem |-> w, used |-> u, err |-> "no"]
  BY DEF Mems, Ok
<1>3. Take(m, p) = r
  BY <1>2 DEF Take
<1>4. SUFFICES /\ Grown(m, q, dirs, dir, v, v)
               /\ Ok(q) => PageOf(w, dir, v) = None /\ PageOf(q.mem, dir, v) = p
  BY <1>3
<1>5. r \in Mems /\ u2 \in SUBSET Phys /\ u \subseteq u2 /\ r.mem = w /\ r.used = u2 /\ r.err = "no"
  BY <1>2 DEF Mems, Errors
<1>6. PageOf(w, dir, v) = PageAt(w, dir, e, i)
  BY DEF PageOf, PageAt
<1>7. Tree(w, u, own, dirs)
  OBVIOUS
<1> HIDE DEF e, i, w, u, u2, r
<1>8. ASSUME q \in Mems, q.mem = w, u \subseteq q.used, ~Ok(q)
      PROVE  Grown(m, q, dirs, dir, v, v)
  <2> HIDE DEF q
  <2> QED
    BY <1>8, TakeGrows DEF w, u
<1>9. ASSUME NEW w2, NEW u3 \in SUBSET Phys, u \subseteq u3,
             q = [mem |-> w2, used |-> u3, err |-> "no"],
             EntersOne(w, u, w2, u3, dirs, dir, e, i, p), PageAt(w, dir, e, i) = None
      PROVE  Grown(m, q, dirs, dir, v, v) /\ PageOf(w, dir, v) = None /\ PageOf(q.mem, dir, v) = p
  <2>1. w2 \in Contents /\ PageAt(w2, dir, e, i) = p
    BY <1>9 DEF EntersOne
  <2>2. PICK own2 \in Owners : Tree(w2, u3, own2, dirs)
    BY <1>9 DEF EntersOne
  <2>3. q.mem = w2 /\ q.used = u3 /\ q.err = "no"
    BY <1>9
  <2>4. q \in Mems /\ Ok(q)
    BY <1>9, <2>1, <2>3 DEF Mems, Errors, Ok
  <2>5. /\ \A d \in dirs, f, j \in Entries : <<d, f, j>> # <<dir, e, i>> =>
             PageAt(w2, d, f, j) = PageAt(w, d, f, j)
        /\ \A x \in u : x \notin Pointers(w, dirs) => w2[x] = w[x]
    BY <1>9 DEF EntersOne
  <2> HIDE DEF q
  <2>6. Grown(m, q, dirs, dir, v, v)
    BY <1>6, <1>7, <1>9, <2>2, <2>3, <2>4, <2>5, GrownByEntries DEF e, i, w, u
  <2> QED
    BY <1>6, <1>9, <2>1, <2>3, <2>6 DEF PageOf, PageAt, e, i
<1>10. CASE w[dir][e] # None
  <2>1. WithTable(r, dir, v) = r
    BY <1>5, <1>10 DEF WithTable, e
  <2>2. PageAt(w, dir, e, i) = w[w[dir][e]][i]
    BY <1>10 DEF PageAt
  <2>3. CASE w[w[dir][e]][i] # None
    <3>1. q = [r EXCEPT !.err = "present"]
      BY <1>5, <2>1, <2>3 DEF memory_create_map, Ok, e, i
    <3>2. q \in Mems /\ q.mem = w /\ u \subseteq q.used /\ ~Ok(q)
      BY <1>5, <3>1 DEF Mems, Errors, Ok
    <3> QED
      BY <1>8, <3>2
  <2>4. CASE w[w[dir][e]][i] = None
    <3>1. e # 0
      BY <1>1, <1>7, <2>4 DEF Tree, DirsOK, KernelOK
    <3>2. q = [mem |-> EnterPage(w, w[dir][e], i, p), used |-> u2, err |-> "no"]
      BY <2>1, <2>4 DEF memory_create_map, Ok, e, i, r, EnterPage
    <3>3. EntersOne(w, u, EnterPage(w, w[dir][e], i, p), u2, dirs, dir, e, i, p)
      BY <1>1, <1>2, <1>7, <1>10, <2>4, <3>1, MapInTable DEF u2
    <3> QED
      BY <1>5, <1>9, <2>2, <2>4, <3>2, <3>3
  <2> QED
    BY <2>3, <2>4
<1>11. CASE w[dir][e] = None
  <2>1. e # 0 /\ PageAt(w, dir, e, i) = None
    BY <1>7, <1>11, ConstantsLemma DEF Tree, DirsOK, PageAt
  <2>2. CASE addr_alloc_page(r) = None
    <3>1. WithTable(r, dir, v) = [r EXCEPT !.err = "no table"]
      BY <1>5, <1>11, <2>2 DEF WithTable, e
    <3>2. q = [r EXCEPT !.err = "no table"]
      BY <1>5, <3>1 DEF memory_create_map, Ok, Mems
    <3>3. q \in Mems /\ q.mem = w /\ u \subseteq q.used /\ ~Ok(q)
      BY <1>5, <3>2 DEF Mems, Errors, Ok
    <3> QED
      BY <1>8, <3>3
  <2>3. CASE addr_alloc_page(r) # None
    <3> DEFINE t == addr_alloc_page(r)
               w1 == EnterTable(w, dir, e, t)
               w2 == EnterPage(w1, t, i, p)
               u3 == u \union {p, t}
    <3>1. t \in Phys /\ t \notin u2
      BY <1>5, <2>3, AllocLemma
    <3>2. t \notin u /\ t # p /\ t # None /\ u3 \in SUBSET Phys /\ u \subseteq u3 /\ u3 = u2 \union {t}
      BY <1>5, <2>3, <3>1 DEF u2
    <3>3. WithTable(r, dir, v) = [Take(r, t) EXCEPT !.mem[t] = [x \in Entries |-> None],
                                                    !.mem[dir][e] = t]
      BY <1>5, <1>11, <2>3 DEF WithTable, e
    <3> HIDE DEF t
    <3>4. WithTable(r, dir, v) = [mem |-> w1, used |-> u3, err |-> "no"]
      BY <3>2, <3>3 DEF Take, r, EnterTable
    <3>5. /\ w1[dir][e] = t /\ w1[t][i] = None
          /\ EntersOne(w, u, w2, u3, dirs, dir, e, i, p)
      BY <1>1, <1>2, <1>7, <1>11, <2>1, <3>1, <3>2, MapInNewTable
    <3> HIDE DEF w1, u3
    <3>6. q = [mem |-> w2, used |-> u3, err |-> "no"]
      BY <3>4, <3>5 DEF memory_create_map, Ok, e, i, EnterPage
    <3> HIDE DEF w2, q
    <3> QED
      BY <1>9, <2>1, <3>2, <3>5, <3>6
  <2> QED
    BY <2>2, <2>3
<1> QED
  BY <1>10, <1>11

LEMMA UserLemma == UserPages \subseteq AllPages /\ AllPages \subseteq Nat
BY ConstantsLemma DEF UserPages, AllPages

LEMMA GrownTrans ==
  ASSUME NEW m \in Mems, NEW r \in Mems, NEW q \in Mems, NEW dirs \in SUBSET Phys, NEW dir,
         NEW lo, NEW hi, NEW v, v .. v \subseteq lo .. hi,
         Grown(m, r, dirs, dir, lo, hi), Grown(r, q, dirs, dir, v, v)
  PROVE  Grown(m, q, dirs, dir, lo, hi)
<1>1. ASSUME NEW d \in dirs, NEW x \in AllPages,
             d # dir \/ x \notin lo .. hi \/ PageOf(m.mem, d, x) # None
      PROVE  PageOf(q.mem, d, x) = PageOf(m.mem, d, x)
  <2>1. PageOf(r.mem, d, x) = PageOf(m.mem, d, x)
    BY <1>1 DEF Grown
  <2>2. d # dir \/ x \notin v .. v \/ PageOf(r.mem, d, x) # None
    BY <1>1, <2>1
  <2>3. PageOf(q.mem, d, x) = PageOf(r.mem, d, x)
    BY <2>2 DEF Grown
  <2> QED
    BY <2>1, <2>3
<1>2. ASSUME NEW d \in dirs, NEW x \in UserPages, PageOf(m.mem, d, x) # None
      PROVE  q.mem[PageOf(m.mem, d, x)] = m.mem[PageOf(m.mem, d, x)]
  <2>1. PageOf(r.mem, d, x) = PageOf(m.mem, d, x)
    BY <1>2, UserLemma DEF Grown
  <2>2. r.mem[PageOf(m.mem, d, x)] = m.mem[PageOf(m.mem, d, x)]
    BY <1>2 DEF Grown, Keeps
  <2>3. q.mem[PageOf(r.mem, d, x)] = r.mem[PageOf(r.mem, d, x)]
    BY <1>2, <2>1 DEF Grown, Keeps
  <2> QED
    BY <2>1, <2>2, <2>3
<1>3. /\ m.used \subseteq q.used /\ (Ok(q) => Ok(m))
      /\ \E own \in Owners : Tree(q.mem, q.used, own, dirs)
  BY DEF Grown
<1> QED
  BY <1>1, <1>2, <1>3 DEF Grown, Keeps

\* One turn of the loop of memory_alloc_for_page_dir.
LEMMA AllocTurn ==
  ASSUME NEW m \in Mems, NEW own \in Owners, NEW dirs \in SUBSET Phys,
         Tree(m.mem, m.used, own, dirs), NEW dir \in dirs, NEW v \in AllPages
  PROVE  /\ Grown(m, AllocPage(m, dir, v), dirs, dir, v, v)
         /\ Ok(AllocPage(m, dir, v)) => PageOf(AllocPage(m, dir, v).mem, dir, v) # None
<1> DEFINE p == addr_alloc_page(m)
           q == AllocPage(m, dir, v)
<1>1. CASE ~Ok(m)
  <2>1. q = m
    BY <1>1 DEF AllocPage
  <2>2. Grown(m, m, dirs, dir, v, v)
    BY TakeGrows
  <2> QED
    BY <1>1, <2>1, <2>2
<1>2. CASE Ok(m) /\ p = None
  <2>1. q = [m EXCEPT !.err = "no page"]
    BY <1>2 DEF AllocPage
  <2>2. q \in Mems /\ q.mem = m.mem /\ m.used \subseteq q.used /\ ~Ok(q)
    BY <2>1 DEF Mems, Errors, Ok
  <2> HIDE DEF q
  <2>3. Grown(m, q, dirs, dir, v, v)
    BY <2>2, TakeGrows
  <2> QED
    BY <2>2, <2>3 DEF q
<1>3. CASE Ok(m) /\ p # None
  <2>1. p \in Phys /\ p \notin m.used
    BY <1>3, AllocLemma
  <2>2. q = memory_create_map(Take(m, p), dir, v, p)
    BY <1>3 DEF AllocPage
  <2> HIDE DEF p
  <2>3. LET n == memory_create_map(Take(m, p), dir, v, p) IN
         /\ Grown(m, n, dirs, dir, v, v)
         /\ Ok(n) => PageOf(m.mem, dir, v) = None /\ PageOf(n.mem, dir, v) = p
    BY <1>3, <2>1, MapLemma
  <2>4. p # None
    BY <2>1, ConstantsLemma
  <2> QED
    BY <2>2, <2>3, <2>4
<1> QED
  BY <1>1, <1>2, <1>3

\* The whole loop.
LEMMA AllocLoop ==
  ASSUME NEW m \in Mems, NEW own \in Owners, NEW dirs \in SUBSET Phys,
         Tree(m.mem, m.used, own, dirs), NEW dir \in dirs,
         NEW lo \in Nat, NEW hi \in Int, hi - lo + 1 \in Nat, lo .. hi \subseteq AllPages
  PROVE  LET q == memory_alloc_for_page_dir(m, dir, lo, hi) IN
         /\ Grown(m, q, dirs, dir, lo, hi)
         /\ Ok(q) => \A v \in lo .. hi : PageOf(q.mem, dir, v) # None
<1> DEFINE V == {r \in Mems : Grown(m, r, dirs, dir, lo, hi)}
           n == hi - lo + 1
           q == memory_alloc_for_page_dir(m, dir, lo, hi)
<1>1. m \in V
  BY TakeGrows
<1>2. ASSUME NEW r \in V, NEW v \in lo .. hi
      PROVE  /\ Grown(r, AllocPage(r, dir, v), dirs, dir, v, v) /\ AllocPage(r, dir, v) \in V
             /\ Ok(AllocPage(r, dir, v)) => PageOf(AllocPage(r, dir, v).mem, dir, v) # None
  <2>1. r \in Mems /\ v \in AllPages /\ Grown(m, r, dirs, dir, lo, hi)
    OBVIOUS
  <2>2. PICK own2 \in Owners : Tree(r.mem, r.used, own2, dirs)
    BY <2>1 DEF Grown
  <2>3. /\ Grown(r, AllocPage(r, dir, v), dirs, dir, v, v)
        /\ Ok(AllocPage(r, dir, v)) => PageOf(AllocPage(r, dir, v).mem, dir, v) # None
    BY <2>1, <2>2, AllocTurn
  <2>4. AllocPage(r, dir, v) \in Mems /\ v .. v \subseteq lo .. hi
    BY <2>3 DEF Grown
  <2>5. Grown(m, AllocPage(r, dir, v), dirs, dir, lo, hi)
    BY <2>1, <2>3, <2>4, GrownTrans
  <2> QED
    BY <2>3, <2>4, <2>5
<1> HIDE DEF V
<1>a. \A r \in V, v \in lo .. hi : AllocPage(r, dir, v) \in V
  BY <1>2
<1>b. n \in Nat /\ n = hi - lo + 1
  OBVIOUS
<1>c. PICK run : AllocTurns(run, hi - lo + 1, V, m, dir, lo, hi)
  BY <1>1, <1>a, <1>b, AllocRun
<1>3. /\ run \in [0 .. n -> V] /\ run[0] = m /\ run[n] = q
      /\ \A i \in 1 .. n : run[i] = AllocPage(run[i - 1], dir, lo + i - 1)
  BY <1>c DEF AllocTurns
<1>4. n \in Nat /\ \A i \in 1 .. n : i - 1 \in 0 .. n /\ lo + i - 1 \in lo .. hi
  OBVIOUS
<1> DEFINE S == {i \in 0 .. n : Ok(run[i]) => \A v \in lo .. lo + i - 1 : PageOf(run[i].mem, dir, v) # None}
<1>5. 0 \in S
  OBVIOUS
<1>6. ASSUME NEW i \in 1 .. n, i - 1 \in S
      PROVE  i \in S
  <2>1. run[i - 1] \in V /\ run[i] = AllocPage(run[i - 1], dir, lo + i - 1) /\ lo + i - 1 \in lo .. hi
    BY <1>3, <1>4
  <2>2. /\ Grown(run[i - 1], run[i], dirs, dir, lo + i - 1, lo + i - 1)
        /\ Ok(run[i]) => PageOf(run[i].mem, dir, lo + i - 1) # None
    BY <1>2, <2>1
  <2>3. ASSUME Ok(run[i]), NEW v \in lo .. lo + i - 1
        PROVE  PageOf(run[i].mem, dir, v) # None
    <3>1. CASE v = lo + i - 1
      BY <2>2, <2>3, <3>1
    <3>2. CASE v # lo + i - 1
      <4>1. v \in lo .. lo + (i - 1) - 1 /\ v \in AllPages
        BY <3>2
      <4>2. Ok(run[i - 1])
        BY <2>2, <2>3 DEF Grown
      <4>3. PageOf(run[i - 1].mem, dir, v) # None
        BY <1>6, <4>1, <4>2
      <4>4. PageOf(run[i].mem, dir, v) = PageOf(run[i - 1].mem, dir, v)
        BY <2>2, <4>1, <4>3 DEF Grown
      <4> QED
        BY <4>3, <4>4
    <3> QED
      BY <3>1, <3>2
  <2> QED
    BY <2>3
<1>7. n \in S
  <2> HIDE DEF S, n
  <2>1. \A i \in 0 .. n : i \in S
    BY <1>4, <1>5, <1>6, LoopLemma
  <2> QED
    BY <1>4, <2>1
<1>8. Ok(q) => \A v \in lo .. hi : PageOf(q.mem, dir, v) # None
  <2>1. lo + n - 1 = hi
    OBVIOUS
  <2> QED
    BY <1>3, <1>7, <2>1
<1>9. q \in V
  BY <1>3, <1>4
<1> QED
  BY <1>8, <1>9 DEF V

-----------------------------------------------------------------------------
(* New directories, and what is written into mapped pages *)

\* A mapped page by its entries.
LEMMA PageOfLemma ==
  ASSUME NEW w, NEW d, NEW v \in UserPages
  PROVE  /\ PageOf(w, d, v) = PageAt(w, d, pde_index(v), pte_index(v))
         /\ pde_index(v) \in Entries /\ pde_index(v) # 0 /\ pte_index(v) \in Entries
BY UserLemma, IndexLemma DEF PageOf, PageAt

\* A page is mapped at one place of one directory.
LEMMA ExclusiveLemma ==
  ASSUME NEW m \in Mems, NEW own \in Owners, NEW dirs \in SUBSET Phys,
         Tree(m.mem, m.used, own, dirs), NEW d \in dirs, NEW v \in UserPages,
         PageOf(m.mem, d, v) # None
  PROVE  /\ PageOf(m.mem, d, v) \in m.used /\ PageOf(m.mem, d, v) \in Phys
         /\ PageOf(m.mem, d, v) \notin Pointers(m.mem, dirs)
         /\ \A d2 \in dirs, x \in UserPages :
              PageOf(m.mem, d2, x) = PageOf(m.mem, d, v) => d2 = d /\ x = v
<1> DEFINE w == m.mem
<1>1. w \in Contents /\ m.used \in SUBSET Phys
  BY DEF Mems
<1>2. PageAt(w, d, pde_index(v), pte_index(v)) \in Phys
      /\ PageAt(w, d, pde_index(v), pte_index(v)) \notin Pointers(w, dirs)
  <2> HIDE DEF w
  <2>1. PageAt(w, d, pde_index(v), pte_index(v)) # None
    BY PageOfLemma DEF w
  <2> QED
    BY <1>1, <2>1, PageOfLemma, LeavesAreData DEF w
<1>3. PageAt(w, d, pde_index(v), pte_index(v)) \in m.used
      /\ own[PageAt(w, d, pde_index(v), pte_index(v))] = <<d, pde_index(v), pte_index(v)>>
  BY PageOfLemma DEF Tree, LeavesOK
<1>4. ASSUME NEW d2 \in dirs, NEW x \in UserPages, PageOf(w, d2, x) = PageOf(w, d, v)
      PROVE  d2 = d /\ x = v
  <2>1. own[PageAt(w, d2, pde_index(x), pte_index(x))] = <<d2, pde_index(x), pte_index(x)>>
    BY <1>4, PageOfLemma DEF Tree, LeavesOK
  <2>2. <<d2, pde_index(x), pte_index(x)>> = <<d, pde_index(v), pte_index(v)>>
    BY <1>3, <1>4, <2>1, PageOfLemma
  <2>3. d2 = d /\ pde_index(x) = pde_index(v) /\ pte_index(x) = pte_index(v)
    BY <2>2
  <2> QED
    BY <2>3, PlacesDiffer, UserLemma
<1> QED
  BY <1>2, <1>3, <1>4, PageOfLemma

\* q is m with other words in the page mapped at v of d, which nobody else sees.
Rewrites(m, q, dirs, d, v) ==
  /\ q \in Mems /\ q.used = m.used /\ \E own \in Owners : Tree(q.mem, q.used, own, dirs)
  /\ \A d2 \in dirs, x \in AllPages : PageOf(q.mem, d2, x) = PageOf(m.mem, d2, x)
  /\ \A d2 \in dirs, x \in UserPages : (d2 # d \/ x # v) /\ PageOf(m.mem, d2, x) # None =>
       q.mem[PageOf(m.mem, d2, x)] = m.mem[PageOf(m.mem, d2, x)]

LEMMA WriteLemma ==
  ASSUME NEW m \in Mems, NEW own \in Owners, NEW dirs \in SUBSET Phys,
         Tree(m.mem, m.used, own, dirs), NEW d \in dirs, NEW v \in UserPages,
         PageOf(m.mem, d, v) # None, NEW q \in Mems, q.used = m.used,
         NEW c, q.mem = [m.mem EXCEPT ![PageOf(m.mem, d, v)] = c]
  PROVE  Rewrites(m, q, dirs, d, v) /\ q.mem[PageOf(m.mem, d, v)] = c
<1> DEFINE p == PageOf(m.mem, d, v)
<1>1. m.mem \in Contents /\ q.mem \in Contents /\ m.used \in SUBSET Phys /\ q.used \in SUBSET Phys
  BY DEF Mems
<1>2. /\ p \in m.used /\ p \in Phys /\ p \notin Pointers(m.mem, dirs)
      /\ \A d2 \in dirs, x \in UserPages : PageOf(m.mem, d2, x) = p => d2 = d /\ x = v
  BY ExclusiveLemma
<1> HIDE DEF p
<1>3. q.mem[p] = c /\ \A x \in Phys : x # p => q.mem[x] = m.mem[x]
  BY <1>1, <1>2 DEF Contents, p
<1>4. /\ Tree(q.mem, q.used, own, dirs)
      /\ \A d2 \in dirs, e, i \in Entries : PageAt(q.mem, d2, e, i) = PageAt(m.mem, d2, e, i)
  <2>1. \A x \in Phys : x \in Pointers(m.mem, dirs) => q.mem[x] = m.mem[x]
    BY <1>2, <1>3
  <2>2. m.used \subseteq q.used
    OBVIOUS
  <2> DEFINE w == m.mem
             u == m.used
             w2 == q.mem
             u2 == q.used
  <2>3. /\ w \in Contents /\ u \in SUBSET Phys /\ Tree(w, u, own, dirs) /\ u \subseteq u2
        /\ w2 \in Contents /\ u2 \in SUBSET Phys
        /\ \A x \in Phys : x \in Pointers(w, dirs) => w2[x] = w[x]
    BY <1>1, <2>1, <2>2
  <2> HIDE DEF w, u, w2, u2
  <2>4. /\ Tree(w2, u2, own, dirs)
        /\ \A d2 \in dirs, e, i \in Entries : PageAt(w2, d2, e, i) = PageAt(w, d2, e, i)
    BY <2>3, SameTree
  <2> QED
    BY <2>4 DEF w, w2, u2
<1>5. ASSUME NEW d2 \in dirs, NEW x \in AllPages
      PROVE  PageOf(q.mem, d2, x) = PageOf(m.mem, d2, x)
  <2>1. pde_index(x) \in Entries /\ pte_index(x) \in Entries
    BY IndexLemma
  <2>2. \A w : PageOf(w, d2, x) = PageAt(w, d2, pde_index(x), pte_index(x))
    BY DEF PageOf, PageAt
  <2> QED
    BY <1>4, <2>1, <2>2
<1>6. ASSUME NEW d2 \in dirs, NEW x \in UserPages, d2 # d \/ x # v, PageOf(m.mem, d2, x) # None
      PROVE  q.mem[PageOf(m.mem, d2, x)] = m.mem[PageOf(m.mem, d2, x)]
  <2>1. PageOf(m.mem, d2, x) \in Phys
    BY <1>6, ExclusiveLemma
  <2>2. PageOf(m.mem, d2, x) # p
    BY <1>2, <1>6
  <2> QED
    BY <1>3, <2>1, <2>2
<1> QED
  BY <1>3, <1>4, <1>5, <1>6 DEF Rewrites, p

\* q is m with one directory more, which maps nothing.
AddsDir(m, q, dirs, dir) ==
  /\ q \in Mems /\ q.used = m.used \union {dir} /\ q.err = m.err /\ dir \notin dirs
  /\ \E own \in Owners : Tree(q.mem, q.used, own, dirs \union {dir})
  /\ \A d \in dirs, v \in AllPages : PageOf(q.mem, d, v) = PageOf(m.mem, d, v)
  /\ \A v \in UserPages : PageOf(q.mem, dir, v) = None
  /\ Keeps(m, q, dirs)

LEMMA CreateLemma ==
  ASSUME NEW m \in Mems, NEW own \in Owners, NEW dirs \in SUBSET Phys,
         Tree(m.mem, m.used, own, dirs), NEW dir \in Phys, dir \notin m.used
  PROVE  AddsDir(m, memory_create_uvm(m, dir), dirs, dir)
<1> DEFINE q == memory_create_uvm(m, dir)
           w == m.mem
           u == m.used
           w2 == ClearDir(w, dir)
<1>1. w \in Contents /\ u \in SUBSET Phys
  BY DEF Mems
<1>2. q.mem = w2 /\ q.used = u \union {dir} /\ q.err = m.err
      /\ q = [mem |-> q.mem, used |-> q.used, err |-> q.err]
  <2> DEFINE r == [mem |-> w, used |-> u, err |-> m.err]
  <2>1. m = r
    BY DEF Mems
  <2> HIDE DEF w, u
  <2>a. Take(r, dir) = [mem |-> w, used |-> u \union {dir}, err |-> m.err]
    BY DEF Take
  <2>2. memory_create_uvm(r, dir) = [mem |-> w2, used |-> u \union {dir}, err |-> m.err]
    <3> DEFINE entries == [e \in Entries |-> IF e = 0 THEN KernelTable ELSE None]
               v == u \union {dir}
               err == m.err
    <3>1. memory_create_uvm(r, dir) = [Take(r, dir) EXCEPT !.mem[dir] = entries]
      BY DEF memory_create_uvm
    <3>2. w2 = [w EXCEPT ![dir] = entries]
      BY DEF ClearDir
    <3> HIDE DEF entries, v, err
    <3>3. [[mem |-> w, used |-> v, err |-> err] EXCEPT !.mem[dir] = entries]
            = [mem |-> [w EXCEPT ![dir] = entries], used |-> v, err |-> err]
      OBVIOUS
    <3>4. Take(r, dir) = [mem |-> w, used |-> v, err |-> err]
      BY <2>a DEF v, err
    <3> HIDE DEF r, w2
    <3>5. memory_create_uvm(r, dir) = [mem |-> w2, used |-> v, err |-> err]
      BY <3>1, <3>2, <3>3, <3>4
    <3> QED
      BY <3>5 DEF v, err
  <2>3. q = [mem |-> w2, used |-> u \union {dir}, err |-> m.err]
    BY <2>1, <2>2
  <2> HIDE DEF q, w2
  <2> QED
    BY <2>3
<1> HIDE DEF w, u, q
<1>3. AddsDirectory(w, w2, u \union {dir}, dirs, dir)
  BY <1>1, NewDir DEF w, u
<1> HIDE DEF w2
<1>4. q \in Mems
  BY <1>1, <1>2, <1>3 DEF Mems, AddsDirectory
<1>5. \A d \in dirs, v \in AllPages : PageOf(q.mem, d, v) = PageOf(w, d, v)
  BY <1>2, <1>3, IndexLemma DEF AddsDirectory, PageOf, PageAt
<1>6. \A v \in UserPages : PageOf(q.mem, dir, v) = None
  BY <1>2, <1>3, PageOfLemma DEF AddsDirectory
<1>7. ASSUME NEW d \in dirs, NEW v \in UserPages, PageOf(w, d, v) # None
      PROVE  q.mem[PageOf(w, d, v)] = w[PageOf(w, d, v)]
  <2>1. PageOf(w, d, v) \in u /\ PageOf(w, d, v) \in Phys
    BY <1>7, ExclusiveLemma DEF w, u
  <2>2. PageOf(w, d, v) # dir
    BY <2>1 DEF u
  <2> QED
    BY <1>2, <1>3, <2>1, <2>2 DEF AddsDirectory
<1>8. dir \notin dirs
  BY DEF Tree, DirsOK
<1>9. AddsDir(m, q, dirs, dir)
  BY <1>2, <1>3, <1>4, <1>5, <1>6, <1>7, <1>8 DEF AddsDir, AddsDirectory, Keeps, w, u
<1> QED
  BY <1>9 DEF q

\* The loop of memory_copy_uvm, turn by turn.
CopyLoop(m, from, dir, lo, hi) ==
  FoldLeft(LAMBDA r, v : CopyPage(r, from, dir, v), m, Numbers(lo, hi))

CopyTurns(run, n, V, m, from, dir, lo, hi) ==
  /\ run \in [0 .. n -> V]
  /\ run[0] = m /\ run[n] = CopyLoop(m, from, dir, lo, hi)
  /\ \A i \in 1 .. n : run[i] = CopyPage(run[i - 1], from, dir, lo + i - 1)

LEMMA CopyRun ==
  ASSUME NEW lo \in Nat, NEW hi \in Int, hi - lo + 1 \in Nat,
         NEW from, NEW dir, NEW V, NEW m \in V, \A r \in V, v \in lo .. hi : CopyPage(r, from, dir, v) \in V
  PROVE  \E run : CopyTurns(run, hi - lo + 1, V, m, from, dir, lo, hi)
<1> DEFINE n == hi - lo + 1
           s == Numbers(lo, hi)
           step == [i \in 1 .. n |-> [r \in V |-> CopyPage(r, from, dir, s[i])]]
           Solves(fold) == fold = [x \in SUBSET (1 .. n) |->
                                 IF x = {} THEN m ELSE CopyPage(fold[x \ {Max(x)}], from, dir, s[Max(x)])]
           fold == CHOOSE fold : Solves(fold)
<1>1. /\ DOMAIN s = 1 .. n
      /\ \A i \in 1 .. n : s[i] = lo + i - 1 /\ s[i] \in lo .. hi
      /\ \A i \in 1 .. n : Max(1 .. i) = i /\ 1 .. i \in SUBSET (1 .. n) /\ 1 .. i # {}
                           /\ (1 .. i) \ {i} = 1 .. i - 1
      /\ {} \in SUBSET (1 .. n)
      /\ \A x \in SUBSET (1 .. n) : x # {} =>
           Max(x) \in 1 .. n /\ x \ {Max(x)} \in SUBSET (1 .. n)
  BY NumbersLemma
<1>2. CopyLoop(m, from, dir, lo, hi) = fold[1 .. n]
  BY <1>1 DEF CopyLoop, FoldLeft, MapThenFoldSet
<1> HIDE DEF s
<1>3. step \in [1 .. n -> [V -> V]]
  BY <1>1
<1>4. \A i \in 1 .. n, r \in V : step[i][r] = CopyPage(r, from, dir, lo + i - 1)
  BY <1>1
<1>5. n \in Nat
  OBVIOUS
<1> HIDE DEF n, step, Solves, fold
<1>6. Solves(fold)
  <2>0. PICK at : at \in [Firsts(n) -> V] /\ at = FoldTurn(at, n, m, step)
    BY <1>3, <1>5, FoldExists
  <2>1. at \in [SUBSET (1 .. n) -> V] /\ at = FoldTurn(at, n, m, step)
    BY <2>0 DEF Firsts
  <2>2. ASSUME NEW x \in SUBSET (1 .. n), x # {}
        PROVE  step[Max(x)][at[x \ {Max(x)}]] = CopyPage(at[x \ {Max(x)}], from, dir, s[Max(x)])
    BY <1>1, <1>4, <2>1, <2>2
  <2>3. Solves(at)
    BY <2>1, <2>2 DEF FoldTurn, Solves
  <2> QED
    BY <2>3 DEF fold
<1>7. fold[{}] = m
  BY <1>1, <1>6 DEF Solves
<1>8. ASSUME NEW i \in 1 .. n, fold[1 .. i - 1] \in V
      PROVE  fold[1 .. i] = step[i][fold[1 .. i - 1]]
  <2>1. fold[1 .. i] = CopyPage(fold[(1 .. i) \ {i}], from, dir, s[i])
    BY <1>1, <1>6 DEF Solves
  <2>2. (1 .. i) \ {i} = 1 .. i - 1 /\ s[i] = lo + i - 1
    BY <1>1
  <2>3. step[i][fold[1 .. i - 1]] = CopyPage(fold[1 .. i - 1], from, dir, lo + i - 1)
    BY <1>4, <1>8
  <2> QED
    BY <2>1, <2>2, <2>3
<1>9. \E run \in [0 .. n -> V] :
        /\ run[0] = m /\ run[n] = fold[1 .. n]
        /\ \A i \in 1 .. n : run[i] = step[i][run[i - 1]]
  BY <1>3, <1>5, <1>7, <1>8, FoldRuns
<1>10. \A run \in [0 .. n -> V] : \A i \in 1 .. n :
         step[i][run[i - 1]] = CopyPage(run[i - 1], from, dir, lo + i - 1)
  <2>1. \A i \in 1 .. n : i - 1 \in 0 .. n
    BY <1>5
  <2> QED
    BY <1>4, <2>1
<1>11. PICK run \in [0 .. n -> V] :
         /\ run[0] = m /\ run[n] = fold[1 .. n]
         /\ \A i \in 1 .. n : run[i] = step[i][run[i - 1]]
  BY <1>9
<1>12. /\ run[0] = m /\ run[n] = CopyLoop(m, from, dir, lo, hi)
       /\ \A i \in 1 .. n : run[i] = CopyPage(run[i - 1], from, dir, lo + i - 1)
  BY <1>2, <1>10, <1>11
<1> QED
  BY <1>11, <1>12 DEF n, CopyTurns

\* The loop of load over the pages of the program, turn by turn.
FillLoop(m, dir, lo, hi) == FoldLeft(LAMBDA r, v : FillPage(r, dir, v), m, Numbers(lo, hi))

FillTurns(run, n, V, m, dir, lo, hi) ==
  /\ run \in [0 .. n -> V]
  /\ run[0] = m /\ run[n] = FillLoop(m, dir, lo, hi)
  /\ \A i \in 1 .. n : run[i] = FillPage(run[i - 1], dir, lo + i - 1)

LEMMA FillRun ==
  ASSUME NEW lo \in Nat, NEW hi \in Int, hi - lo + 1 \in Nat,
         NEW dir, NEW V, NEW m \in V, \A r \in V, v \in lo .. hi : FillPage(r, dir, v) \in V
  PROVE  \E run : FillTurns(run, hi - lo + 1, V, m, dir, lo, hi)
<1> DEFINE n == hi - lo + 1
           s == Numbers(lo, hi)
           step == [i \in 1 .. n |-> [r \in V |-> FillPage(r, dir, s[i])]]
           Solves(fold) == fold = [x \in SUBSET (1 .. n) |->
                                 IF x = {} THEN m ELSE FillPage(fold[x \ {Max(x)}], dir, s[Max(x)])]
           fold == CHOOSE fold : Solves(fold)
<1>1. /\ DOMAIN s = 1 .. n
      /\ \A i \in 1 .. n : s[i] = lo + i - 1 /\ s[i] \in lo .. hi
      /\ \A i \in 1 .. n : Max(1 .. i) = i /\ 1 .. i \in SUBSET (1 .. n) /\ 1 .. i # {}
                           /\ (1 .. i) \ {i} = 1 .. i - 1
      /\ {} \in SUBSET (1 .. n)
      /\ \A x \in SUBSET (1 .. n) : x # {} =>
           Max(x) \in 1 .. n /\ x \ {Max(x)} \in SUBSET (1 .. n)
  BY NumbersLemma
<1>2. FillLoop(m, dir, lo, hi) = fold[1 .. n]
  BY <1>1 DEF FillLoop, FoldLeft, MapThenFoldSet
<1> HIDE DEF s
<1>3. step \in [1 .. n -> [V -> V]]
  BY <1>1
<1>4. \A i \in 1 .. n, r \in V : step[i][r] = FillPage(r, dir, lo + i - 1)
  BY <1>1
<1>5. n \in Nat
  OBVIOUS
<1> HIDE DEF n, step, Solves, fold
<1>6. Solves(fold)
  <2>0. PICK at : at \in [Firsts(n) -> V] /\ at = FoldTurn(at, n, m, step)
    BY <1>3, <1>5, FoldExists
  <2>1. at \in [SUBSET (1 .. n) -> V] /\ at = FoldTurn(at, n, m, step)
    BY <2>0 DEF Firsts
  <2>2. ASSUME NEW x \in SUBSET (1 .. n), x # {}
        PROVE  step[Max(x)][at[x \ {Max(x)}]] = FillPage(at[x \ {Max(x)}], dir, s[Max(x)])
    BY <1>1, <1>4, <2>1, <2>2
  <2>3. Solves(at)
    BY <2>1, <2>2 DEF FoldTurn, Solves
  <2> QED
    BY <2>3 DEF fold
<1>7. fold[{}] = m
  BY <1>1, <1>6 DEF Solves
<1>8. ASSUME NEW i \in 1 .. n, fold[1 .. i - 1] \in V
      PROVE  fold[1 .. i] = step[i][fold[1 .. i - 1]]
  <2>1. fold[1 .. i] = FillPage(fold[(1 .. i) \ {i}], dir, s[i])
    BY <1>1, <1>6 DEF Solves
  <2>2. (1 .. i) \ {i} = 1 .. i - 1 /\ s[i] = lo + i - 1
    BY <1>1
  <2>3. step[i][fold[1 .. i - 1]] = FillPage(fold[1 .. i - 1], dir, lo + i - 1)
    BY <1>4, <1>8
  <2> QED
    BY <2>1, <2>2, <2>3
<1>9. \E run \in [0 .. n -> V] :
        /\ run[0] = m /\ run[n] = fold[1 .. n]
        /\ \A i \in 1 .. n : run[i] = step[i][run[i - 1]]
  BY <1>3, <1>5, <1>7, <1>8, FoldRuns
<1>10. \A run \in [0 .. n -> V] : \A i \in 1 .. n :
         step[i][run[i - 1]] = FillPage(run[i - 1], dir, lo + i - 1)
  <2>1. \A i \in 1 .. n : i - 1 \in 0 .. n
    BY <1>5
  <2> QED
    BY <1>4, <2>1
<1>11. PICK run \in [0 .. n -> V] :
         /\ run[0] = m /\ run[n] = fold[1 .. n]
         /\ \A i \in 1 .. n : run[i] = step[i][run[i - 1]]
  BY <1>9
<1>12. /\ run[0] = m /\ run[n] = FillLoop(m, dir, lo, hi)
       /\ \A i \in 1 .. n : run[i] = FillPage(run[i - 1], dir, lo + i - 1)
  BY <1>2, <1>10, <1>11
<1> QED
  BY <1>11, <1>12 DEF n, FillTurns

\* q is m with other words in pages mapped by dir, which no other directory sees.
Filled(m, q, dirs, dir) ==
  /\ q \in Mems /\ q.used = m.used /\ q.err = m.err
  /\ \E own \in Owners : Tree(q.mem, q.used, own, dirs)
  /\ \A d \in dirs, x \in AllPages : PageOf(q.mem, d, x) = PageOf(m.mem, d, x)
  /\ \A d \in dirs \ {dir}, x \in UserPages : PageOf(m.mem, d, x) # None =>
       q.mem[PageOf(m.mem, d, x)] = m.mem[PageOf(m.mem, d, x)]

\* One turn of the loop of load.
LEMMA FillTurn ==
  ASSUME NEW m \in Mems, NEW own \in Owners, NEW dirs \in SUBSET Phys,
         Tree(m.mem, m.used, own, dirs), NEW dir \in dirs, NEW v \in UserPages,
         Ok(m) => PageOf(m.mem, dir, v) # None
  PROVE  Filled(m, FillPage(m, dir, v), dirs, dir)
<1> DEFINE q == FillPage(m, dir, v)
           c == [e \in Entries |-> 0]
<1>1. CASE ~Ok(m)
  <2>1. q = m
    BY <1>1 DEF FillPage
  <2>2. Filled(m, m, dirs, dir)
    BY DEF Filled
  <2> QED
    BY <2>1, <2>2
<1>2. CASE Ok(m)
  <2> DEFINE w == m.mem
             p == PageOf(m.mem, dir, v)
             r == [mem |-> w, used |-> m.used, err |-> m.err]
             w2 == [w EXCEPT ![p] = c]
  <2>1. m = r /\ w \in Contents /\ m.used \in SUBSET Phys
    BY DEF Mems
  <2>2. q = [m EXCEPT !.mem[p] = c]
    BY <1>2 DEF FillPage
  <2> HIDE DEF w, p, c
  <2>3. [r EXCEPT !.mem[p] = c] = [mem |-> w2, used |-> m.used, err |-> m.err]
    OBVIOUS
  <2>4. q = [mem |-> w2, used |-> m.used, err |-> m.err]
    BY <2>1, <2>2, <2>3
  <2>5. c \in [Entries -> Nat]
    BY DEF c
  <2>6. w2 \in Contents
    BY <2>1, <2>5 DEF Contents
  <2>7. q \in Mems /\ q.used = m.used /\ q.err = m.err /\ q.mem = w2
    BY <2>1, <2>4, <2>6 DEF Mems
  <2>8. q.mem = [m.mem EXCEPT ![PageOf(m.mem, dir, v)] = c]
    BY <2>7 DEF w, p
  <2> HIDE DEF q, w2
  <2>9. Rewrites(m, q, dirs, dir, v)
    BY <1>2, <2>7, <2>8, WriteLemma
  <2>10. Filled(m, q, dirs, dir)
    BY <2>7, <2>9 DEF Filled, Rewrites
  <2> QED
    BY <2>10 DEF q
<1> QED
  BY <1>1, <1>2

\* The whole loop, over pages that are mapped.
LEMMA FillAll ==
  ASSUME NEW m \in Mems, NEW own \in Owners, NEW dirs \in SUBSET Phys,
         Tree(m.mem, m.used, own, dirs), NEW dir \in dirs,
         NEW lo \in Nat, NEW hi \in Int, hi - lo + 1 \in Nat, lo .. hi \subseteq UserPages,
         Ok(m) => \A v \in lo .. hi : PageOf(m.mem, dir, v) # None
  PROVE  Filled(m, FillLoop(m, dir, lo, hi), dirs, dir)
<1> DEFINE V == {r \in Mems : Filled(m, r, dirs, dir)}
           n == hi - lo + 1
<1>1. m \in V
  BY DEF Filled
<1>2. ASSUME NEW r \in V, NEW v \in lo .. hi
      PROVE  FillPage(r, dir, v) \in V
  <2> DEFINE q == FillPage(r, dir, v)
  <2>1. r \in Mems /\ v \in UserPages /\ Filled(m, r, dirs, dir)
    OBVIOUS
  <2>2. PICK own2 \in Owners : Tree(r.mem, r.used, own2, dirs)
    BY <2>1 DEF Filled
  <2>3. Ok(r) => PageOf(r.mem, dir, v) # None
    BY <2>1, UserLemma DEF Filled, Ok
  <2>4. Filled(r, q, dirs, dir)
    BY <2>1, <2>2, <2>3, FillTurn
  <2> HIDE DEF q
  <2>5. ASSUME NEW d \in dirs \ {dir}, NEW x \in UserPages, PageOf(m.mem, d, x) # None
        PROVE  q.mem[PageOf(m.mem, d, x)] = m.mem[PageOf(m.mem, d, x)]
    <3>1. PageOf(r.mem, d, x) = PageOf(m.mem, d, x)
      BY <2>1, UserLemma DEF Filled
    <3>2. r.mem[PageOf(m.mem, d, x)] = m.mem[PageOf(m.mem, d, x)]
      BY <2>1, <2>5 DEF Filled
    <3>3. q.mem[PageOf(r.mem, d, x)] = r.mem[PageOf(r.mem, d, x)]
      BY <2>4, <2>5, <3>1 DEF Filled
    <3> QED
      BY <3>1, <3>2, <3>3
  <2>6. /\ q \in Mems /\ q.used = m.used /\ q.err = m.err
        /\ \E o \in Owners : Tree(q.mem, q.used, o, dirs)
        /\ \A d \in dirs, x \in AllPages : PageOf(q.mem, d, x) = PageOf(m.mem, d, x)
    BY <2>1, <2>4 DEF Filled
  <2>7. Filled(m, q, dirs, dir)
    BY <2>5, <2>6 DEF Filled
  <2> QED
    BY <2>6, <2>7 DEF q
<1> HIDE DEF V
<1>3. \A r \in V, v \in lo .. hi : FillPage(r, dir, v) \in V
  BY <1>2
<1>4. n \in Nat /\ n = hi - lo + 1
  OBVIOUS
<1>5. PICK run : FillTurns(run, hi - lo + 1, V, m, dir, lo, hi)
  BY <1>1, <1>3, <1>4, FillRun
<1>6. FillLoop(m, dir, lo, hi) \in V
  BY <1>4, <1>5 DEF FillTurns
<1> QED
  BY <1>6 DEF V

\* dir maps v in q if from does so in m, to the same words.
Like(m, q, from, dir, v) ==
  IF PageOf(m.mem, from, v) = None THEN PageOf(q.mem, dir, v) = None
  ELSE PageOf(q.mem, dir, v) # None
       /\ q.mem[PageOf(q.mem, dir, v)] = m.mem[PageOf(m.mem, from, v)]

\* Writing a page right after mapping it is still a growth of the tree.
LEMMA GrownThenWritten ==
  ASSUME NEW m \in Mems, NEW r \in Mems, NEW q, NEW dirs \in SUBSET Phys, NEW dir \in dirs,
         NEW v \in UserPages, Grown(m, r, dirs, dir, v, v), PageOf(m.mem, dir, v) = None,
         Rewrites(r, q, dirs, dir, v), Ok(q) => Ok(r)
  PROVE  Grown(m, q, dirs, dir, v, v)
<1>1. ASSUME NEW d \in dirs, NEW x \in UserPages, PageOf(m.mem, d, x) # None
      PROVE  q.mem[PageOf(m.mem, d, x)] = m.mem[PageOf(m.mem, d, x)]
  <2>1. PageOf(r.mem, d, x) = PageOf(m.mem, d, x)
    BY <1>1, UserLemma DEF Grown
  <2>2. r.mem[PageOf(m.mem, d, x)] = m.mem[PageOf(m.mem, d, x)]
    BY <1>1 DEF Grown, Keeps
  <2>3. d # dir \/ x # v
    BY <1>1
  <2>4. q.mem[PageOf(r.mem, d, x)] = r.mem[PageOf(r.mem, d, x)]
    BY <1>1, <2>1, <2>3 DEF Rewrites
  <2> QED
    BY <2>1, <2>2, <2>4
<1>2. \A d \in dirs, x \in AllPages :
        d # dir \/ x \notin v .. v \/ PageOf(m.mem, d, x) # None
          => PageOf(q.mem, d, x) = PageOf(m.mem, d, x)
  BY DEF Grown, Rewrites
<1>3. /\ q \in Mems /\ m.used \subseteq q.used /\ (Ok(q) => Ok(m))
      /\ \E own \in Owners : Tree(q.mem, q.used, own, dirs)
  BY DEF Grown, Rewrites
<1> QED
  BY <1>1, <1>2, <1>3 DEF Grown, Keeps

\* A call that fails in the middle leaves what it had done.
LEMMA GrownWithError ==
  ASSUME NEW m \in Mems, NEW r \in Mems, NEW dirs \in SUBSET Phys, NEW dir, NEW v,
         Grown(m, r, dirs, dir, v, v), NEW e \in Errors, e # "no"
  PROVE  Grown(m, [r EXCEPT !.err = e], dirs, dir, v, v) /\ ~Ok([r EXCEPT !.err = e])
<1> DEFINE q == [r EXCEPT !.err = e]
<1>1. q \in Mems /\ q.mem = r.mem /\ q.used = r.used /\ ~Ok(q)
  BY DEF Mems, Ok
<1> HIDE DEF q
<1>2. Grown(m, q, dirs, dir, v, v)
  BY <1>1 DEF Grown, Keeps
<1> QED
  BY <1>1, <1>2 DEF q

\* One turn of the loop of memory_copy_uvm.
LEMMA CopyTurn ==
  ASSUME NEW m \in Mems, NEW own \in Owners, NEW dirs \in SUBSET Phys,
         Tree(m.mem, m.used, own, dirs), NEW from \in dirs, NEW dir \in dirs, NEW v \in UserPages
  PROVE  /\ Grown(m, CopyPage(m, from, dir, v), dirs, dir, v, v)
         /\ Ok(CopyPage(m, from, dir, v)) /\ PageOf(m.mem, dir, v) = None
              => Like(m, CopyPage(m, from, dir, v), from, dir, v)
<1> DEFINE p == addr_alloc_page(m)
           q == CopyPage(m, from, dir, v)
           n == memory_create_map(Take(m, p), dir, v, p)
<1>0. v \in AllPages
  BY UserLemma
<1>1. CASE ~Ok(m) \/ PageOf(m.mem, from, v) = None
  <2>1. q = m
    BY <1>1 DEF CopyPage
  <2>2. Grown(m, m, dirs, dir, v, v)
    BY TakeGrows
  <2> QED
    BY <1>1, <2>1, <2>2 DEF Like
<1>2. CASE Ok(m) /\ PageOf(m.mem, from, v) # None /\ p = None
  <2>1. q = [m EXCEPT !.err = "undefined"]
    BY <1>2 DEF CopyPage
  <2>2. Grown(m, m, dirs, dir, v, v)
    BY TakeGrows
  <2>3. Grown(m, [m EXCEPT !.err = "undefined"], dirs, dir, v, v) /\ ~Ok([m EXCEPT !.err = "undefined"])
    BY <2>2, GrownWithError DEF Errors
  <2> QED
    BY <2>1, <2>3
<1>3. CASE Ok(m) /\ PageOf(m.mem, from, v) # None /\ p # None
  <2>1. p \in Phys /\ p \notin m.used
    BY <1>3, AllocLemma
  <2>2. q = IF ~Ok(n) THEN [n EXCEPT !.err = "undefined"]
            ELSE [n EXCEPT !.mem[p] = m.mem[PageOf(m.mem, from, v)]]
    BY <1>3 DEF CopyPage
  <2> HIDE DEF p, q
  <2>a. LET k == memory_create_map(Take(m, p), dir, v, p) IN
        /\ Grown(m, k, dirs, dir, v, v)
        /\ Ok(k) => PageOf(m.mem, dir, v) = None /\ PageOf(k.mem, dir, v) = p
    BY <1>0, <1>3, <2>1, MapLemma
  <2>3. /\ Grown(m, n, dirs, dir, v, v)
        /\ Ok(n) => PageOf(m.mem, dir, v) = None /\ PageOf(n.mem, dir, v) = p
    BY <2>a
  <2> HIDE DEF n
  <2>4. n \in Mems
    BY <2>3 DEF Grown
  <2>5. CASE ~Ok(n)
    <3>1. Grown(m, [n EXCEPT !.err = "undefined"], dirs, dir, v, v) /\ ~Ok([n EXCEPT !.err = "undefined"])
      BY <2>3, <2>4, GrownWithError DEF Errors
    <3> QED
      BY <2>2, <2>5, <3>1 DEF q
  <2>6. CASE Ok(n)
    <3> DEFINE c == m.mem[PageOf(m.mem, from, v)]
               w == n.mem
               r == [mem |-> w, used |-> n.used, err |-> n.err]
               w2 == [w EXCEPT ![p] = c]
    <3>1. n = r /\ w \in Contents /\ n.used \in SUBSET Phys
      BY <2>4 DEF Mems
    <3>2. PageOf(m.mem, from, v) \in Phys
      BY <1>3, ExclusiveLemma
    <3>3. c \in [Entries -> Nat]
      BY <3>2 DEF Mems, Contents
    <3> HIDE DEF c, w
    <3>4. [r EXCEPT !.mem[p] = c] = [mem |-> w2, used |-> n.used, err |-> n.err]
      OBVIOUS
    <3>5. q = [mem |-> w2, used |-> n.used, err |-> n.err]
      BY <2>2, <2>6, <3>1, <3>4 DEF c
    <3>6. w2 \in Contents
      BY <3>1, <3>3 DEF Contents
    <3>7. q \in Mems /\ q.used = n.used /\ q.err = n.err /\ q.mem = w2
      BY <2>4, <3>5, <3>6 DEF Mems
    <3>8. PageOf(n.mem, dir, v) = p /\ p # None /\ PageOf(m.mem, dir, v) = None
      BY <2>1, <2>3, <2>6, ConstantsLemma
    <3>9. q.mem = [n.mem EXCEPT ![PageOf(n.mem, dir, v)] = c]
      BY <3>7, <3>8 DEF w
    <3> HIDE DEF w2
    <3>10. PICK own2 \in Owners : Tree(n.mem, n.used, own2, dirs)
      BY <2>3 DEF Grown
    <3>11. Rewrites(n, q, dirs, dir, v) /\ q.mem[PageOf(n.mem, dir, v)] = c
      <4>1. /\ q \in Mems /\ n \in Mems /\ q.used = n.used
            /\ q.mem = [n.mem EXCEPT ![PageOf(n.mem, dir, v)] = c]
            /\ PageOf(n.mem, dir, v) # None
        BY <2>4, <3>7, <3>8, <3>9
      <4> QED
        BY <3>10, <4>1, WriteLemma
    <3>12. Ok(q) => Ok(n)
      BY <3>7 DEF Ok
    <3>13. Grown(m, q, dirs, dir, v, v)
      BY <2>3, <2>4, <3>8, <3>11, <3>12, GrownThenWritten
    <3>14. PageOf(q.mem, dir, v) = PageOf(n.mem, dir, v)
      BY <1>0, <3>11 DEF Rewrites
    <3>15. Like(m, q, from, dir, v)
      BY <1>3, <3>8, <3>11, <3>14 DEF Like, c
    <3> QED
      BY <3>13, <3>15 DEF q
  <2> QED
    BY <2>5, <2>6
<1> QED
  BY <1>1, <1>2, <1>3

\* A copy stays one while other pages are mapped ...
LEMMA LikeLater ==
  ASSUME NEW m, NEW r \in Mems, NEW q \in Mems, NEW dirs \in SUBSET Phys, NEW dir \in dirs,
         NEW v \in UserPages, Grown(r, q, dirs, dir, v, v),
         NEW from, NEW x \in UserPages, x # v, Like(m, r, from, dir, x)
  PROVE  Like(m, q, from, dir, x)
<1>1. x \in AllPages /\ x \notin v .. v
  BY UserLemma
<1>2. PageOf(q.mem, dir, x) = PageOf(r.mem, dir, x)
  BY <1>1 DEF Grown
<1>3. PageOf(r.mem, dir, x) # None => q.mem[PageOf(r.mem, dir, x)] = r.mem[PageOf(r.mem, dir, x)]
  BY DEF Grown, Keeps
<1> QED
  BY <1>2, <1>3 DEF Like

\* ... and is one of the directory as it was before the loop.
LEMMA LikeEarlier ==
  ASSUME NEW m \in Mems, NEW r \in Mems, NEW q, NEW dirs \in SUBSET Phys, NEW dir \in dirs,
         NEW lo, NEW hi, Grown(m, r, dirs, dir, lo, hi), NEW from \in dirs, from # dir,
         NEW v \in UserPages, Like(r, q, from, dir, v)
  PROVE  Like(m, q, from, dir, v)
<1>1. PageOf(r.mem, from, v) = PageOf(m.mem, from, v)
  BY UserLemma DEF Grown
<1>2. PageOf(m.mem, from, v) # None => r.mem[PageOf(m.mem, from, v)] = m.mem[PageOf(m.mem, from, v)]
  BY DEF Grown, Keeps
<1> QED
  BY <1>1, <1>2 DEF Like

\* The whole loop, into a directory that maps nothing.
LEMMA CopyAll ==
  ASSUME NEW m \in Mems, NEW own \in Owners, NEW dirs \in SUBSET Phys,
         Tree(m.mem, m.used, own, dirs), NEW from \in dirs, NEW dir \in dirs, from # dir,
         NEW lo \in Nat, NEW hi \in Int, hi - lo + 1 \in Nat, lo .. hi \subseteq UserPages,
         \A v \in lo .. hi : PageOf(m.mem, dir, v) = None
  PROVE  LET q == CopyLoop(m, from, dir, lo, hi) IN
         /\ Grown(m, q, dirs, dir, lo, hi)
         /\ Ok(q) => \A v \in lo .. hi : Like(m, q, from, dir, v)
<1> DEFINE V == {r \in Mems : Grown(m, r, dirs, dir, lo, hi)}
           n == hi - lo + 1
           q == CopyLoop(m, from, dir, lo, hi)
<1>1. m \in V
  BY TakeGrows
<1>2. ASSUME NEW r \in V, NEW v \in lo .. hi
      PROVE  /\ Grown(r, CopyPage(r, from, dir, v), dirs, dir, v, v) /\ CopyPage(r, from, dir, v) \in V
             /\ Ok(CopyPage(r, from, dir, v)) /\ PageOf(r.mem, dir, v) = None
                  => Like(r, CopyPage(r, from, dir, v), from, dir, v)
  <2> DEFINE c == CopyPage(r, from, dir, v)
  <2>1. r \in Mems /\ v \in UserPages /\ Grown(m, r, dirs, dir, lo, hi)
    OBVIOUS
  <2>2. PICK own2 \in Owners : Tree(r.mem, r.used, own2, dirs)
    BY <2>1 DEF Grown
  <2>3. /\ Grown(r, c, dirs, dir, v, v)
        /\ Ok(c) /\ PageOf(r.mem, dir, v) = None => Like(r, c, from, dir, v)
    BY <2>1, <2>2, CopyTurn
  <2> HIDE DEF c
  <2>4. c \in Mems /\ v .. v \subseteq lo .. hi
    BY <2>1, <2>3 DEF Grown
  <2>5. Grown(m, c, dirs, dir, lo, hi)
    BY <2>1, <2>3, <2>4, GrownTrans
  <2> QED
    BY <2>3, <2>4, <2>5 DEF c
<1> HIDE DEF V
<1>a. \A r \in V, v \in lo .. hi : CopyPage(r, from, dir, v) \in V
  BY <1>2
<1>b. n \in Nat /\ n = hi - lo + 1
  OBVIOUS
<1>c. PICK run : CopyTurns(run, hi - lo + 1, V, m, from, dir, lo, hi)
  BY <1>1, <1>a, <1>b, CopyRun
<1>3. /\ run \in [0 .. n -> V] /\ run[0] = m /\ run[n] = q
      /\ \A i \in 1 .. n : run[i] = CopyPage(run[i - 1], from, dir, lo + i - 1)
  BY <1>c DEF CopyTurns
<1>4. n \in Nat /\ \A i \in 1 .. n : i - 1 \in 0 .. n /\ lo + i - 1 \in lo .. hi
  OBVIOUS
<1> DEFINE Done(i) == \A v \in lo .. hi : IF v < lo + i THEN Like(m, run[i], from, dir, v)
                                          ELSE PageOf(run[i].mem, dir, v) = None
           S == {i \in 0 .. n : Ok(run[i]) => Done(i)}
<1>5. 0 \in S
  BY <1>3
<1>6. ASSUME NEW i \in 1 .. n, i - 1 \in S
      PROVE  i \in S
  <2> DEFINE v == lo + i - 1
             r == run[i - 1]
             c == run[i]
  <2>1. r \in V /\ c = CopyPage(r, from, dir, v) /\ v \in lo .. hi
    BY <1>3, <1>4
  <2>2. /\ Grown(r, c, dirs, dir, v, v)
        /\ Ok(c) /\ PageOf(r.mem, dir, v) = None => Like(r, c, from, dir, v)
    BY <1>2, <2>1
  <2>3. r \in Mems /\ Grown(m, r, dirs, dir, lo, hi) /\ c \in Mems /\ v \in UserPages
    BY <2>1, <2>2 DEF Grown, V
  <2>4. SUFFICES ASSUME Ok(c)
                 PROVE  Done(i)
    BY DEF S
  <2>5. Ok(r)
    BY <2>2, <2>4 DEF Grown
  <2>6. Done(i - 1)
    BY <1>6, <2>5
  <2>7. \A x \in lo .. hi : x < v => Like(m, r, from, dir, x)
    BY <2>6
  <2>8. \A x \in lo .. hi : x >= v => PageOf(r.mem, dir, x) = None
    BY <2>6
  <2> HIDE DEF v, r, c, Done
  <2>9. ASSUME NEW x \in lo .. hi, x < v
        PROVE  Like(m, c, from, dir, x)
    <3>1. x \in UserPages /\ x # v /\ Like(m, r, from, dir, x)
      BY <2>1, <2>7, <2>9
    <3> QED
      BY <2>2, <2>3, <3>1, LikeLater
  <2>10. Like(m, c, from, dir, v)
    <3>1. PageOf(r.mem, dir, v) = None
      BY <2>1, <2>8
    <3>2. Like(r, c, from, dir, v)
      BY <2>2, <2>4, <3>1
    <3> QED
      BY <2>3, <3>2, LikeEarlier
  <2>11. ASSUME NEW x \in lo .. hi, x > v
         PROVE  PageOf(c.mem, dir, x) = None
    <3>1. x \in AllPages /\ x \notin v .. v /\ PageOf(r.mem, dir, x) = None
      BY <2>1, <2>8, <2>11, UserLemma
    <3> QED
      BY <2>2, <3>1 DEF Grown
  <2>12. \A x \in lo .. hi : x < lo + i <=> x < v \/ x = v
    BY DEF v
  <2> QED
    BY <2>1, <2>9, <2>10, <2>11, <2>12 DEF Done, c
<1>7. n \in S
  <2> HIDE DEF S, n
  <2>1. \A i \in 0 .. n : i \in S
    BY <1>4, <1>5, <1>6, LoopLemma
  <2> QED
    BY <1>4, <2>1
<1>8. Ok(q) => \A v \in lo .. hi : Like(m, q, from, dir, v)
  <2>1. \A v \in lo .. hi : v < lo + n
    OBVIOUS
  <2> QED
    BY <1>3, <1>7, <2>1
<1>9. q \in V
  BY <1>3, <1>4
<1> QED
  BY <1>8, <1>9 DEF V

-----------------------------------------------------------------------------
(* New spaces *)

\* q is m with the space of one directory more, and nothing else has changed that
\* a task can see.
Adds(m, q, dirs, dir) ==
  /\ q \in Mems /\ m.used \subseteq q.used /\ (Ok(q) => Ok(m)) /\ dir \notin dirs
  /\ \E own \in Owners : Tree(q.mem, q.used, own, dirs \union {dir})
  /\ \A d \in dirs, v \in AllPages : PageOf(q.mem, d, v) = PageOf(m.mem, d, v)
  /\ Keeps(m, q, dirs)

LEMMA KeepsTrans ==
  ASSUME NEW m, NEW r, NEW q, NEW dirs,
         \A d \in dirs, v \in AllPages : PageOf(r.mem, d, v) = PageOf(m.mem, d, v),
         Keeps(m, r, dirs), Keeps(r, q, dirs)
  PROVE  Keeps(m, q, dirs)
BY UserLemma DEF Keeps

LEMMA AddsThenGrown ==
  ASSUME NEW m, NEW r, NEW q, NEW dirs, NEW dir, NEW lo, NEW hi,
         Adds(m, r, dirs, dir), Grown(r, q, dirs \union {dir}, dir, lo, hi)
  PROVE  Adds(m, q, dirs, dir)
<1>1. \A d \in dirs : d # dir
  BY DEF Adds
<1>2. \A d \in dirs, v \in AllPages : PageOf(q.mem, d, v) = PageOf(r.mem, d, v)
  BY <1>1 DEF Grown
<1>3. \A d \in dirs, v \in AllPages : PageOf(r.mem, d, v) = PageOf(m.mem, d, v)
  BY DEF Adds
<1>4. Keeps(r, q, dirs)
  BY DEF Grown, Keeps
<1>5. Keeps(m, q, dirs)
  BY <1>3, <1>4, KeepsTrans DEF Adds
<1>6. /\ q \in Mems /\ m.used \subseteq q.used /\ (Ok(q) => Ok(m)) /\ dir \notin dirs
      /\ \E own \in Owners : Tree(q.mem, q.used, own, dirs \union {dir})
  BY DEF Adds, Grown
<1> QED
  BY <1>2, <1>3, <1>5, <1>6 DEF Adds

LEMMA AddsThenFilled ==
  ASSUME NEW m, NEW r, NEW q, NEW dirs, NEW dir,
         Adds(m, r, dirs, dir), Filled(r, q, dirs \union {dir}, dir)
  PROVE  Adds(m, q, dirs, dir)
<1>1. \A d \in dirs : d # dir
  BY DEF Adds
<1>2. \A d \in dirs, v \in AllPages : PageOf(q.mem, d, v) = PageOf(r.mem, d, v)
  BY DEF Filled
<1>3. \A d \in dirs, v \in AllPages : PageOf(r.mem, d, v) = PageOf(m.mem, d, v)
  BY DEF Adds
<1>4. Keeps(r, q, dirs)
  BY <1>1 DEF Filled, Keeps
<1>5. Keeps(m, q, dirs)
  BY <1>3, <1>4, KeepsTrans DEF Adds
<1>6. /\ q \in Mems /\ m.used \subseteq q.used /\ (Ok(q) => Ok(m)) /\ dir \notin dirs
      /\ \E own \in Owners : Tree(q.mem, q.used, own, dirs \union {dir})
  BY DEF Adds, Filled, Ok
<1> QED
  BY <1>2, <1>3, <1>5, <1>6 DEF Adds

\* memory_create_uvm adds a space that maps nothing.
LEMMA CreateAdds ==
  ASSUME NEW m \in Mems, NEW own \in Owners, NEW dirs \in SUBSET Phys,
         Tree(m.mem, m.used, own, dirs), NEW dir \in Phys, dir \notin m.used
  PROVE  /\ Adds(m, memory_create_uvm(m, dir), dirs, dir)
         /\ \A v \in UserPages : PageOf(memory_create_uvm(m, dir).mem, dir, v) = None
<1>1. AddsDir(m, memory_create_uvm(m, dir), dirs, dir)
  BY CreateLemma
<1> QED
  BY <1>1 DEF AddsDir, Adds, Ok

\* The pages of the program, of the stack, and all that a user space may map.
ImageRange == FirstUserPage .. FirstUserPage + ImagePages - 1
StackRange == StackTop - StackPages .. StackTop - 1

LEMMA RangesLemma ==
  /\ ImageRange \subseteq UserPages /\ StackRange \subseteq UserPages
  /\ UserPages = FirstUserPage .. StackTop - 1
  /\ FirstUserPage \in Nat /\ FirstUserPage + ImagePages - 1 \in Int
  /\ ImagePages \in Nat
  /\ StackTop - StackPages \in Nat /\ StackTop - 1 \in Int
  /\ StackTop - 1 - (StackTop - StackPages) + 1 \in Nat
  /\ StackTop - 1 - FirstUserPage + 1 \in Nat
<1> DEFINE top == PDE_CNT * PDE_CNT
<1>1. /\ PDE_CNT \in Nat /\ PDE_CNT >= 2 /\ top \in Nat
      /\ ImagePages \in Nat /\ ImagePages >= 1 /\ StackPages \in Nat
      /\ PDE_CNT + ImagePages + StackPages <= top
  BY VmAssumption
<1>2. StackTop = top /\ FirstUserPage = PDE_CNT /\ UserPages = PDE_CNT .. top - 1
  BY DEF StackTop, FirstUserPage, UserPages
<1> HIDE DEF top
<1> QED
  BY <1>1, <1>2 DEF ImageRange, StackRange

\* memory_copy_uvm adds a space with the words of another, if it succeeds.
LEMMA CopyLemma ==
  ASSUME NEW m \in Mems, NEW own \in Owners, NEW dirs \in SUBSET Phys,
         Tree(m.mem, m.used, own, dirs), NEW from \in dirs, NEW dir \in Phys, dir \notin m.used
  PROVE  /\ Adds(m, memory_copy_uvm(m, from, dir), dirs, dir)
         /\ Ok(memory_copy_uvm(m, from, dir)) =>
              \A v \in UserPages : Like(m, memory_copy_uvm(m, from, dir), from, dir, v)
<1> DEFINE r == memory_create_uvm(m, dir)
           q == memory_copy_uvm(m, from, dir)
           all == dirs \union {dir}
<1>1. q = CopyLoop(r, from, dir, FirstUserPage, StackTop - 1)
  BY DEF memory_copy_uvm, CopyLoop
<1>2. Adds(m, r, dirs, dir) /\ \A v \in UserPages : PageOf(r.mem, dir, v) = None
  BY CreateAdds
<1> HIDE DEF r, q
<1>3. PICK own2 \in Owners : Tree(r.mem, r.used, own2, all)
  BY <1>2 DEF Adds
<1>4. /\ r \in Mems /\ all \in SUBSET Phys /\ from \in all /\ dir \in all /\ from # dir
      /\ \A v \in FirstUserPage .. StackTop - 1 : PageOf(r.mem, dir, v) = None
  BY <1>2, RangesLemma DEF Adds
<1> HIDE DEF all
<1>a. FirstUserPage .. StackTop - 1 \subseteq UserPages
  BY RangesLemma
<1>5. LET c == CopyLoop(r, from, dir, FirstUserPage, StackTop - 1) IN
      /\ Grown(r, c, all, dir, FirstUserPage, StackTop - 1)
      /\ Ok(c) => \A v \in FirstUserPage .. StackTop - 1 : Like(r, c, from, dir, v)
  BY <1>3, <1>4, <1>a, RangesLemma, CopyAll
<1>6. /\ Grown(r, q, all, dir, FirstUserPage, StackTop - 1)
      /\ Ok(q) => \A v \in UserPages : Like(r, q, from, dir, v)
  BY <1>1, <1>5, RangesLemma
<1>7. Adds(m, q, dirs, dir)
  BY <1>2, <1>6, AddsThenGrown DEF all
<1>8. ASSUME NEW v \in UserPages, Like(r, q, from, dir, v)
      PROVE  Like(m, q, from, dir, v)
  <2>1. PageOf(r.mem, from, v) = PageOf(m.mem, from, v)
    BY <1>2, UserLemma DEF Adds
  <2>2. PageOf(m.mem, from, v) # None => r.mem[PageOf(m.mem, from, v)] = m.mem[PageOf(m.mem, from, v)]
    BY <1>2 DEF Adds, Keeps
  <2> QED
    BY <1>8, <2>1, <2>2 DEF Like
<1> QED
  BY <1>6, <1>7, <1>8 DEF q

\* q is r with the pages lo .. hi of a new space allocated.
Allocates(m, r, q, dirs, dir, lo, hi) ==
  /\ Adds(m, q, dirs, dir)
  /\ Ok(q) => /\ Ok(r)
              /\ \A v \in UserPages : PageOf(q.mem, dir, v) # None
                                       <=> v \in lo .. hi \/ PageOf(r.mem, dir, v) # None

LEMMA AllocAdds ==
  ASSUME NEW m \in Mems, NEW r \in Mems, NEW dirs \in SUBSET Phys, NEW dir \in Phys,
         Adds(m, r, dirs, dir), NEW lo \in Nat, NEW hi \in Int, hi - lo + 1 \in Nat,
         lo .. hi \subseteq UserPages
  PROVE  Allocates(m, r, memory_alloc_for_page_dir(r, dir, lo, hi), dirs, dir, lo, hi)
<1> DEFINE q == memory_alloc_for_page_dir(r, dir, lo, hi)
           all == dirs \union {dir}
<1>1. PICK own \in Owners : Tree(r.mem, r.used, own, all)
  BY DEF Adds
<1>2. all \in SUBSET Phys /\ dir \in all /\ lo .. hi \subseteq AllPages
  BY UserLemma
<1> HIDE DEF all
<1>a. LET s == memory_alloc_for_page_dir(r, dir, lo, hi) IN
      /\ Grown(r, s, all, dir, lo, hi)
      /\ Ok(s) => \A v \in lo .. hi : PageOf(s.mem, dir, v) # None
  BY <1>1, <1>2, AllocLoop
<1>3. /\ Grown(r, q, all, dir, lo, hi)
      /\ Ok(q) => \A v \in lo .. hi : PageOf(q.mem, dir, v) # None
  BY <1>a
<1> HIDE DEF q
<1>4. Adds(m, q, dirs, dir)
  BY <1>3, AddsThenGrown DEF all
<1>5. Ok(q) => Ok(r)
  BY <1>3 DEF Grown
<1>6. ASSUME Ok(q), NEW v \in UserPages
      PROVE  PageOf(q.mem, dir, v) # None <=> v \in lo .. hi \/ PageOf(r.mem, dir, v) # None
  <2>1. v \in AllPages
    BY UserLemma
  <2>2. CASE v \in lo .. hi
    BY <1>3, <1>6, <2>2
  <2>3. CASE v \notin lo .. hi
    BY <1>2, <1>3, <2>1, <2>3 DEF Grown
  <2> QED
    BY <2>2, <2>3
<1> QED
  BY <1>4, <1>5, <1>6 DEF q, Allocates

\* load adds a space that maps the program and the stack, if it succeeds.
LEMMA LoadLemma ==
  ASSUME NEW m \in Mems, NEW own \in Owners, NEW dirs \in SUBSET Phys,
         Tree(m.mem, m.used, own, dirs), NEW dir \in Phys, dir \notin m.used
  PROVE  /\ Adds(m, load(m, dir), dirs, dir)
         /\ Ok(load(m, dir)) =>
              \A v \in UserPages : PageOf(load(m, dir).mem, dir, v) # None
                                     <=> v \in ImageRange \union StackRange
<1> DEFINE last == FirstUserPage + ImagePages - 1
           bottom == StackTop - StackPages
           top == StackTop - 1
           r == memory_create_uvm(m, dir)
           image == memory_alloc_for_page_dir(r, dir, FirstUserPage, last)
           filled == FillLoop(image, dir, FirstUserPage, last)
           stack == memory_alloc_for_page_dir(filled, dir, bottom, top)
           q == load(m, dir)
           all == dirs \union {dir}
<1>1. q = IF Ok(filled) THEN stack ELSE filled
  BY DEF load, FillLoop
<1>2. Adds(m, r, dirs, dir) /\ \A v \in UserPages : PageOf(r.mem, dir, v) = None
  BY CreateAdds
<1>3. r \in Mems
  BY <1>2 DEF Adds
<1>i. /\ FirstUserPage \in Nat /\ last \in Int /\ last - FirstUserPage + 1 \in Nat
      /\ FirstUserPage .. last \subseteq UserPages /\ FirstUserPage .. last = ImageRange
  <2>1. FirstUserPage .. last = ImageRange /\ last \in Int
    BY RangesLemma DEF ImageRange
  <2>2. last - FirstUserPage + 1 \in Nat
    BY RangesLemma
  <2> QED
    BY <2>1, <2>2, RangesLemma
<1>s. /\ bottom \in Nat /\ top \in Int /\ top - bottom + 1 \in Nat
      /\ bottom .. top \subseteq UserPages /\ bottom .. top = StackRange
  BY RangesLemma DEF StackRange
<1> HIDE DEF r, q, last, bottom, top
<1>4. Allocates(m, r, image, dirs, dir, FirstUserPage, last)
  BY <1>2, <1>3, <1>i, AllocAdds
<1> HIDE DEF image
<1>5. /\ Adds(m, image, dirs, dir) /\ image \in Mems
      /\ Ok(image) => \A v \in UserPages : PageOf(image.mem, dir, v) # None <=> v \in ImageRange
  BY <1>2, <1>4, <1>i DEF Adds, Allocates
<1>6. PICK own2 \in Owners : Tree(image.mem, image.used, own2, all)
  BY <1>5 DEF Adds
<1>7. all \in SUBSET Phys /\ dir \in all
  OBVIOUS
<1> HIDE DEF all
<1>8. Ok(image) => \A v \in FirstUserPage .. last :
                     PageOf(image.mem, dir, v) # None
  BY <1>5, <1>i
<1>9. Filled(image, filled, all, dir)
  BY <1>5, <1>6, <1>7, <1>8, <1>i, FillAll
<1> HIDE DEF filled
<1>10. Adds(m, filled, dirs, dir)
  BY <1>5, <1>9, AddsThenFilled DEF all
<1>11. filled \in Mems /\ (Ok(filled) <=> Ok(image))
       /\ \A v \in UserPages : PageOf(filled.mem, dir, v) = PageOf(image.mem, dir, v)
  BY <1>7, <1>9, UserLemma DEF Filled, Ok
<1>12. Allocates(m, filled, stack, dirs, dir, bottom, top)
  BY <1>10, <1>11, <1>s, AllocAdds
<1> HIDE DEF stack
<1>13. Adds(m, q, dirs, dir)
  BY <1>1, <1>10, <1>12 DEF Allocates
<1>14. ASSUME Ok(q), NEW v \in UserPages
       PROVE  PageOf(q.mem, dir, v) # None <=> v \in ImageRange \union StackRange
  <2>1. q = stack /\ Ok(image)
    BY <1>1, <1>11, <1>14
  <2>2. PageOf(q.mem, dir, v) # None
          <=> v \in bottom .. top \/ PageOf(filled.mem, dir, v) # None
    BY <1>12, <1>14, <2>1 DEF Allocates
  <2>3. PageOf(filled.mem, dir, v) # None <=> v \in ImageRange
    BY <1>5, <1>11, <2>1
  <2> QED
    BY <1>s, <2>2, <2>3
<1> QED
  BY <1>13, <1>14 DEF q

-----------------------------------------------------------------------------
(* What the system calls leave behind *)

Roots == {cr3[t] : t \in Live}

\* q is m, as far as the spaces of dirs go.
Same(m, q, dirs) ==
  /\ q \in Mems /\ \E own \in Owners : Tree(q.mem, q.used, own, dirs)
  /\ \A d \in dirs, v \in AllPages : PageOf(q.mem, d, v) = PageOf(m.mem, d, v)
  /\ Keeps(m, q, dirs)

\* The spaces of the live tasks, in directories of their own.
SpacesInv ==
  /\ mem \in Contents /\ used \in SUBSET Phys
  /\ \E own \in Owners : Tree(mem, used, own, Roots)
  /\ cr3 \in [Tasks -> Phys \union {None}]
  /\ \A t, u \in Live : cr3[t] = cr3[u] => t = u
  /\ halted \in Errors

LEMMA Forget ==
  ASSUME NEW w, NEW u, NEW dirs, NEW less \in SUBSET dirs,
         \E own \in Owners : Tree(w, u, own, dirs)
  PROVE  \E own \in Owners : Tree(w, u, own, less)
<1>1. PICK own \in Owners : Tree(w, u, own, dirs)
  OBVIOUS
<1>2. Tree(w, u, own, less)
  BY <1>1 DEF Tree, DirsOK, TablesOK, LeavesOK
<1> QED
  BY <1>2

LEMMA AddsSame ==
  ASSUME NEW m, NEW q, NEW dirs, NEW dir, Adds(m, q, dirs, dir)
  PROVE  Same(m, q, dirs)
<1>1. \E own \in Owners : Tree(q.mem, q.used, own, dirs \union {dir})
  BY DEF Adds
<1>2. \E own \in Owners : Tree(q.mem, q.used, own, dirs)
  BY <1>1, Forget
<1> QED
  BY <1>2 DEF Adds, Same

LEMMA SameTrans ==
  ASSUME NEW m, NEW r, NEW q, NEW dirs, Same(m, r, dirs), Same(r, q, dirs)
  PROVE  Same(m, q, dirs)
<1>1. Keeps(m, q, dirs)
  BY KeepsTrans DEF Same
<1> QED
  BY <1>1 DEF Same

\* A call that changes no word and clears no bit changes no space.
LEMMA NothingSame ==
  ASSUME NEW m \in Mems, NEW dirs \in SUBSET Phys,
         \E own \in Owners : Tree(m.mem, m.used, own, dirs),
         NEW q \in Mems, q.mem = m.mem, m.used \subseteq q.used
  PROVE  Same(m, q, dirs)
<1>1. PICK own \in Owners : Tree(m.mem, m.used, own, dirs)
  OBVIOUS
<1>2. m.mem \in Contents /\ q.mem \in Contents /\ m.used \in SUBSET Phys /\ q.used \in SUBSET Phys
  BY DEF Mems
<1>3. Tree(q.mem, q.used, own, dirs)
  BY <1>1, <1>2, SameTree
<1>4. Keeps(m, q, dirs)
  BY DEF Keeps
<1> QED
  BY <1>3, <1>4 DEF Same

LEMMA MemoryLemma ==
  ASSUME SpacesInv
  PROVE  /\ Memory \in Mems /\ Ok(Memory) /\ Memory.mem = mem /\ Memory.used = used
         /\ Roots \in SUBSET Phys /\ \E own \in Owners : Tree(Memory.mem, Memory.used, own, Roots)
         /\ \A t \in Tasks : cr3[t] # None => t \in Live /\ cr3[t] \in Roots
<1>1. Memory \in Mems /\ Ok(Memory) /\ Memory.mem = mem /\ Memory.used = used
  BY DEF SpacesInv, Memory, Mems, Errors, Ok
<1>2. Roots \in SUBSET Phys /\ \A t \in Tasks : cr3[t] # None => t \in Live /\ cr3[t] \in Roots
  BY DEF SpacesInv, Roots, Live
<1> QED
  BY <1>1, <1>2 DEF SpacesInv

LEMMA TakeLemma ==
  ASSUME NEW m \in Mems, NEW p \in Phys
  PROVE  /\ Take(m, p) \in Mems /\ Take(m, p).mem = m.mem /\ Take(m, p).used = m.used \union {p}
         /\ Take(m, p).err = m.err
BY DEF Take, Mems

\* fork_fails leaves a stack behind.
LEMMA ForkFailsLemma ==
  ASSUME SpacesInv, NEW t \in Tasks, fork_fails(t)
  PROVE  \E q : Leaves(q) /\ Same(Memory, q, Roots) /\ cr3' = cr3
<1> DEFINE m == Memory
           p == addr_alloc_page(m)
           q == IF p = None THEN m ELSE Take(m, p)
<1>1. Leaves(q) /\ cr3' = cr3
  BY DEF fork_fails
<1>2. m \in Mems /\ Roots \in SUBSET Phys /\ \E own \in Owners : Tree(m.mem, m.used, own, Roots)
  BY MemoryLemma
<1> HIDE DEF m
<1>3. p # None => p \in Phys
  BY <1>2, AllocLemma
<1> HIDE DEF p
<1>4. q \in Mems /\ q.mem = m.mem /\ m.used \subseteq q.used
  BY <1>2, <1>3, TakeLemma
<1> HIDE DEF q
<1>5. Same(m, q, Roots)
  BY <1>2, <1>4, NothingSame
<1> QED
  BY <1>1, <1>5 DEF m

\* Destroying a directory that maps nothing frees nothing.
LEMMA DestroyNothing ==
  ASSUME NEW m \in Mems, NEW dir \in Phys, \A e \in Entries \ {0} : m.mem[dir][e] = None
  PROVE  memory_destroy_uvm(m, dir) = m
<1>1. Released(m, dir) = {}
  BY DEF Released
<1>2. memory_destroy_uvm(m, dir) = [m EXCEPT !.used = @]
  BY <1>1 DEF memory_destroy_uvm
<1> QED
  BY <1>2 DEF Mems

LEMMA ExecveFailsLemma ==
  ASSUME SpacesInv, NEW t \in Tasks, NEW file, execve_fails(t, file)
  PROVE  \E q : Leaves(q) /\ Same(Memory, q, Roots) /\ cr3' = cr3
<1> DEFINE m == Memory
           dir == addr_alloc_page(m)
           r == memory_create_uvm(m, dir)
<1>1. Leaves(IF dir = None THEN m ELSE memory_destroy_uvm(r, dir)) /\ cr3' = cr3
  BY DEF execve_fails
<1>2. m \in Mems /\ Roots \in SUBSET Phys /\ \E own \in Owners : Tree(m.mem, m.used, own, Roots)
  BY MemoryLemma
<1> HIDE DEF m
<1>3. CASE dir = None
  <2>1. Same(m, m, Roots)
    BY <1>2, NothingSame
  <2> QED
    BY <1>1, <1>3, <2>1 DEF m
<1>4. CASE dir # None
  <2>1. dir \in Phys /\ dir \notin m.used
    BY <1>2, <1>4, AllocLemma
  <2> HIDE DEF dir
  <2>2. PICK own \in Owners : Tree(m.mem, m.used, own, Roots)
    BY <1>2
  <2>3. Adds(m, r, Roots, dir)
    BY <1>2, <2>1, <2>2, CreateAdds
  <2>4. \A e \in Entries \ {0} : r.mem[dir][e] = None
    <3> DEFINE w == m.mem
               n == [mem |-> w, used |-> m.used, err |-> m.err]
               c == [e \in Entries |-> IF e = 0 THEN KernelTable ELSE None]
    <3>1. m = n /\ w \in Contents
      BY <1>2 DEF Mems
    <3> HIDE DEF w
    <3>2. Take(n, dir) = [mem |-> w, used |-> m.used \union {dir}, err |-> m.err]
      BY DEF Take
    <3> HIDE DEF c
    <3>3. memory_create_uvm(n, dir) = [mem |-> [w EXCEPT ![dir] = c], used |-> m.used \union {dir}, err |-> m.err]
      BY <3>2 DEF memory_create_uvm, c
    <3>4. r.mem[dir] = c
      BY <2>1, <3>1, <3>3 DEF Contents
    <3> QED
      BY <3>4 DEF c
  <2>5. r \in Mems
    BY <2>3 DEF Adds
  <2> HIDE DEF r
  <2>6. memory_destroy_uvm(r, dir) = r
    BY <2>1, <2>4, <2>5, DestroyNothing
  <2>7. Same(m, r, Roots)
    BY <2>3, AddsSame
  <2> QED
    BY <1>1, <1>4, <2>6, <2>7 DEF m
<1> QED
  BY <1>3, <1>4

\* The task x has got a space in a directory of its own.
Begins(q, x, dir) ==
  /\ dir \in Phys \ Roots /\ cr3' = [cr3 EXCEPT ![x] = dir]
  /\ \E own \in Owners : Tree(q.mem, q.used, own, Roots \union {dir})

LEMMA LikeSame ==
  ASSUME NEW m, NEW r, NEW q, NEW dirs, Same(m, r, dirs), NEW from \in dirs, NEW dir,
         NEW v \in UserPages, Like(r, q, from, dir, v)
  PROVE  Like(m, q, from, dir, v)
<1>1. PageOf(r.mem, from, v) = PageOf(m.mem, from, v)
  BY UserLemma DEF Same
<1>2. PageOf(m.mem, from, v) # None => r.mem[PageOf(m.mem, from, v)] = m.mem[PageOf(m.mem, from, v)]
  BY DEF Same, Keeps
<1> QED
  BY <1>1, <1>2 DEF Like

\* sys_fork copies the parent's space, or the kernel goes on with no result.
LEMMA ForkLemma ==
  ASSUME SpacesInv, NEW t \in Tasks, NEW child \in Tasks, sys_fork(t, child)
  PROVE  \E q : /\ Leaves(q) /\ Same(Memory, q, Roots)
                /\ ~Ok(q) => cr3' = cr3
                /\ Ok(q) => \E dir : /\ Begins(q, child, dir)
                                     /\ \A v \in UserPages : Like(Memory, q, cr3[t], dir, v)
<1> DEFINE m == Memory
           p == addr_alloc_page(m)
           stack == Take(m, p)
           p2 == addr_alloc_page(stack)
           unused == memory_create_uvm(stack, p2)
           dir == addr_alloc_page(unused)
           copied == IF dir = None THEN [unused EXCEPT !.err = "undefined"]
                     ELSE memory_copy_uvm(unused, cr3[t], dir)
           from == cr3[t]
<1>1. /\ Leaves(copied) /\ cr3' = (IF Ok(copied) THEN [cr3 EXCEPT ![child] = dir] ELSE cr3)
      /\ p # None /\ FreePages(stack) # {} /\ cr3[t] # None
  BY DEF sys_fork, Runs
<1>2. /\ m \in Mems /\ Ok(m) /\ Roots \in SUBSET Phys
      /\ \E own \in Owners : Tree(m.mem, m.used, own, Roots)
      /\ from \in Roots
  BY <1>1, MemoryLemma
<1> HIDE DEF m, from
<1>3. p \in Phys
  BY <1>1, <1>2, AllocLemma
<1> HIDE DEF p
<1>4. stack \in Mems /\ stack.mem = m.mem /\ m.used \subseteq stack.used
  BY <1>2, <1>3, TakeLemma
<1> HIDE DEF stack
<1>5. Same(m, stack, Roots)
  BY <1>2, <1>4, NothingSame
<1>6. p2 \in Phys /\ p2 \notin stack.used
  BY <1>1, <1>4, AllocLemma
<1> HIDE DEF p2
<1>7. PICK own2 \in Owners : Tree(stack.mem, stack.used, own2, Roots)
  BY <1>5 DEF Same
<1>8. Adds(stack, unused, Roots, p2)
  BY <1>2, <1>4, <1>6, <1>7, CreateAdds
<1> HIDE DEF unused
<1>9. Same(stack, unused, Roots) /\ unused \in Mems
  BY <1>8, AddsSame DEF Adds
<1>10. Same(m, unused, Roots)
  BY <1>5, <1>9, SameTrans
<1>11. CASE dir = None
  <2>1. copied = [unused EXCEPT !.err = "undefined"]
    BY <1>11
  <2>2. copied \in Mems /\ copied.mem = unused.mem /\ copied.used = unused.used /\ ~Ok(copied)
    BY <1>9, <2>1 DEF Mems, Errors, Ok
  <2> HIDE DEF copied
  <2>3. Same(m, copied, Roots)
    BY <1>10, <2>2 DEF Same, Keeps
  <2> QED
    BY <1>1, <2>2, <2>3 DEF m
<1>12. CASE dir # None
  <2>1. copied = memory_copy_uvm(unused, from, dir)
    BY <1>12 DEF from
  <2>2. dir \in Phys /\ dir \notin unused.used
    BY <1>9, <1>12, AllocLemma
  <2> HIDE DEF copied, dir
  <2>3. PICK own3 \in Owners : Tree(unused.mem, unused.used, own3, Roots)
    BY <1>10 DEF Same
  <2>4. /\ Adds(unused, copied, Roots, dir)
        /\ Ok(copied) => \A v \in UserPages : Like(unused, copied, from, dir, v)
    BY <1>2, <1>9, <2>1, <2>2, <2>3, CopyLemma
  <2>5. Same(m, copied, Roots)
    BY <1>10, <2>4, AddsSame, SameTrans
  <2>6. Ok(copied) => Begins(copied, child, dir)
    BY <1>1, <2>2, <2>4 DEF Begins, Adds
  <2>7. Ok(copied) => \A v \in UserPages : Like(m, copied, from, dir, v)
    BY <1>2, <1>10, <2>4, LikeSame
  <2>8. ~Ok(copied) => cr3' = cr3
    BY <1>1
  <2> QED
    BY <1>1, <2>5, <2>6, <2>7, <2>8 DEF m, from
<1> QED
  BY <1>11, <1>12

\* Giving a directory up clears no bit of the allocator.  addr_free_page takes the
\* distance of a page in bytes for its number, far beyond the pages there are; all
\* but that of the first page, which memory_destroy_uvm may read behind a table.
HarmlessFrees ==
  \A t \in Live : cr3'[t] # cr3[t] => \A w \in Released(Memory', cr3[t]) : FreedBit(w) \notin Phys

\* sys_execve moves the task to a new space, if it succeeds.
LEMMA ExecveLemma ==
  ASSUME SpacesInv, NEW t \in Tasks, NEW file, sys_execve(t, file), HarmlessFrees
  PROVE  \E q : /\ Leaves(q) /\ Same(Memory, q, Roots)
                /\ ~Ok(q) => cr3' = cr3
                /\ Ok(q) => \E dir : /\ Begins(q, t, dir)
                                     /\ \A v \in UserPages : PageOf(q.mem, dir, v) # None
                                          <=> v \in ImageRange \union StackRange
<1> DEFINE m == Memory
           dir == addr_alloc_page(m)
           q == load(m, dir)
           from == cr3[t]
<1>1. /\ Leaves(IF Ok(q) THEN memory_destroy_uvm(q, from) ELSE q)
      /\ cr3' = (IF Ok(q) THEN [cr3 EXCEPT ![t] = dir] ELSE cr3)
      /\ dir # None /\ from # None
  BY DEF sys_execve, Runs
<1>2. /\ m \in Mems /\ Ok(m) /\ Roots \in SUBSET Phys
      /\ \E own \in Owners : Tree(m.mem, m.used, own, Roots)
      /\ from \in Roots /\ t \in Live
  BY <1>1, MemoryLemma
<1> HIDE DEF m
<1>3. dir \in Phys /\ dir \notin m.used
  BY <1>1, <1>2, AllocLemma
<1> HIDE DEF dir, from
<1>4. PICK own \in Owners : Tree(m.mem, m.used, own, Roots)
  BY <1>2
<1>5. /\ Adds(m, q, Roots, dir)
      /\ Ok(q) => \A v \in UserPages : PageOf(q.mem, dir, v) # None <=> v \in ImageRange \union StackRange
  BY <1>2, <1>3, <1>4, LoadLemma
<1> HIDE DEF q
<1>6. Same(m, q, Roots) /\ q \in Mems
  BY <1>5, AddsSame DEF Adds
<1>7. CASE ~Ok(q)
  BY <1>1, <1>6, <1>7 DEF m
<1>8. CASE Ok(q)
  <2>1. cr3' = [cr3 EXCEPT ![t] = dir] /\ Leaves(memory_destroy_uvm(q, from))
    BY <1>1, <1>8
  <2>2. Begins(q, t, dir)
    BY <1>3, <1>5, <2>1 DEF Begins, Adds
  <2>3. cr3'[t] # cr3[t]
    BY <1>2, <2>1, <2>2 DEF Begins, from, SpacesInv
  <2>4. \A w \in Released(Memory', from) : FreedBit(w) \notin Phys
    BY <1>2, <2>3 DEF HarmlessFrees, from
  <2>5. memory_destroy_uvm(q, from) = [q EXCEPT !.used = @ \ {FreedBit(w) : w \in Released(q, from)}]
    BY DEF memory_destroy_uvm
  <2>6. mem' = q.mem
    BY <1>6, <2>1, <2>5 DEF Leaves, Mems
  <2>7. Released(Memory', from) = Released(q, from)
    BY <2>6 DEF Released, ReleasedFor, Memory
  <2>8. q.used \ {FreedBit(w) : w \in Released(q, from)} = q.used
    BY <1>6, <2>4, <2>7 DEF Mems
  <2>9. memory_destroy_uvm(q, from) = q
    BY <1>6, <2>5, <2>8 DEF Mems
  <2>10. Leaves(q)
    BY <2>1, <2>9
  <2> QED
    BY <1>5, <1>6, <1>8, <2>2, <2>10 DEF m
<1> QED
  BY <1>7, <1>8

LEMMA DivLemma ==
  ASSUME NEW n \in Nat, NEW p \in Nat, p # 0, NEW x \in Nat, x < n * p
  PROVE  x \div p \in 0 .. n - 1
<1> DEFINE e == x \div p
           i == x % p
<1>1. e \in Int /\ i \in 0 .. p - 1 /\ x = p * e + i
  OBVIOUS
<1> HIDE DEF e, i
<1>2. CASE e < 0
  <2>1. p * e <= p * (-1)
    BY <1>1, <1>2
  <2> QED
    BY <1>1, <2>1
<1>3. CASE e >= n
  <2>1. p * e >= p * n /\ p * n = n * p
    BY <1>1, <1>3
  <2> QED
    BY <1>1, <2>1
<1> QED
  BY <1>1, <1>2, <1>3 DEF e

\* The pages sys_sbrk allocates are consecutive and within the address space.
LEMMA HeapPagesLemma ==
  ASSUME NEW start \in Nat, NEW incr \in Nat, start + incr <= HeapLimit, HeapPages(start, incr) # {}
  PROVE  LET pages == HeapPages(start, incr) IN
         /\ pages = Min(pages) .. Max(pages) /\ pages \subseteq AllPages
         /\ Min(pages) \in Nat /\ Max(pages) \in Int /\ Max(pages) - Min(pages) + 1 \in Nat
<1> DEFINE new == IF start % MEM_PAGE_SIZE = 0 THEN start
                  ELSE start + (MEM_PAGE_SIZE - (start % MEM_PAGE_SIZE))
           lo == new \div MEM_PAGE_SIZE
           hi == (start + incr - 1) \div MEM_PAGE_SIZE
           top == PDE_CNT * PDE_CNT
           pages == HeapPages(start, incr)
<1>1. MEM_PAGE_SIZE \in Nat /\ MEM_PAGE_SIZE # 0 /\ top \in Nat /\ HeapLimit <= top * MEM_PAGE_SIZE
      /\ HeapLimit \in Int /\ top * MEM_PAGE_SIZE \in Int
  <2>1. MEM_PAGE_SIZE \in Nat \ {0} /\ PDE_CNT \in Nat /\ HeapLimit \in 0 .. top * MEM_PAGE_SIZE
    BY VmAssumption
  <2>2. top \in Nat
    BY <2>1
  <2> HIDE DEF top
  <2> QED
    BY <2>1, <2>2
<1>2. pages = (IF start + incr <= new THEN {} ELSE lo .. hi)
  BY DEF HeapPages
<1> HIDE DEF pages, lo, hi, top
<1>3. new \in Nat /\ start <= new
  BY <1>1
<1> HIDE DEF new
<1>4. pages = lo .. hi /\ new < start + incr
  BY <1>2, <1>3 DEF pages
<1>5. lo \in 0 .. top - 1
  <2>1. new < top * MEM_PAGE_SIZE
    BY <1>1, <1>3, <1>4
  <2> QED
    BY <1>1, <1>3, <2>1, DivLemma DEF lo
<1>6. hi \in 0 .. top - 1
  <2>1. start + incr - 1 \in Nat /\ start + incr - 1 < top * MEM_PAGE_SIZE
    BY <1>1, <1>3, <1>4
  <2> QED
    BY <1>1, <2>1, DivLemma DEF hi
<1>7. lo <= hi
  BY <1>4, <1>5, <1>6 DEF pages
<1>8. Min(pages) = lo
  <2>1. lo \in pages /\ \A y \in pages : lo <= y
    BY <1>4, <1>5, <1>6, <1>7
  <2>2. \A x \in pages : (\A y \in pages : x <= y) => x = lo
    BY <1>4, <1>5, <1>6, <2>1
  <2> QED
    BY <2>1, <2>2 DEF Min
<1>9. Max(pages) = hi
  <2>1. hi \in pages /\ \A y \in pages : hi >= y
    BY <1>4, <1>5, <1>6, <1>7
  <2>2. \A x \in pages : (\A y \in pages : x >= y) => x = hi
    BY <1>4, <1>5, <1>6, <2>1
  <2> QED
    BY <2>1, <2>2 DEF Max
<1>10. pages \subseteq 0 .. top - 1
  BY <1>1, <1>4, <1>5, <1>6
<1>11. lo \in Nat /\ hi \in Int /\ hi - lo + 1 \in Nat
  BY <1>1, <1>5, <1>6, <1>7
<1> QED
  BY <1>4, <1>8, <1>9, <1>10, <1>11 DEF AllPages, top, pages

\* sys_sbrk adds pages to the space of the task.
LEMMA SbrkLemma ==
  ASSUME SpacesInv, heap_end \in [Tasks -> Nat], NEW t \in Tasks, NEW incr \in Incrs, sys_sbrk(t, incr)
  PROVE  \E q, lo, hi : /\ Leaves(q) /\ Grown(Memory, q, Roots, cr3[t], lo, hi) /\ cr3' = cr3
                        /\ Ok(q) => \A v \in HeapPages(heap_end[t], incr) : PageOf(q.mem, cr3[t], v) # None
<1> DEFINE m == Memory
           dir == cr3[t]
           pages == HeapPages(heap_end[t], incr)
           lo == Min(pages)
           hi == Max(pages)
           n == memory_alloc_for_page_dir(m, dir, lo, hi)
           q == IF pages = {} THEN m ELSE n
<1>1. /\ Leaves(q) /\ cr3' = cr3 /\ dir # None
      /\ heap_end[t] \in Nat /\ incr \in Nat /\ heap_end[t] + incr <= HeapLimit
  BY VmAssumption DEF sys_sbrk, Runs
<1>2. /\ m \in Mems /\ Roots \in SUBSET Phys
      /\ \E own \in Owners : Tree(m.mem, m.used, own, Roots)
      /\ dir \in Roots
  BY <1>1, MemoryLemma
<1>3. PICK own \in Owners : Tree(m.mem, m.used, own, Roots)
  BY <1>2
<1>4. CASE pages = {}
  <2>1. q = m
    BY <1>4
  <2> HIDE DEF q, m, dir, lo, hi
  <2>2. Grown(m, m, Roots, dir, lo, hi)
    BY <1>2, <1>3, TakeGrows
  <2> HIDE DEF pages
  <2>3. Ok(m) => \A v \in pages : PageOf(m.mem, dir, v) # None
    BY <1>4
  <2> QED
    BY <1>1, <2>1, <2>2, <2>3 DEF m, dir, pages
<1>5. CASE pages # {}
  <2>1. q = n
    BY <1>5
  <2> HIDE DEF q
  <2>2. /\ pages = lo .. hi /\ pages \subseteq AllPages
        /\ lo \in Nat /\ hi \in Int /\ hi - lo + 1 \in Nat
    BY <1>1, <1>5, HeapPagesLemma
  <2> HIDE DEF m, dir, lo, hi, pages
  <2>3. lo .. hi \subseteq AllPages
    BY <2>2
  <2>4. LET s == memory_alloc_for_page_dir(m, dir, lo, hi) IN
        /\ Grown(m, s, Roots, dir, lo, hi)
        /\ Ok(s) => \A v \in lo .. hi : PageOf(s.mem, dir, v) # None
    BY <1>2, <1>3, <2>2, <2>3, AllocLoop
  <2>5. /\ Grown(m, q, Roots, dir, lo, hi)
        /\ Ok(q) => \A v \in pages : PageOf(q.mem, dir, v) # None
    BY <2>1, <2>2, <2>4
  <2> QED
    BY <1>1, <2>5 DEF m, dir, pages
<1> QED
  BY <1>4, <1>5

\* A store writes a page of the task alone.
LEMMA StoreLemma ==
  ASSUME SpacesInv, NEW t \in Tasks, NEW v \in Written, NEW word \in Words, Store(t, v, word)
  PROVE  /\ Rewrites(Memory, Memory', Roots, cr3[t], v) /\ PageOf(mem, cr3[t], v) # None
         /\ cr3[t] # None /\ cr3' = cr3 /\ halted' = "no"
<1> DEFINE m == Memory
           q == Memory'
           dir == cr3[t]
           p == PageOf(m.mem, dir, v)
           c == [mem[p] EXCEPT ![0] = word]
<1>1. /\ m \in Mems /\ m.mem = mem /\ m.used = used /\ Roots \in SUBSET Phys
      /\ \E own \in Owners : Tree(m.mem, m.used, own, Roots)
  BY MemoryLemma
<1>2. /\ p # None /\ mem' = [mem EXCEPT ![p] = c] /\ used' = used /\ cr3' = cr3
      /\ halted' = "no" /\ dir # None
  BY <1>1 DEF Store, Runs
<1>3. dir \in Roots
  BY <1>2, MemoryLemma
<1>4. v \in UserPages /\ word \in Nat
  BY VmAssumption DEF UserPages
<1>5. PICK own \in Owners : Tree(m.mem, m.used, own, Roots)
  BY <1>1
<1> HIDE DEF m, dir, q
<1>6. p \in Phys
  BY <1>1, <1>2, <1>3, <1>4, <1>5, ExclusiveLemma
<1>7. mem \in Contents
  BY DEF SpacesInv
<1> HIDE DEF p
<1>8. c \in [Entries -> Nat]
  BY <1>4, <1>6, <1>7 DEF Contents
<1> HIDE DEF c
<1>9. mem' \in Contents
  BY <1>2, <1>7, <1>8 DEF Contents
<1>10. q \in Mems /\ q.mem = mem' /\ q.used = used'
  BY <1>2, <1>9 DEF q, Memory, Mems, Errors, SpacesInv
<1>11. q.used = m.used /\ q.mem = [m.mem EXCEPT ![PageOf(m.mem, dir, v)] = c]
  BY <1>1, <1>2, <1>10 DEF p
<1>12. PageOf(m.mem, dir, v) # None
  BY <1>2 DEF p
<1>13. Rewrites(m, q, Roots, dir, v)
  BY <1>1, <1>3, <1>4, <1>5, <1>10, <1>11, <1>12, WriteLemma
<1> QED
  BY <1>1, <1>2, <1>12, <1>13 DEF m, q, dir

\* task_first_init makes the space of the first task.
LEMMA BootLemma ==
  /\ Booted.after \in Mems /\ Booted.dir \in Phys
  /\ \E own \in Owners : Tree(Booted.after.mem, Booted.after.used, own, {Booted.dir})
  /\ Ok(Booted.after) => \A v \in UserPages : PageOf(Booted.after.mem, Booted.dir, v) # None
                                                <=> v \in ImageRange
<1> DEFINE m == Blank
           p == addr_alloc_page(m)
           stack == Take(m, p)
           dir == addr_alloc_page(stack)
           r == memory_create_uvm(stack, dir)
           last == FirstUserPage + ImagePages - 1
           q == memory_alloc_for_page_dir(r, dir, FirstUserPage, last)
           none == [x \in Phys |-> <<0, 0, 0>>]
<1>1. Booted.after = q /\ Booted.dir = dir
  BY DEF Booted
<1>2. m \in Mems /\ Ok(m) /\ m.used = {KernelTable}
  BY ConstantsLemma DEF Blank, Mems, Contents, Errors, Ok
<1>3. none \in Owners /\ Tree(m.mem, m.used, none, {})
  <2>1. none \in Owners
    BY DEF Owners, Places
  <2>2. KernelOK(m.mem, m.used)
    BY ConstantsLemma DEF KernelOK, Blank
  <2> QED
    BY <2>1, <2>2 DEF Tree, DirsOK, TablesOK, LeavesOK
<1> HIDE DEF m, none
<1>4. 2 \in Phys /\ 3 \in Phys
  BY ConstantsLemma DEF Phys
<1>5. p \in Phys
  <2>1. FreePages(m) # {}
    BY <1>2, <1>4 DEF FreePages, KernelTable
  <2> QED
    BY <1>2, <2>1, AllocLemma
<1> HIDE DEF p
<1>6. stack \in Mems /\ stack.mem = m.mem /\ stack.used = {KernelTable, p}
  BY <1>2, <1>5, TakeLemma
<1> HIDE DEF stack
<1>7. dir \in Phys /\ dir \notin stack.used
  <2>1. 2 \in FreePages(stack) \/ 3 \in FreePages(stack)
    BY <1>4, <1>6 DEF FreePages, KernelTable
  <2>2. FreePages(stack) # {}
    BY <2>1
  <2> QED
    BY <1>6, <2>2, AllocLemma
<1> HIDE DEF dir
<1>8. Same(m, stack, {})
  <2>1. {} \in SUBSET Phys /\ m.used \subseteq stack.used
    BY <1>2, <1>6
  <2>2. \E own \in Owners : Tree(m.mem, m.used, own, {})
    BY <1>3
  <2> QED
    BY <1>2, <1>6, <2>1, <2>2, NothingSame
<1>9. PICK own \in Owners : Tree(stack.mem, stack.used, own, {})
  BY <1>8 DEF Same
<1>10. {} \in SUBSET Phys
  OBVIOUS
<1>11. Adds(stack, r, {}, dir) /\ \A v \in UserPages : PageOf(r.mem, dir, v) = None
  BY <1>6, <1>7, <1>9, <1>10, CreateAdds
<1> HIDE DEF r
<1>12. r \in Mems
  BY <1>11 DEF Adds
<1>13. /\ FirstUserPage \in Nat /\ last \in Int /\ last - FirstUserPage + 1 \in Nat
       /\ FirstUserPage .. last \subseteq UserPages /\ FirstUserPage .. last = ImageRange
  <2>1. FirstUserPage .. last = ImageRange /\ last \in Int
    BY RangesLemma DEF ImageRange
  <2>2. last - FirstUserPage + 1 \in Nat
    BY RangesLemma
  <2> QED
    BY <2>1, <2>2, RangesLemma
<1> HIDE DEF last
<1>14. Allocates(stack, r, q, {}, dir, FirstUserPage, last)
  BY <1>6, <1>7, <1>10, <1>11, <1>12, <1>13, AllocAdds
<1> HIDE DEF q
<1>15. q \in Mems /\ \E own2 \in Owners : Tree(q.mem, q.used, own2, {dir})
  <2>1. {} \union {dir} = {dir}
    OBVIOUS
  <2> QED
    BY <1>14, <2>1 DEF Allocates, Adds
<1>16. Ok(q) => \A v \in UserPages : PageOf(q.mem, dir, v) # None <=> v \in ImageRange
  BY <1>11, <1>13, <1>14 DEF Allocates
<1> QED
  BY <1>1, <1>7, <1>15, <1>16

LEMMA InitSpaces == VmInit => SpacesInv /\ heap_end \in [Tasks -> Nat]
<1> SUFFICES ASSUME VmInit
             PROVE  SpacesInv /\ heap_end \in [Tasks -> Nat]
  OBVIOUS
<1> DEFINE q == Booted.after
           dir == Booted.dir
<1>1. /\ q \in Mems /\ dir \in Phys /\ dir # None
      /\ \E own \in Owners : Tree(q.mem, q.used, own, {dir})
  BY BootLemma, ConstantsLemma
<1>2. /\ mem = q.mem /\ used = q.used /\ halted = "no" /\ heap_end = heap_start
      /\ cr3 = [t \in Tasks |-> IF t = FirstTask THEN dir ELSE None]
      /\ heap_start = [t \in Tasks |-> IF t = FirstTask THEN MEM_PAGE_SIZE \div 2 ELSE 0]
  BY DEF VmInit
<1> HIDE DEF q, dir
<1>3. Roots = {dir} /\ Live = {FirstTask}
  BY <1>1, <1>2, VmAssumption DEF Roots, Live
<1>4. MEM_PAGE_SIZE \div 2 \in Nat
  <2>1. MEM_PAGE_SIZE \in Nat
    BY VmAssumption
  <2> QED
    BY <2>1
<1> QED
  BY <1>1, <1>2, <1>3, <1>4 DEF SpacesInv, Mems, Errors

\* A step that leaves the spaces as they are, or begins one, keeps the invariant.
LEMMA OutcomeLemma ==
  ASSUME SpacesInv, NEW q, Leaves(q), Same(Memory, q, Roots), NEW x \in Tasks,
         cr3' = cr3 \/ \E dir : Begins(q, x, dir)
  PROVE  SpacesInv'
<1>1. mem' \in Contents /\ used' \in SUBSET Phys /\ halted' \in Errors
      /\ mem' = q.mem /\ used' = q.used
  BY DEF Same, Leaves, Mems
<1>2. CASE cr3' = cr3
  <2>1. Roots' = Roots /\ Live' = Live
    BY <1>2 DEF Roots, Live
  <2>2. \E own \in Owners : Tree(mem', used', own, Roots)
    BY <1>1 DEF Same
  <2>3. \E own \in Owners : Tree(mem', used', own, Roots')
    BY <2>1, <2>2
  <2> QED
    BY <1>1, <1>2, <2>1, <2>3 DEF SpacesInv
<1>3. CASE \E dir : Begins(q, x, dir)
  <2>1. PICK dir : Begins(q, x, dir)
    BY <1>3
  <2>2. /\ dir \in Phys /\ dir \notin Roots /\ cr3' = [cr3 EXCEPT ![x] = dir]
        /\ \E own \in Owners : Tree(mem', used', own, Roots \union {dir})
    BY <1>1, <2>1 DEF Begins
  <2>3. cr3 \in [Tasks -> Phys \union {None}] /\ cr3' \in [Tasks -> Phys \union {None}]
    BY <2>2 DEF SpacesInv
  <2>4. \A t \in Live' : IF t = x THEN cr3'[t] = dir ELSE t \in Live /\ cr3'[t] = cr3[t]
    BY <2>2, <2>3 DEF Live
  <2>5. Roots' \subseteq Roots \union {dir}
    BY <2>4 DEF Roots
  <2>6. \E own \in Owners : Tree(mem', used', own, Roots')
    BY <2>2, <2>5, Forget
  <2>7. \A t, u \in Live' : cr3'[t] = cr3'[u] => t = u
    <3>1. \A t \in Live' : t # x => cr3'[t] # dir
      BY <2>2, <2>4 DEF Roots
    <3> QED
      BY <2>4, <3>1 DEF SpacesInv
  <2> QED
    BY <1>1, <2>3, <2>6, <2>7 DEF SpacesInv
<1> QED
  BY <1>2, <1>3

\* Growing and writing leave a memory of the same directories.
LEMMA GrownLeaves ==
  ASSUME SpacesInv, NEW q \in Mems, \E own \in Owners : Tree(q.mem, q.used, own, Roots),
         mem' = q.mem, used' = q.used, halted' \in Errors, cr3' = cr3
  PROVE  SpacesInv'
<1>1. Roots' = Roots /\ Live' = Live
  BY DEF Roots, Live
<1>2. \E own \in Owners : Tree(mem', used', own, Roots')
  BY <1>1
<1> QED
  BY <1>1, <1>2 DEF SpacesInv, Mems

LEMMA NextSpaces ==
  ASSUME SpacesInv, heap_end \in [Tasks -> Nat], [VmNext]_vars, [HarmlessFrees]_vars
  PROVE  SpacesInv' /\ heap_end' \in [Tasks -> Nat]
<1>1. CASE UNCHANGED vars
  <2>1. UNCHANGED <<mem, used, cr3, heap_end, halted>>
    BY <1>1 DEF vars
  <2>2. Roots' = Roots /\ Live' = Live
    BY <2>1 DEF Roots, Live
  <2> QED
    BY <2>1, <2>2 DEF SpacesInv
<1>2. ASSUME NEW t \in Tasks, NEW child \in Tasks, sys_fork(t, child)
      PROVE  SpacesInv' /\ heap_end' \in [Tasks -> Nat]
  <2>1. PICK q : /\ Leaves(q) /\ Same(Memory, q, Roots)
                 /\ ~Ok(q) => cr3' = cr3
                 /\ Ok(q) => \E dir : Begins(q, child, dir)
    BY <1>2, ForkLemma
  <2>2. cr3' = cr3 \/ \E dir : Begins(q, child, dir)
    BY <2>1
  <2>3. SpacesInv'
    BY <2>1, <2>2, OutcomeLemma
  <2>4. heap_end' \in [Tasks -> Nat]
    BY <1>2 DEF sys_fork
  <2> QED
    BY <2>3, <2>4
<1>3. ASSUME NEW t \in Tasks, fork_fails(t)
      PROVE  SpacesInv' /\ heap_end' \in [Tasks -> Nat]
  <2>1. PICK q : Leaves(q) /\ Same(Memory, q, Roots) /\ cr3' = cr3
    BY <1>3, ForkFailsLemma
  <2>2. SpacesInv'
    BY <2>1, OutcomeLemma
  <2> QED
    BY <1>3, <2>2 DEF fork_fails
<1>4. ASSUME NEW t \in Tasks, NEW file \in Files, sys_execve(t, file), ~UNCHANGED vars
      PROVE  SpacesInv' /\ heap_end' \in [Tasks -> Nat]
  <2>1. HarmlessFrees
    BY <1>4
  <2>2. PICK q : /\ Leaves(q) /\ Same(Memory, q, Roots)
                 /\ ~Ok(q) => cr3' = cr3
                 /\ Ok(q) => \E dir : Begins(q, t, dir)
    BY <1>4, <2>1, ExecveLemma
  <2>3. cr3' = cr3 \/ \E dir : Begins(q, t, dir)
    BY <2>2
  <2>4. SpacesInv'
    BY <2>2, <2>3, OutcomeLemma
  <2>5. heap_end' \in [Tasks -> Nat]
    <3>1. ImageEnd \in Nat
      <4>1. FirstUserPage + ImagePages \in Nat \ {0} /\ MEM_PAGE_SIZE \in Nat \ {0}
        BY VmAssumption DEF FirstUserPage
      <4> DEFINE a == FirstUserPage + ImagePages
      <4>2. a \in Nat /\ a >= 1 /\ MEM_PAGE_SIZE \in Nat
        BY <4>1
      <4> HIDE DEF a
      <4>3. a * MEM_PAGE_SIZE \in Nat /\ a * MEM_PAGE_SIZE >= 1 * MEM_PAGE_SIZE
        BY <4>2
      <4>4. MEM_PAGE_SIZE \div 2 \in Nat /\ MEM_PAGE_SIZE \div 2 <= MEM_PAGE_SIZE
        BY <4>2
      <4> QED
        BY <4>2, <4>3, <4>4 DEF ImageEnd, a
    <3> QED
      BY <1>4, <3>1 DEF sys_execve
  <2> QED
    BY <2>4, <2>5
<1>5. ASSUME NEW t \in Tasks, NEW file \in Files, execve_fails(t, file)
      PROVE  SpacesInv' /\ heap_end' \in [Tasks -> Nat]
  <2>1. PICK q : Leaves(q) /\ Same(Memory, q, Roots) /\ cr3' = cr3
    BY <1>5, ExecveFailsLemma
  <2>2. SpacesInv'
    BY <2>1, OutcomeLemma
  <2> QED
    BY <1>5, <2>2 DEF execve_fails
<1>6. ASSUME NEW t \in Tasks, NEW incr \in Incrs, sys_sbrk(t, incr)
      PROVE  SpacesInv' /\ heap_end' \in [Tasks -> Nat]
  <2>1. PICK q, lo, hi : Leaves(q) /\ Grown(Memory, q, Roots, cr3[t], lo, hi) /\ cr3' = cr3
    BY <1>6, SbrkLemma
  <2>2. /\ q \in Mems /\ \E own \in Owners : Tree(q.mem, q.used, own, Roots)
        /\ mem' = q.mem /\ used' = q.used /\ halted' \in Errors
    BY <2>1 DEF Grown, Leaves, Mems
  <2>3. SpacesInv'
    BY <2>1, <2>2, GrownLeaves
  <2>4. heap_end' \in [Tasks -> Nat]
    <3>1. incr \in Nat /\ heap_end[t] + incr \in Nat
      BY VmAssumption
    <3> QED
      BY <1>6, <3>1 DEF sys_sbrk
  <2> QED
    BY <2>3, <2>4
<1>7. ASSUME NEW t \in Tasks, NEW v \in Written, NEW word \in Words, Store(t, v, word)
      PROVE  SpacesInv' /\ heap_end' \in [Tasks -> Nat]
  <2>1. Rewrites(Memory, Memory', Roots, cr3[t], v) /\ cr3' = cr3 /\ halted' = "no"
    BY <1>7, StoreLemma
  <2>2. /\ Memory' \in Mems /\ \E own \in Owners : Tree(Memory'.mem, Memory'.used, own, Roots)
        /\ mem' = Memory'.mem /\ used' = Memory'.used /\ halted' \in Errors
    BY <2>1 DEF Rewrites, Memory, Errors
  <2>3. SpacesInv'
    BY <2>1, <2>2, GrownLeaves
  <2> QED
    BY <1>7, <2>3 DEF Store
<1> QED
  BY <1>1, <1>2, <1>3, <1>4, <1>5, <1>6, <1>7 DEF VmNext

-----------------------------------------------------------------------------
(* Spaces are disjoint *)

LEMMA FootprintLemma ==
  ASSUME SpacesInv, NEW own \in Owners, Tree(mem, used, own, Roots), NEW t \in Live, NEW p \in Footprint(t)
  PROVE  p \in used \ {KernelTable} /\ own[p][1] = cr3[t]
<1> DEFINE d == cr3[t]
           tables == {mem[d][e] : e \in Entries \ {0}} \ {None}
<1>1. d \in Roots
  BY DEF Roots
<1>2. ASSUME NEW x \in tables
      PROVE  \E e \in Entries \ {0} : x = mem[d][e] /\ x # None
  OBVIOUS
<1>3. Footprint(t) = {d} \union tables \union UNION {{mem[x][i] : i \in Entries} \ {None} : x \in tables}
  BY DEF Footprint
<1> HIDE DEF d, tables
<1>4. CASE p = d
  <2>1. p \in used \ {KernelTable} /\ own[p] = <<d, 0, 0>>
    BY <1>1, <1>4 DEF Tree, DirsOK
  <2> QED
    BY <2>1 DEF d
<1>5. CASE p \in tables
  <2>1. PICK e \in Entries \ {0} : p = mem[d][e] /\ p # None
    BY <1>2, <1>5
  <2>2. p \in used \ {KernelTable} /\ own[p] = <<d, e, -1>>
    BY <1>1, <2>1 DEF Tree, TablesOK
  <2> QED
    BY <2>2 DEF d
<1>6. CASE p \in UNION {{mem[x][i] : i \in Entries} \ {None} : x \in tables}
  <2>1. PICK x \in tables, i \in Entries : p = mem[x][i] /\ p # None
    BY <1>6
  <2>2. PICK e \in Entries \ {0} : x = mem[d][e] /\ x # None
    BY <1>2, <2>1
  <2>3. p = PageAt(mem, d, e, i)
    BY <2>1, <2>2 DEF PageAt
  <2>4. p \in used \ {KernelTable} /\ own[p] = <<d, e, i>>
    BY <1>1, <2>1, <2>3 DEF Tree, LeavesOK
  <2> QED
    BY <2>4 DEF d
<1> QED
  BY <1>3, <1>4, <1>5, <1>6

LEMMA DisjointLemma == SpacesInv => SpacesDisjoint
<1> SUFFICES ASSUME SpacesInv
             PROVE  SpacesDisjoint
  OBVIOUS
<1>1. PICK own \in Owners : Tree(mem, used, own, Roots)
  BY DEF SpacesInv
<1>2. \A t \in Live : \A p \in Footprint(t) : p \in used \ {KernelTable} /\ own[p][1] = cr3[t]
  BY <1>1, FootprintLemma
<1>3. ASSUME NEW t \in Live, NEW u \in Live \ {t}
      PROVE  Footprint(t) \intersect Footprint(u) = {}
  <2>1. cr3[t] # cr3[u]
    BY DEF SpacesInv
  <2> QED
    BY <1>2, <2>1
<1> QED
  BY <1>2, <1>3 DEF SpacesDisjoint

\* The inductive invariant of the page tables.  Every page a directory of a live
\* task leads to has one owner, a place in one directory: nothing can be mapped
\* twice, be a table here and data there, or be free.
THEOREM SpacesInvariant ==
  VmSpec /\ [][HarmlessFrees]_vars => [](SpacesInv /\ heap_end \in [Tasks -> Nat])
<1>1. VmInit => SpacesInv /\ heap_end \in [Tasks -> Nat]
  BY InitSpaces
<1>2. (SpacesInv /\ heap_end \in [Tasks -> Nat]) /\ [VmNext]_vars /\ [HarmlessFrees]_vars
        => (SpacesInv /\ heap_end \in [Tasks -> Nat])'
  BY NextSpaces
<1> QED
  BY <1>1, <1>2, PTL DEF VmSpec

\* The spaces of two tasks share no page, and all their pages are allocated, in
\* whatever order tasks fork, load programs, grow their heaps and store, as long
\* as memory_destroy_uvm clears no bit of the allocator.
THEOREM SpacesStayDisjoint == VmSpec /\ [][HarmlessFrees]_vars => []SpacesDisjoint
<1>1. SpacesInv /\ heap_end \in [Tasks -> Nat] => SpacesDisjoint
  BY DisjointLemma
<1> QED
  BY <1>1, SpacesInvariant, PTL

\* The words memory_destroy_uvm takes for addresses of pages.
LEMMA ReleasedLemma ==
  ASSUME NEW m \in Mems, NEW own \in Owners, NEW dirs \in SUBSET Phys,
         Tree(m.mem, m.used, own, dirs), NEW d \in dirs, NEW w \in Released(m, d)
  PROVE  w \in Nat /\ w # 0
<1>1. w # None
  BY DEF Released
<1>2. PICK e \in Entries \ {0} : m.mem[d][e] # None /\ w \in ReleasedFor(m, m.mem[d][e])
  BY DEF Released
<1> DEFINE table == m.mem[d][e]
<1>3. table \in Phys /\ m.mem \in Contents
  BY <1>2 DEF Tree, TablesOK, Mems
<1> HIDE DEF table
<1>4. w \in ReleasedFor(m, table)
  BY <1>2 DEF table
<1>5. CASE w = table
  BY <1>1, <1>3, <1>5, ConstantsLemma DEF None
<1>6. CASE \E i \in Entries : w = m.mem[table][i]
  BY <1>1, <1>3, <1>6 DEF Contents, None
<1>7. CASE table < PageNr /\ w = m.mem[table + 1][0]
  <2>1. table + 1 \in Phys
    BY <1>3, <1>7, ConstantsLemma DEF Phys
  <2> QED
    BY <1>1, <1>3, <1>7, <2>1, ConstantsLemma DEF Contents, None
<1> QED
  BY <1>4, <1>5, <1>6, <1>7 DEF ReleasedFor

\* With no more pages than bytes in a page addr_free_page reaches the bit of the
\* first page alone.
LEMMA FreedLemma ==
  ASSUME PageNr <= MEM_PAGE_SIZE, SpacesInv, [VmNext]_vars, KernelTable \in used'
  PROVE  [HarmlessFrees]_vars
<1> SUFFICES ASSUME VmNext, NEW t \in Live, cr3'[t] # cr3[t],
                    NEW w \in Released(Memory', cr3[t]), FreedBit(w) \in Phys
             PROVE  FALSE
  BY DEF HarmlessFrees
<1>1. PICK file \in Files : sys_execve(t, file)
  <2>1. t \in Tasks /\ cr3[t] # None /\ cr3 \in [Tasks -> Phys \union {None}]
    BY DEF Live, SpacesInv
  <2>2. \A x, child \in Tasks : ~sys_fork(x, child)
    BY <2>1 DEF sys_fork
  <2>3. \A x \in Tasks : ~fork_fails(x)
    BY DEF fork_fails
  <2>4. \A x \in Tasks, file \in Files : ~execve_fails(x, file) /\ (x # t => ~sys_execve(x, file))
    BY <2>1 DEF execve_fails, sys_execve
  <2>5. \A x \in Tasks, incr \in Incrs : ~sys_sbrk(x, incr)
    BY DEF sys_sbrk
  <2>6. \A x \in Tasks, v \in Written, word \in Words : ~Store(x, v, word)
    BY DEF Store
  <2> QED
    BY <2>2, <2>3, <2>4, <2>5, <2>6 DEF VmNext
<1> DEFINE m == Memory
           dir == addr_alloc_page(m)
           q == load(m, dir)
           from == cr3[t]
<1>2. /\ Leaves(IF Ok(q) THEN memory_destroy_uvm(q, from) ELSE q)
      /\ cr3' = (IF Ok(q) THEN [cr3 EXCEPT ![t] = dir] ELSE cr3)
      /\ dir # None /\ from # None
  BY <1>1 DEF sys_execve, Runs
<1>3. /\ m \in Mems /\ Roots \in SUBSET Phys
      /\ \E own \in Owners : Tree(m.mem, m.used, own, Roots) /\ from \in Roots
  BY <1>2, MemoryLemma DEF Live
<1> HIDE DEF m
<1>4. dir \in Phys /\ dir \notin m.used
  BY <1>2, <1>3, AllocLemma
<1> HIDE DEF dir, from
<1>5. PICK own \in Owners : Tree(m.mem, m.used, own, Roots)
  BY <1>3
<1>6. Adds(m, q, Roots, dir)
  BY <1>3, <1>4, <1>5, LoadLemma
<1> HIDE DEF q
<1>7. Same(m, q, Roots) /\ q \in Mems
  BY <1>6, AddsSame DEF Adds
<1>8. PICK own2 \in Owners : Tree(q.mem, q.used, own2, Roots)
  BY <1>7 DEF Same
<1>9. Leaves(memory_destroy_uvm(q, from))
  BY <1>2
<1>10. memory_destroy_uvm(q, from) = [q EXCEPT !.used = @ \ {FreedBit(x) : x \in Released(q, from)}]
  BY DEF memory_destroy_uvm
<1>11. mem' = q.mem /\ used' = q.used \ {FreedBit(x) : x \in Released(q, from)}
  BY <1>7, <1>9, <1>10 DEF Leaves, Mems
<1>12. w \in Released(q, from)
  <2>1. Released(Memory', from) = Released(q, from)
    <3>1. Memory'.mem = q.mem
      BY <1>11 DEF Memory
    <3>2. \A table : ReleasedFor(Memory', table) = ReleasedFor(q, table)
      BY <3>1 DEF ReleasedFor
    <3> QED
      BY <3>1, <3>2 DEF Released
  <2> QED
    BY <2>1 DEF from
<1>13. w \in Nat /\ w # 0
  BY <1>3, <1>7, <1>8, <1>12, ReleasedLemma
<1>14. FreedBit(w) # KernelTable
  BY <1>11, <1>12
<1>15. w >= 2
  BY <1>13, <1>14, VmAssumption DEF FreedBit, KernelTable
<1>16. (w - 1) * MEM_PAGE_SIZE >= 1 * MEM_PAGE_SIZE
  <2>1. MEM_PAGE_SIZE \in Nat /\ w - 1 \in Nat /\ w - 1 >= 1
    BY <1>13, <1>15, VmAssumption
  <2> QED
    BY <2>1
<1>17. FreedBit(w) > PageNr
  <2> DEFINE x == (w - 1) * MEM_PAGE_SIZE
  <2>1. MEM_PAGE_SIZE \in Nat /\ PageNr \in Nat /\ w - 1 \in Nat /\ x \in Int
    BY <1>13, <1>15, VmAssumption
  <2>2. x >= MEM_PAGE_SIZE /\ FreedBit(w) = 1 + x
    BY <1>16, <2>1 DEF FreedBit
  <2> HIDE DEF x
  <2> QED
    BY <2>1, <2>2
<1> QED
  BY <1>17, ConstantsLemma DEF Phys

\* With no more pages than bytes in a page, which is 16 MB of the machine's memory,
\* spaces share no page as long as nobody frees the kernel's page table.
THEOREM SmallMemoryKeepsSpaces ==
  ASSUME PageNr <= MEM_PAGE_SIZE
  PROVE  VmSpec /\ [](KernelTable \in used) => []SpacesDisjoint
<1> DEFINE Inv == SpacesInv /\ heap_end \in [Tasks -> Nat]
<1>1. VmInit => Inv
  BY InitSpaces
<1>2. Inv /\ [VmNext]_vars /\ KernelTable \in used /\ (KernelTable \in used)' => Inv'
  <2> SUFFICES ASSUME Inv, [VmNext]_vars, KernelTable \in used'
               PROVE  Inv'
    OBVIOUS
  <2>1. [HarmlessFrees]_vars
    BY FreedLemma
  <2> QED
    BY <2>1, NextSpaces
<1>3. Inv => SpacesDisjoint
  BY DisjointLemma
<1> QED
  BY <1>1, <1>2, <1>3, PTL DEF VmSpec

-----------------------------------------------------------------------------
(* Page directories implement separate spaces *)

\* Every live task maps the first page of its program, so no live space is empty.
SpacesLive == \A t \in Live : PageOf(mem, cr3[t], FirstUserPage) # None

LEMMA SpaceLemma ==
  ASSUME SpacesInv, NEW t \in Tasks
  PROVE  /\ cr3[t] = None => \A v \in UserPages : Space(t)[v] = -1
         /\ cr3[t] # None => \A v \in UserPages :
              /\ PageOf(mem, cr3[t], v) = None => Space(t)[v] = -1
              /\ PageOf(mem, cr3[t], v) # None =>
                   Space(t)[v] # -1 /\ Space(t)[v] = mem[PageOf(mem, cr3[t], v)][0]
<1>1. CASE cr3[t] = None
  BY <1>1 DEF Space
<1>2. CASE cr3[t] # None
  <2>1. ASSUME NEW v \in UserPages, PageOf(mem, cr3[t], v) # None
        PROVE  mem[PageOf(mem, cr3[t], v)][0] # -1
    <3> DEFINE m == Memory
               d == cr3[t]
    <3>1. /\ m \in Mems /\ m.mem = mem /\ Roots \in SUBSET Phys /\ d \in Roots
          /\ \E own \in Owners : Tree(m.mem, m.used, own, Roots)
      BY <1>2, MemoryLemma
    <3> HIDE DEF m, d
    <3>2. PICK own \in Owners : Tree(m.mem, m.used, own, Roots)
      BY <3>1
    <3>3. PageOf(m.mem, d, v) # None
      BY <2>1, <3>1 DEF d
    <3>4. PageOf(m.mem, d, v) \in Phys
      BY <3>1, <3>2, <3>3, ExclusiveLemma
    <3>5. mem[PageOf(m.mem, d, v)][0] \in Nat
      <4> DEFINE p == PageOf(m.mem, d, v)
      <4>1. p \in Phys /\ mem \in Contents /\ 0 \in Entries
        BY <3>4, ConstantsLemma DEF SpacesInv
      <4> HIDE DEF p
      <4>2. mem[p][0] \in Nat
        BY <4>1 DEF Contents
      <4> QED
        BY <4>2 DEF p
    <3> QED
      BY <3>1, <3>5 DEF d
  <2> QED
    BY <1>2, <2>1 DEF Space
<1> QED
  BY <1>1, <1>2

\* A word of a space is -1 exactly where nothing is mapped, also after a step.
SpaceShown ==
  \A t \in Tasks, v \in UserPages : cr3[t] # None =>
    (/\ PageOf(mem, cr3[t], v) = None => Space(t)[v] = -1
     /\ PageOf(mem, cr3[t], v) # None => Space(t)[v] # -1)

LEMMA SpaceNow == SpacesInv => SpaceShown
BY SpaceLemma DEF SpaceShown

LEMMA SpaceNext == SpacesInv' => SpaceShown'
BY SpaceNow, PTL

\* The space of a task whose directory maps the same pages, with the same words.
LEMMA SpaceKept ==
  ASSUME NEW t \in Tasks, cr3'[t] = cr3[t],
         cr3[t] # None => \A v \in UserPages :
           /\ PageOf(mem', cr3[t], v) = PageOf(mem, cr3[t], v)
           /\ PageOf(mem, cr3[t], v) # None =>
                mem'[PageOf(mem, cr3[t], v)] = mem[PageOf(mem, cr3[t], v)]
  PROVE  Space(t)' = Space(t)
<1>1. \A v \in UserPages : Space(t)'[v] = Space(t)[v]
  BY DEF Space
<1>2. Space(t)' = [v \in UserPages |-> Space(t)'[v]] /\ Space(t) = [v \in UserPages |-> Space(t)[v]]
  BY DEF Space
<1> QED
  BY <1>1, <1>2

\* So it is after any call, for the tasks that keep their directory.
LEMMA SameSpaces ==
  ASSUME SpacesInv, NEW q, Same(Memory, q, Roots), mem' = q.mem, NEW t \in Tasks, cr3'[t] = cr3[t]
  PROVE  Space(t)' = Space(t)
<1>1. ASSUME cr3[t] # None, NEW v \in UserPages
      PROVE  /\ PageOf(mem', cr3[t], v) = PageOf(mem, cr3[t], v)
             /\ PageOf(mem, cr3[t], v) # None =>
                  mem'[PageOf(mem, cr3[t], v)] = mem[PageOf(mem, cr3[t], v)]
  <2>1. cr3[t] \in Roots /\ Memory.mem = mem /\ v \in AllPages
    BY <1>1, MemoryLemma, UserLemma
  <2> QED
    BY <2>1 DEF Same, Keeps
<1> QED
  BY <1>1, SpaceKept

\* The steps of the abstract specification.
AbstractStep == Spaces!Next \/ UNCHANGED [t \in Tasks |-> Space(t)]

LEMMA AbstractFork ==
  ASSUME NEW t \in Tasks, NEW child \in Tasks,
         \E v \in UserPages : Space(t)[v] # -1, \A v \in UserPages : Space(child)[v] = -1,
         Space(child)' = Space(t), \A u \in Tasks \ {child} : Space(u)' = Space(u)
  PROVE  AbstractStep
<1> DEFINE space == [x \in Tasks |-> Space(x)]
<1>1. Space(t) # [v \in UserPages |-> -1] /\ Space(child) = [v \in UserPages |-> -1]
  BY DEF Space
<1>2. /\ space[t] # [v \in UserPages |-> -1] /\ space[child] = [v \in UserPages |-> -1]
      /\ space'[child] = space[t] /\ \A u \in Tasks \ {child} : space'[u] = space[u]
  BY <1>1
<1> HIDE DEF space
<1>3. Spaces!Fork(t, child)
  BY <1>2 DEF Spaces!Fork, Spaces!Only, Spaces!NoSpace, space
<1>4. space[t] # Spaces!NoSpace
  BY <1>2 DEF Spaces!NoSpace
<1> QED
  BY <1>3, <1>4 DEF AbstractStep, Spaces!Next, space

LEMMA AbstractExec ==
  ASSUME NEW t \in Tasks, \E v \in UserPages : Space(t)[v] # -1,
         \A v \in UserPages : Space(t)'[v] # -1 <=> v \in ImageRange \union StackRange,
         \A u \in Tasks \ {t} : Space(u)' = Space(u)
  PROVE  AbstractStep
<1> DEFINE space == [x \in Tasks |-> Space(x)]
           image == {v \in UserPages : v < FirstUserPage + ImagePages \/ v >= StackTop - StackPages}
<1>1. space[t] # [v \in UserPages |-> -1] /\ \A u \in Tasks \ {t} : space'[u] = space[u]
  BY DEF Space
<1>2. \A v \in UserPages : v \in image <=> v \in ImageRange \union StackRange
  BY RangesLemma DEF ImageRange, StackRange
<1>3. {v \in UserPages : space'[t][v] # -1} = image
  <2>1. \A v \in UserPages : space'[t][v] = Space(t)'[v]
    OBVIOUS
  <2>2. \A v \in UserPages : space'[t][v] # -1 <=> v \in image
    BY <1>2, <2>1
  <2> HIDE DEF space
  <2> QED
    BY <2>2
<1> HIDE DEF space, image
<1>4. Spaces!Exec(t)
  BY <1>1, <1>3 DEF Spaces!Exec, Spaces!Only, Spaces!Mapped, space, image
<1>5. space[t] # Spaces!NoSpace
  BY <1>1 DEF Spaces!NoSpace
<1> QED
  BY <1>4, <1>5 DEF AbstractStep, Spaces!Next, space

LEMMA AbstractGrow ==
  ASSUME NEW t \in Tasks, \E v \in UserPages : Space(t)[v] # -1,
         \A v \in UserPages : Space(t)[v] # -1 => Space(t)'[v] = Space(t)[v],
         \A u \in Tasks \ {t} : Space(u)' = Space(u)
  PROVE  AbstractStep
<1> DEFINE space == [x \in Tasks |-> Space(x)]
<1>1. space[t] # [v \in UserPages |-> -1] /\ \A u \in Tasks \ {t} : space'[u] = space[u]
  BY DEF Space
<1>2. \A v \in UserPages : space[t][v] # -1 => space'[t][v] = space[t][v]
  OBVIOUS
<1> HIDE DEF space
<1>3. Spaces!Grow(t)
  BY <1>1, <1>2 DEF Spaces!Grow, Spaces!Only, Spaces!Mapped, space
<1>4. space[t] # Spaces!NoSpace
  BY <1>1 DEF Spaces!NoSpace
<1> QED
  BY <1>3, <1>4 DEF AbstractStep, Spaces!Next, space

LEMMA AbstractStore ==
  ASSUME NEW t \in Tasks, NEW v \in UserPages, Space(t)[v] # -1,
         \A x \in UserPages : Space(t)'[x] # -1 <=> Space(t)[x] # -1,
         \A x \in UserPages \ {v} : Space(t)'[x] = Space(t)[x],
         \A u \in Tasks \ {t} : Space(u)' = Space(u)
  PROVE  AbstractStep
<1> DEFINE space == [x \in Tasks |-> Space(x)]
<1>1. space[t] # [x \in UserPages |-> -1] /\ \A u \in Tasks \ {t} : space'[u] = space[u]
  BY DEF Space
<1>2. /\ space[t][v] # -1 /\ \A x \in UserPages : space'[t][x] # -1 <=> space[t][x] # -1
      /\ \A x \in UserPages \ {v} : space'[t][x] = space[t][x]
  OBVIOUS
<1> HIDE DEF space
<1>3. Spaces!Store(t, v)
  BY <1>1, <1>2 DEF Spaces!Store, Spaces!Only, Spaces!Mapped, space
<1>4. space[t] # Spaces!NoSpace
  BY <1>1 DEF Spaces!NoSpace
<1> QED
  BY <1>3, <1>4 DEF AbstractStep, Spaces!Next, space

LEMMA AbstractStutter ==
  ASSUME \A t \in Tasks : Space(t)' = Space(t)
  PROVE  AbstractStep
BY DEF AbstractStep

\* A live task's space is not empty.
LEMMA LiveSpaces ==
  ASSUME SpacesInv, SpacesLive, NEW t \in Tasks, cr3[t] # None
  PROVE  \E v \in UserPages : Space(t)[v] # -1
<1>1. FirstUserPage \in UserPages
  BY RangesLemma, VmAssumption DEF FirstUserPage, StackTop
<1>2. PageOf(mem, cr3[t], FirstUserPage) # None
  BY DEF SpacesLive, Live
<1>3. Space(t)[FirstUserPage] # -1
  BY <1>1, <1>2, SpaceLemma
<1> QED
  BY <1>1, <1>3

FirstLive(t) == cr3[t] # None => PageOf(mem, cr3[t], FirstUserPage) # None

LEMMA FirstLemma ==
  /\ FirstUserPage \in UserPages /\ FirstUserPage \in AllPages /\ FirstUserPage \in ImageRange
  /\ SpacesLive <=> \A t \in Tasks : FirstLive(t)
<1>1. FirstUserPage \in UserPages /\ FirstUserPage \in ImageRange
  BY RangesLemma, VmAssumption DEF FirstUserPage, StackTop, ImageRange
<1>2. SpacesLive <=> \A t \in Tasks : FirstLive(t)
  BY DEF SpacesLive, FirstLive, Live
<1> QED
  BY <1>1, <1>2, UserLemma

LEMMA FirstKept ==
  ASSUME SpacesInv, SpacesLive, NEW q, Same(Memory, q, Roots), mem' = q.mem,
         NEW t \in Tasks, cr3'[t] = cr3[t]
  PROVE  FirstLive(t)'
<1>1. CASE cr3[t] # None
  <2>1. cr3[t] \in Roots /\ Memory.mem = mem
    BY <1>1, MemoryLemma
  <2>2. PageOf(mem', cr3[t], FirstUserPage) = PageOf(mem, cr3[t], FirstUserPage)
    BY <2>1, FirstLemma DEF Same
  <2>3. PageOf(mem, cr3[t], FirstUserPage) # None
    BY <1>1 DEF SpacesLive, Live
  <2> QED
    BY <2>2, <2>3 DEF FirstLive
<1> QED
  BY <1>1 DEF FirstLive

LEMMA LiveNext ==
  ASSUME \A t \in Tasks : FirstLive(t)'
  PROVE  SpacesLive'
BY DEF SpacesLive, FirstLive, Live

\* A call after which every task has the directory it had.
LEMMA IdleRefines ==
  ASSUME SpacesInv, SpacesLive, NEW q, Same(Memory, q, Roots), Leaves(q), cr3' = cr3
  PROVE  AbstractStep /\ SpacesLive'
<1>1. mem' = q.mem
  BY DEF Leaves
<1>2. \A t \in Tasks : Space(t)' = Space(t)
  BY <1>1, SameSpaces
<1>3. \A t \in Tasks : FirstLive(t)'
  BY <1>1, FirstKept
<1> QED
  BY <1>2, <1>3, AbstractStutter, LiveNext

LEMMA ForkRefines ==
  ASSUME SpacesInv, SpacesInv', SpacesLive, NEW t \in Tasks, NEW child \in Tasks, sys_fork(t, child)
  PROVE  AbstractStep /\ SpacesLive'
<1>1. PICK q : /\ Leaves(q) /\ Same(Memory, q, Roots)
               /\ ~Ok(q) => cr3' = cr3
               /\ Ok(q) => \E dir : /\ Begins(q, child, dir)
                                    /\ \A v \in UserPages : Like(Memory, q, cr3[t], dir, v)
  BY ForkLemma
<1>2. CASE ~Ok(q)
  BY <1>1, <1>2, IdleRefines
<1>3. CASE Ok(q)
  <2>1. PICK dir : Begins(q, child, dir) /\ \A v \in UserPages : Like(Memory, q, cr3[t], dir, v)
    BY <1>1, <1>3
  <2>2. /\ cr3 \in [Tasks -> Phys \union {None}] /\ cr3' = [cr3 EXCEPT ![child] = dir]
        /\ dir # None /\ mem' = q.mem /\ cr3[t] # None /\ cr3[child] = None /\ Memory.mem = mem
    BY <1>1, <2>1, ConstantsLemma, MemoryLemma DEF SpacesInv, Begins, Leaves, sys_fork, Runs
  <2>3. cr3'[child] = dir /\ \A u \in Tasks \ {child} : cr3'[u] = cr3[u]
    BY <2>2
  <2>4. \A u \in Tasks \ {child} : Space(u)' = Space(u) /\ FirstLive(u)'
    BY <1>1, <2>2, <2>3, SameSpaces, FirstKept
  <2>5. \A v \in UserPages : Space(child)[v] = -1
    BY <2>2, SpaceLemma
  <2>6. ASSUME NEW v \in UserPages
        PROVE  /\ Space(child)'[v] = Space(t)[v]
               /\ PageOf(mem, cr3[t], v) # None => PageOf(mem', dir, v) # None
    <3>1. Like(Memory, q, cr3[t], dir, v)
      BY <2>1
    <3>2. IF PageOf(mem, cr3[t], v) = None THEN PageOf(mem', dir, v) = None
          ELSE PageOf(mem', dir, v) # None /\ mem'[PageOf(mem', dir, v)] = mem[PageOf(mem, cr3[t], v)]
      BY <2>2, <3>1 DEF Like
    <3>3. Space(child)'[v] = IF PageOf(mem', dir, v) = None THEN -1 ELSE mem'[PageOf(mem', dir, v)][0]
      BY <2>2, <2>3 DEF Space
    <3>4. Space(t)[v] = IF PageOf(mem, cr3[t], v) = None THEN -1 ELSE mem[PageOf(mem, cr3[t], v)][0]
      BY <2>2 DEF Space
    <3> QED
      BY <3>2, <3>3, <3>4
  <2>7. Space(child)' = Space(t)
    <3>1. Space(child)' = [v \in UserPages |-> Space(child)'[v]] /\ Space(t) = [v \in UserPages |-> Space(t)[v]]
      BY DEF Space
    <3> QED
      BY <2>6, <3>1
  <2>8. FirstLive(child)'
    <3>1. PageOf(mem, cr3[t], FirstUserPage) # None
      BY <2>2 DEF SpacesLive, Live
    <3>2. PageOf(mem', dir, FirstUserPage) # None
      BY <2>6, <3>1, FirstLemma
    <3> QED
      BY <2>3, <3>2 DEF FirstLive
  <2>9. \E v \in UserPages : Space(t)[v] # -1
    BY <2>2, LiveSpaces
  <2>10. AbstractStep
    BY <2>4, <2>5, <2>7, <2>9, AbstractFork
  <2>11. \A u \in Tasks : FirstLive(u)'
    BY <2>4, <2>8
  <2> QED
    BY <2>10, <2>11, LiveNext
<1> QED
  BY <1>2, <1>3

LEMMA ExecveRefines ==
  ASSUME SpacesInv, SpacesInv', SpacesLive, NEW t \in Tasks, NEW file, sys_execve(t, file), HarmlessFrees
  PROVE  AbstractStep /\ SpacesLive'
<1>1. PICK q : /\ Leaves(q) /\ Same(Memory, q, Roots)
               /\ ~Ok(q) => cr3' = cr3
               /\ Ok(q) => \E dir : /\ Begins(q, t, dir)
                                    /\ \A v \in UserPages : PageOf(q.mem, dir, v) # None
                                         <=> v \in ImageRange \union StackRange
  BY ExecveLemma
<1>2. CASE ~Ok(q)
  BY <1>1, <1>2, IdleRefines
<1>3. CASE Ok(q)
  <2>1. PICK dir : /\ Begins(q, t, dir)
                   /\ \A v \in UserPages : PageOf(q.mem, dir, v) # None <=> v \in ImageRange \union StackRange
    BY <1>1, <1>3
  <2>2. /\ cr3 \in [Tasks -> Phys \union {None}] /\ cr3' = [cr3 EXCEPT ![t] = dir]
        /\ dir # None /\ mem' = q.mem /\ cr3[t] # None
    BY <1>1, <2>1, ConstantsLemma DEF SpacesInv, Begins, Leaves, sys_execve, Runs
  <2>3. cr3'[t] = dir /\ \A u \in Tasks \ {t} : cr3'[u] = cr3[u]
    BY <2>2
  <2>4. \A u \in Tasks \ {t} : Space(u)' = Space(u) /\ FirstLive(u)'
    BY <1>1, <2>2, <2>3, SameSpaces, FirstKept
  <2>5. \A v \in UserPages : PageOf(mem', cr3'[t], v) # None <=> v \in ImageRange \union StackRange
    BY <2>1, <2>2, <2>3
  <2>6. ASSUME NEW v \in UserPages
        PROVE  Space(t)'[v] # -1 <=> v \in ImageRange \union StackRange
    <3>1. cr3'[t] # None => /\ PageOf(mem', cr3'[t], v) = None => Space(t)'[v] = -1
                            /\ PageOf(mem', cr3'[t], v) # None => Space(t)'[v] # -1
      BY SpaceNext DEF SpaceShown
    <3> QED
      BY <2>2, <2>3, <2>5, <3>1
  <2>7. FirstLive(t)'
    BY <2>5, FirstLemma DEF FirstLive
  <2>8. \E v \in UserPages : Space(t)[v] # -1
    BY <2>2, LiveSpaces
  <2>9. AbstractStep
    BY <2>4, <2>6, <2>8, AbstractExec
  <2>10. \A u \in Tasks : FirstLive(u)'
    BY <2>4, <2>7
  <2> QED
    BY <2>9, <2>10, LiveNext
<1> QED
  BY <1>2, <1>3

LEMMA SbrkRefines ==
  ASSUME SpacesInv, heap_end \in [Tasks -> Nat], SpacesLive, NEW t \in Tasks, NEW incr \in Incrs,
         sys_sbrk(t, incr)
  PROVE  AbstractStep /\ SpacesLive'
<1>1. PICK q, lo, hi : Leaves(q) /\ Grown(Memory, q, Roots, cr3[t], lo, hi) /\ cr3' = cr3
  BY SbrkLemma
<1>2. mem' = q.mem /\ cr3[t] # None /\ Memory.mem = mem
  BY <1>1 DEF Leaves, sys_sbrk, Runs, Memory
<1>3. ASSUME NEW u \in Tasks, NEW v \in UserPages, cr3[u] # None,
             u # t \/ PageOf(mem, cr3[u], v) # None
      PROVE  /\ PageOf(mem', cr3[u], v) = PageOf(mem, cr3[u], v)
             /\ PageOf(mem, cr3[u], v) # None =>
                  mem'[PageOf(mem, cr3[u], v)] = mem[PageOf(mem, cr3[u], v)]
  <2>1. cr3[u] \in Roots /\ v \in AllPages
    BY <1>3, MemoryLemma, UserLemma
  <2>2. u # t => cr3[u] # cr3[t]
    BY <1>2, <1>3 DEF SpacesInv, Live
  <2> QED
    BY <1>1, <1>2, <1>3, <2>1, <2>2 DEF Grown, Keeps
<1>4. ASSUME NEW u \in Tasks \ {t}
      PROVE  Space(u)' = Space(u)
  <2>1. cr3'[u] = cr3[u]
    BY <1>1
  <2> QED
    BY <1>3, <2>1, SpaceKept
<1>5. ASSUME NEW v \in UserPages, Space(t)[v] # -1
      PROVE  Space(t)'[v] = Space(t)[v]
  <2>1. PageOf(mem, cr3[t], v) # None
    BY <1>2, <1>5, SpaceLemma
  <2>2. /\ PageOf(mem', cr3[t], v) = PageOf(mem, cr3[t], v)
        /\ mem'[PageOf(mem, cr3[t], v)] = mem[PageOf(mem, cr3[t], v)]
    BY <1>2, <1>3, <2>1
  <2> QED
    BY <1>1, <2>2 DEF Space
<1>6. \E v \in UserPages : Space(t)[v] # -1
  BY <1>2, LiveSpaces
<1>7. AbstractStep
  BY <1>4, <1>5, <1>6, AbstractGrow
<1>8. \A u \in Tasks : FirstLive(u)'
  <2> SUFFICES ASSUME NEW u \in Tasks, cr3[u] # None
               PROVE  PageOf(mem', cr3[u], FirstUserPage) # None
    BY <1>1 DEF FirstLive
  <2>1. PageOf(mem, cr3[u], FirstUserPage) # None
    BY DEF SpacesLive, Live
  <2> QED
    BY <1>3, <2>1, FirstLemma
<1> QED
  BY <1>7, <1>8, LiveNext

LEMMA StoreRefines ==
  ASSUME SpacesInv, SpacesInv', SpacesLive, NEW t \in Tasks, NEW v \in Written, NEW word \in Words,
         Store(t, v, word)
  PROVE  AbstractStep /\ SpacesLive'
<1>1. /\ Rewrites(Memory, Memory', Roots, cr3[t], v) /\ PageOf(mem, cr3[t], v) # None
      /\ cr3[t] # None /\ cr3' = cr3
  BY StoreLemma
<1>2. v \in UserPages /\ Memory.mem = mem /\ Memory'.mem = mem'
  BY VmAssumption DEF UserPages, Memory
<1>3. ASSUME NEW u \in Tasks, NEW x \in UserPages, cr3[u] # None
      PROVE  /\ PageOf(mem', cr3[u], x) = PageOf(mem, cr3[u], x)
             /\ (u # t \/ x # v) /\ PageOf(mem, cr3[u], x) # None =>
                  mem'[PageOf(mem, cr3[u], x)] = mem[PageOf(mem, cr3[u], x)]
  <2>1. cr3[u] \in Roots /\ x \in AllPages
    BY <1>3, MemoryLemma, UserLemma
  <2>2. u # t => cr3[u] # cr3[t]
    BY <1>1, <1>3 DEF SpacesInv, Live
  <2> QED
    BY <1>1, <1>2, <2>1, <2>2 DEF Rewrites
<1>4. ASSUME NEW u \in Tasks \ {t}
      PROVE  Space(u)' = Space(u)
  <2>1. cr3'[u] = cr3[u]
    BY <1>1
  <2> QED
    BY <1>3, <2>1, SpaceKept
<1>5. ASSUME NEW x \in UserPages \ {v}
      PROVE  Space(t)'[x] = Space(t)[x]
  BY <1>1, <1>3 DEF Space
<1>6. ASSUME NEW x \in UserPages
      PROVE  Space(t)'[x] # -1 <=> Space(t)[x] # -1
  <2>1. /\ PageOf(mem, cr3[t], x) = None => Space(t)[x] = -1
        /\ PageOf(mem, cr3[t], x) # None => Space(t)[x] # -1
    BY <1>1, SpaceNow DEF SpaceShown
  <2>2. cr3'[t] # None => /\ PageOf(mem', cr3'[t], x) = None => Space(t)'[x] = -1
                          /\ PageOf(mem', cr3'[t], x) # None => Space(t)'[x] # -1
    BY SpaceNext DEF SpaceShown
  <2> QED
    BY <1>1, <1>3, <2>1, <2>2
<1>7. Space(t)[v] # -1
  BY <1>1, <1>2, SpaceNow DEF SpaceShown
<1>8. AbstractStep
  BY <1>2, <1>4, <1>5, <1>6, <1>7, AbstractStore
<1>9. \A u \in Tasks : FirstLive(u)'
  <2> SUFFICES ASSUME NEW u \in Tasks, cr3[u] # None
               PROVE  PageOf(mem', cr3[u], FirstUserPage) # None
    BY <1>1 DEF FirstLive
  <2>1. PageOf(mem, cr3[u], FirstUserPage) # None
    BY DEF SpacesLive, Live
  <2> QED
    BY <1>3, <2>1, FirstLemma
<1> QED
  BY <1>8, <1>9, LiveNext

LEMMA InitRefines ==
  ASSUME Ok(Booted.after), VmInit
  PROVE  Spaces!Init /\ SpacesLive
<1> DEFINE space == [t \in Tasks |-> Space(t)]
           first == FirstUserPage .. FirstUserPage + ImagePages - 1
<1>1. SpacesInv
  BY InitSpaces
<1>2. /\ cr3 \in [Tasks -> Phys \union {None}] /\ cr3[FirstTask] = Booted.dir /\ Booted.dir # None
      /\ \A t \in Tasks \ {FirstTask} : cr3[t] = None
      /\ mem = Booted.after.mem /\ FirstTask \in Tasks
  BY <1>1, BootLemma, ConstantsLemma, VmAssumption DEF VmInit, SpacesInv
<1>3. \A v \in UserPages : PageOf(mem, cr3[FirstTask], v) # None <=> v \in ImageRange
  BY <1>2, BootLemma
<1>4. \A v \in UserPages : Space(FirstTask)[v] # -1 <=> v \in ImageRange
  BY <1>1, <1>2, <1>3, SpaceNow DEF SpaceShown
<1>5. {v \in UserPages : Space(FirstTask)[v] # -1} = first
  <2>1. first = ImageRange /\ ImageRange \subseteq UserPages
    BY RangesLemma DEF ImageRange
  <2> HIDE DEF first
  <2> QED
    BY <1>4, <2>1
<1>6. ASSUME NEW t \in Tasks \ {FirstTask}
      PROVE  Space(t) = [v \in UserPages |-> -1]
  BY <1>2 DEF Space
<1>7. {v \in UserPages : space[FirstTask][v] # -1} = first
      /\ \A t \in Tasks \ {FirstTask} : space[t] = [v \in UserPages |-> -1]
  <2>1. space[FirstTask] = Space(FirstTask)
    BY <1>2
  <2> QED
    BY <1>5, <1>6, <2>1
<1> HIDE DEF space, first
<1>8. Spaces!Init
  BY <1>2, <1>7 DEF Spaces!Init, Spaces!Mapped, Spaces!NoSpace, space, first
<1>9. SpacesLive
  BY <1>2, <1>3, FirstLemma DEF SpacesLive, Live
<1> QED
  BY <1>8, <1>9

LEMMA NextRefines ==
  ASSUME SpacesInv, SpacesInv', heap_end \in [Tasks -> Nat], SpacesLive, [VmNext]_vars,
         [HarmlessFrees]_vars
  PROVE  [Spaces!Next]_([t \in Tasks |-> Space(t)]) /\ SpacesLive'
<1> SUFFICES AbstractStep /\ SpacesLive'
  BY DEF AbstractStep
<1>1. CASE UNCHANGED vars
  <2>1. mem' = mem /\ cr3' = cr3
    BY <1>1 DEF vars
  <2>2. \A t \in Tasks : Space(t)' = Space(t)
    BY <2>1, SpaceKept
  <2>3. SpacesLive'
    BY <2>1 DEF SpacesLive, Live
  <2> QED
    BY <2>2, <2>3, AbstractStutter
<1>2. ASSUME NEW t \in Tasks, NEW child \in Tasks, sys_fork(t, child)
      PROVE  AbstractStep /\ SpacesLive'
  BY <1>2, ForkRefines
<1>3. ASSUME NEW t \in Tasks, fork_fails(t)
      PROVE  AbstractStep /\ SpacesLive'
  <2>1. PICK q : Leaves(q) /\ Same(Memory, q, Roots) /\ cr3' = cr3
    BY <1>3, ForkFailsLemma
  <2> QED
    BY <2>1, IdleRefines
<1>4. ASSUME NEW t \in Tasks, NEW file \in Files, sys_execve(t, file), ~UNCHANGED vars
      PROVE  AbstractStep /\ SpacesLive'
  <2>1. HarmlessFrees
    BY <1>4
  <2> QED
    BY <1>4, <2>1, ExecveRefines
<1>5. ASSUME NEW t \in Tasks, NEW file \in Files, execve_fails(t, file)
      PROVE  AbstractStep /\ SpacesLive'
  <2>1. PICK q : Leaves(q) /\ Same(Memory, q, Roots) /\ cr3' = cr3
    BY <1>5, ExecveFailsLemma
  <2> QED
    BY <2>1, IdleRefines
<1>6. ASSUME NEW t \in Tasks, NEW incr \in Incrs, sys_sbrk(t, incr)
      PROVE  AbstractStep /\ SpacesLive'
  BY <1>6, SbrkRefines
<1>7. ASSUME NEW t \in Tasks, NEW v \in Written, NEW word \in Words, Store(t, v, word)
      PROVE  AbstractStep /\ SpacesLive'
  BY <1>7, StoreRefines
<1> QED
  BY <1>1, <1>2, <1>3, <1>4, <1>5, <1>6, <1>7 DEF VmNext

\* Directories, tables and pages implement separate spaces: fork gives the child a
\* true copy, execve maps the program and the stack and nothing else, sbrk only
\* adds pages and a store reaches one word of the task's own; and nobody else's
\* space changes.  For a machine with memory enough to start the first task, as
\* long as memory_destroy_uvm clears no bit of the allocator.
THEOREM DirectoriesImplementSpaces ==
  ASSUME Ok(Booted.after)
  PROVE  VmSpec /\ [][HarmlessFrees]_vars => ImplementsSpaces
<1> DEFINE Inv == SpacesInv /\ heap_end \in [Tasks -> Nat]
<1>1. VmInit => Spaces!Init /\ SpacesLive
  BY InitRefines
<1>2. Inv /\ Inv' /\ SpacesLive /\ [VmNext]_vars /\ [HarmlessFrees]_vars
        => [Spaces!Next]_([t \in Tasks |-> Space(t)]) /\ SpacesLive'
  BY NextRefines
<1>3. VmSpec /\ [][HarmlessFrees]_vars => []Inv
  BY SpacesInvariant
<1> QED
  BY <1>1, <1>2, <1>3, PTL DEF VmSpec, ImplementsSpaces, Spaces!Spec

-----------------------------------------------------------------------------
(* Heaps are mapped *)

\* Two addresses of a page.
LEMMA SamePage ==
  ASSUME NEW p \in Nat, p # 0, NEW x \in Nat, NEW a \in Nat, x <= a, a < x + (p - (x % p))
  PROVE  a \div p = x \div p
<1> DEFINE e == x \div p
           i == x % p
<1>1. e \in Nat /\ i \in 0 .. p - 1 /\ x = p * e + i /\ p * e \in Nat /\ a < x + (p - i)
  BY DivMod
<1> HIDE DEF e, i
<1>a. p * e <= a /\ a < p * e + p
  BY <1>1
<1>2. a \div p = e
  BY <1>1, <1>a, DivUnique
<1> QED
  BY <1>2 DEF e

LEMMA PageBefore ==
  ASSUME NEW p \in Nat, p # 0, NEW x \in Nat, x % p # 0
  PROVE  x - 1 \in Nat /\ (x - 1) \div p = x \div p
<1> DEFINE e == x \div p
           i == x % p
<1>1. e \in Nat /\ i \in 0 .. p - 1 /\ i # 0 /\ x = p * e + i /\ p * e \in Nat
  BY DivMod
<1> HIDE DEF e, i
<1>2. x - 1 \in Nat /\ p * e <= x - 1 /\ x - 1 < p * e + p
  BY <1>1
<1>3. (x - 1) \div p = e
  BY <1>1, <1>2, DivUnique
<1> QED
  BY <1>2, <1>3 DEF e

HasPage(t, a) == PageOf(mem, cr3[t], a \div MEM_PAGE_SIZE) # None

AllBytes == PDE_CNT * PDE_CNT * MEM_PAGE_SIZE

\* The heap of a task and the page in the middle of which it ends are mapped.
HeapOK(t) ==
  /\ heap_start[t] <= heap_end[t] /\ heap_end[t] <= AllBytes
  /\ \A a \in heap_start[t] .. heap_end[t] - 1 : HasPage(t, a)
  /\ heap_end[t] % MEM_PAGE_SIZE # 0 => HasPage(t, heap_end[t])

HeapInv ==
  /\ heap_start \in [Tasks -> Nat] /\ heap_end \in [Tasks -> Nat]
  /\ halted = "no" => \A t \in Live : HeapOK(t)

LEMMA BytesLemma ==
  /\ MEM_PAGE_SIZE \in Nat /\ MEM_PAGE_SIZE # 0 /\ AllBytes \in Nat
  /\ HeapLimit \in Nat /\ HeapLimit <= AllBytes
  /\ \A a \in Nat : a < AllBytes => a \div MEM_PAGE_SIZE \in AllPages
<1> DEFINE top == PDE_CNT * PDE_CNT
<1>1. MEM_PAGE_SIZE \in Nat /\ MEM_PAGE_SIZE # 0 /\ top \in Nat /\ HeapLimit \in 0 .. top * MEM_PAGE_SIZE
  BY VmAssumption
<1>2. AllBytes = top * MEM_PAGE_SIZE /\ AllPages = 0 .. top - 1
  BY DEF AllBytes, AllPages
<1> HIDE DEF top
<1>3. top * MEM_PAGE_SIZE \in Nat
  BY <1>1
<1>4. \A a \in Nat : a < top * MEM_PAGE_SIZE => a \div MEM_PAGE_SIZE \in 0 .. top - 1
  BY <1>1, DivLemma
<1> QED
  BY <1>1, <1>2, <1>3, <1>4

LEMMA AllBytesLemma == AllBytes % MEM_PAGE_SIZE = 0
<1> DEFINE top == PDE_CNT * PDE_CNT
<1>1. top \in Nat
  BY ConstantsLemma
<1>2. AllBytes = top * MEM_PAGE_SIZE
  BY DEF AllBytes
<1> HIDE DEF top
<1>3. AllBytes = MEM_PAGE_SIZE * top
  BY <1>1, <1>2, BytesLemma
<1>4. AllBytes \div MEM_PAGE_SIZE = top
  BY <1>1, <1>3, BytesLemma, DivUnique
<1>5. /\ AllBytes % MEM_PAGE_SIZE \in 0 .. MEM_PAGE_SIZE - 1
      /\ AllBytes = MEM_PAGE_SIZE * (AllBytes \div MEM_PAGE_SIZE) + (AllBytes % MEM_PAGE_SIZE)
  BY BytesLemma, DivMod
<1> QED
  BY <1>1, <1>3, <1>4, <1>5, BytesLemma

\* What is mapped stays mapped.
MappedKept ==
  \A d \in Roots, v \in AllPages :
    PageOf(mem, d, v) # None => PageOf(mem', d, v) # None

LEMMA HeapKept ==
  ASSUME SpacesInv, HeapInv, NEW t \in Live, HeapOK(t), MappedKept, cr3'[t] = cr3[t],
         heap_start'[t] = heap_start[t], heap_end'[t] = heap_end[t]
  PROVE  HeapOK(t)'
<1>1. t \in Tasks /\ cr3[t] \in Roots /\ heap_start[t] \in Nat /\ heap_end[t] \in Nat
  BY DEF Live, Roots, HeapInv
<1>2. ASSUME NEW a \in Nat, a < AllBytes, HasPage(t, a)
      PROVE  HasPage(t, a)'
  BY <1>1, <1>2, BytesLemma DEF HasPage, MappedKept
<1>3. \A a \in heap_start[t] .. heap_end[t] - 1 : HasPage(t, a)'
  <2> SUFFICES ASSUME NEW a \in heap_start[t] .. heap_end[t] - 1
               PROVE  HasPage(t, a)'
    OBVIOUS
  <2>1. a \in Nat /\ a < AllBytes /\ HasPage(t, a)
    BY <1>1, BytesLemma DEF HeapOK
  <2> QED
    BY <1>2, <2>1
<1>4. ASSUME heap_end[t] % MEM_PAGE_SIZE # 0
      PROVE  HasPage(t, heap_end[t])'
  <2>1. heap_end[t] < AllBytes
    <3>2. heap_end[t] # AllBytes
      BY <1>4, AllBytesLemma
    <3> QED
      BY <1>1, <3>2, BytesLemma DEF HeapOK
  <2>2. HasPage(t, heap_end[t])
    BY <1>4 DEF HeapOK
  <2>3. PageOf(mem', cr3'[t], heap_end[t] \div MEM_PAGE_SIZE) # None
    BY <1>1, <1>2, <2>1, <2>2 DEF HasPage
  <2> QED
    BY <2>3 DEF HasPage
<1> QED
  BY <1>3, <1>4 DEF HeapOK, HasPage

\* A call that keeps the spaces keeps the heaps of all tasks but those it changes.
LEMMA SameMapped ==
  ASSUME SpacesInv, NEW q, Same(Memory, q, Roots), mem' = q.mem
  PROVE  MappedKept
<1>1. Memory.mem = mem
  BY DEF Memory
<1> QED
  BY <1>1 DEF MappedKept, Same

LEMMA HeapIdle ==
  ASSUME SpacesInv, HeapInv, MappedKept, halted = "no",
         UNCHANGED <<cr3, heap_start, heap_end>>
  PROVE  HeapInv'
<1>1. \A t \in Live' : t \in Live /\ HeapOK(t)
  BY DEF HeapInv, Live
<1>2. \A t \in Live' : HeapOK(t)'
  BY <1>1, HeapKept
<1> QED
  BY <1>2 DEF HeapInv

LEMMA HeapFork ==
  ASSUME SpacesInv, HeapInv, NEW t \in Tasks, NEW child \in Tasks, sys_fork(t, child)
  PROVE  HeapInv'
<1>1. PICK q : /\ Leaves(q) /\ Same(Memory, q, Roots)
               /\ ~Ok(q) => cr3' = cr3
               /\ Ok(q) => \E dir : Begins(q, child, dir)
  BY ForkLemma
<1>2. MappedKept
  BY <1>1, SameMapped DEF Leaves
<1>3. /\ heap_start' = [heap_start EXCEPT ![child] = 0] /\ heap_end' = [heap_end EXCEPT ![child] = 0]
      /\ heap_start' \in [Tasks -> Nat] /\ heap_end' \in [Tasks -> Nat]
      /\ halted = "no" /\ cr3[child] = None
  BY DEF sys_fork, Runs, HeapInv
<1>4. ASSUME NEW u \in Live', u # child
      PROVE  HeapOK(u)'
  <2>1. u \in Live /\ cr3'[u] = cr3[u] /\ heap_start'[u] = heap_start[u] /\ heap_end'[u] = heap_end[u]
    BY <1>1, <1>3, <1>4 DEF Live, Begins, SpacesInv, HeapInv
  <2>2. HeapOK(u)
    BY <1>3, <2>1 DEF HeapInv
  <2> QED
    BY <1>2, <2>1, <2>2, HeapKept
<1>5. HeapOK(child)'
  <2>1. heap_start'[child] = 0 /\ heap_end'[child] = 0 /\ 0 % MEM_PAGE_SIZE = 0 /\ 0 <= AllBytes
    BY <1>3, BytesLemma DEF HeapInv
  <2> QED
    BY <2>1 DEF HeapOK, HasPage
<1> QED
  BY <1>3, <1>4, <1>5 DEF HeapInv, Live

LEMMA ImageEndLemma ==
  /\ ImageEnd \in Nat /\ ImageEnd <= AllBytes
  /\ ImageEnd % MEM_PAGE_SIZE # 0 => ImageEnd \div MEM_PAGE_SIZE \in ImageRange
<1> DEFINE p == MEM_PAGE_SIZE
           n == FirstUserPage + ImagePages
           top == PDE_CNT * PDE_CNT
           h == p \div 2
<1>1. p \in Nat /\ p >= 1 /\ n \in Nat /\ n >= 1 /\ top \in Nat /\ n <= top
      /\ n - 1 \in ImageRange
  <2>1. FirstUserPage \in Nat /\ ImagePages \in Nat /\ ImagePages >= 1 /\ top \in Nat
        /\ FirstUserPage + ImagePages <= top
    <3>1. /\ PDE_CNT \in Nat /\ top \in Nat /\ StackPages \in Nat /\ ImagePages \in Nat
          /\ ImagePages >= 1 /\ FirstUserPage = PDE_CNT /\ PDE_CNT + ImagePages + StackPages <= top
      BY VmAssumption DEF FirstUserPage
    <3> HIDE DEF top
    <3> QED
      BY <3>1
  <2>2. p \in Nat /\ p >= 1
    BY VmAssumption
  <2> HIDE DEF top, p
  <2> QED
    BY <2>1, <2>2 DEF ImageRange
<1>2. h \in Nat /\ 2 * h <= p /\ (h = 0 => p = 1)
  BY <1>1
<1>3. ImageEnd = n * p - h /\ AllBytes = top * p
  BY DEF ImageEnd, AllBytes
<1> HIDE DEF p, n, top, h
<1>4. n * p <= top * p /\ n * p \in Nat /\ top * p \in Nat /\ n * p = p * (n - 1) + p /\ p * (n - 1) \in Nat
  BY <1>1
<1>5. ImageEnd \in Nat /\ ImageEnd <= AllBytes
  BY <1>1, <1>2, <1>3, <1>4
<1>6. CASE h = 0
  <2>1. ImageEnd = n /\ p = 1
    BY <1>1, <1>2, <1>3, <1>6
  <2>2. n % 1 = 0
    BY <1>1
  <2> QED
    BY <1>5, <2>1, <2>2 DEF p
<1>7. CASE h # 0
  <2>1. p * (n - 1) <= ImageEnd /\ ImageEnd < p * (n - 1) + p /\ n - 1 \in Nat /\ p # 0
    BY <1>1, <1>2, <1>3, <1>4, <1>7
  <2>2. ImageEnd \div p = n - 1
    BY <1>1, <1>5, <2>1, DivUnique
  <2> QED
    BY <1>1, <1>5, <2>2 DEF p
<1> QED
  BY <1>6, <1>7

LEMMA HeapExecve ==
  ASSUME SpacesInv, HeapInv, NEW t \in Tasks, NEW file, sys_execve(t, file), HarmlessFrees
  PROVE  HeapInv'
<1>1. PICK q : /\ Leaves(q) /\ Same(Memory, q, Roots)
               /\ ~Ok(q) => cr3' = cr3
               /\ Ok(q) => \E dir : /\ Begins(q, t, dir)
                                    /\ \A v \in UserPages : PageOf(q.mem, dir, v) # None
                                         <=> v \in ImageRange \union StackRange
  BY ExecveLemma
<1>2. MappedKept
  BY <1>1, SameMapped DEF Leaves
<1>3. /\ heap_start' = [heap_start EXCEPT ![t] = ImageEnd] /\ heap_end' = [heap_end EXCEPT ![t] = ImageEnd]
      /\ heap_start' \in [Tasks -> Nat] /\ heap_end' \in [Tasks -> Nat]
      /\ halted = "no" /\ halted' = q.err /\ mem' = q.mem
  BY <1>1, ImageEndLemma DEF sys_execve, Runs, HeapInv, Leaves
<1>4. CASE ~Ok(q)
  BY <1>3, <1>4 DEF HeapInv, Ok
<1>5. CASE Ok(q)
  <2>1. PICK dir : /\ Begins(q, t, dir)
                   /\ \A v \in UserPages : PageOf(q.mem, dir, v) # None <=> v \in ImageRange \union StackRange
    BY <1>1, <1>5
  <2>2. cr3 \in [Tasks -> Phys \union {None}] /\ cr3' = [cr3 EXCEPT ![t] = dir]
    BY <2>1 DEF SpacesInv, Begins
  <2>3. ASSUME NEW u \in Live', u # t
        PROVE  HeapOK(u)'
    <3>1. u \in Live /\ cr3'[u] = cr3[u] /\ heap_start'[u] = heap_start[u] /\ heap_end'[u] = heap_end[u]
      BY <1>3, <2>2, <2>3 DEF Live, HeapInv
    <3>2. HeapOK(u)
      BY <1>3, <3>1 DEF HeapInv
    <3> QED
      BY <1>2, <3>1, <3>2, HeapKept
  <2>4. HeapOK(t)'
    <3>1. cr3'[t] = dir /\ heap_start'[t] = ImageEnd /\ heap_end'[t] = ImageEnd
      BY <1>3, <2>2 DEF HeapInv
    <3>2. ImageEnd % MEM_PAGE_SIZE # 0 => PageOf(mem', dir, ImageEnd \div MEM_PAGE_SIZE) # None
      BY <1>3, <2>1, ImageEndLemma, RangesLemma
    <3>3. ImageEnd .. ImageEnd - 1 = {} /\ ImageEnd <= ImageEnd /\ ImageEnd <= AllBytes
      BY ImageEndLemma
    <3> QED
      BY <3>1, <3>2, <3>3 DEF HeapOK, HasPage
  <2> QED
    BY <1>3, <2>3, <2>4 DEF HeapInv
<1> QED
  BY <1>4, <1>5

\* The pages sys_sbrk allocates and those that are mapped are enough for the heap.
LEMMA HeapGrows ==
  ASSUME NEW start \in Nat, NEW incr \in Nat, NEW S, HeapPages(start, incr) \subseteq S,
         start % MEM_PAGE_SIZE # 0 => start \div MEM_PAGE_SIZE \in S
  PROVE  /\ \A a \in start .. start + incr - 1 : a \div MEM_PAGE_SIZE \in S
         /\ (start + incr) % MEM_PAGE_SIZE # 0 => (start + incr) \div MEM_PAGE_SIZE \in S
<1> DEFINE p == MEM_PAGE_SIZE
           end == start + incr
           new == IF start % p = 0 THEN start ELSE start + (p - (start % p))
           lo == new \div p
           hi == (end - 1) \div p
<1>1. p \in Nat /\ p # 0 /\ end \in Nat
  BY BytesLemma
<1>2. HeapPages(start, incr) = (IF end <= new THEN {} ELSE lo .. hi)
  BY DEF HeapPages
<1>3. start % p = 0 \/ (new = start + (p - (start % p)) /\ start \div p \in S)
  OBVIOUS
<1>4. start % p = 0 => new = start
  OBVIOUS
<1>5. new \in Nat
  BY <1>1, DivMod
<1>6. end = start + incr
  OBVIOUS
<1> HIDE DEF p, new, end
<1>7. ASSUME NEW a \in Nat, start <= a, a < end
      PROVE  a \div p \in S
  <2>1. CASE a < new
    <3>1. new = start + (p - (start % p)) /\ start \div p \in S
      BY <1>3, <1>4, <1>7, <2>1
    <3>2. a \div p = start \div p
      BY <1>1, <1>7, <2>1, <3>1, SamePage
    <3> QED
      BY <3>1, <3>2
  <2>2. CASE new <= a
    <3>1. end - 1 \in Nat /\ a <= end - 1 /\ ~(end <= new)
      BY <1>1, <1>5, <1>7, <2>2
    <3>2. lo <= a \div p /\ a \div p <= hi
      BY <1>1, <1>5, <1>7, <2>2, <3>1, DivMono
    <3>3. lo \in Nat /\ hi \in Nat /\ a \div p \in Nat
      BY <1>1, <1>5, <1>7, <3>1, DivMod
    <3>4. a \div p \in lo .. hi
      BY <3>2, <3>3
    <3> QED
      BY <1>2, <3>1, <3>4
  <2> QED
    BY <1>5, <1>7, <2>1, <2>2
<1>8. ASSUME end % p # 0
      PROVE  end \div p \in S
  <2>1. CASE incr = 0
    <3>1. end = start
      BY <1>6, <2>1
    <3> QED
      BY <1>3, <1>8, <3>1
  <2>2. CASE incr # 0
    <3>1. end - 1 \in Nat /\ (end - 1) \div p = end \div p
      BY <1>1, <1>8, PageBefore
    <3>2. start <= end - 1 /\ end - 1 < end
      BY <1>6, <2>2
    <3> QED
      BY <1>7, <3>1, <3>2
  <2> QED
    BY <2>1, <2>2
<1>9. ASSUME NEW a \in start .. end - 1
      PROVE  a \div p \in S
  <2>1. a \in Nat /\ start <= a /\ a < end
    BY <1>1, <1>9
  <2> QED
    BY <1>7, <2>1
<1> QED
  BY <1>8, <1>9 DEF p, end

LEMMA HeapSbrk ==
  ASSUME SpacesInv, HeapInv, NEW t \in Tasks, NEW incr \in Incrs, sys_sbrk(t, incr)
  PROVE  HeapInv'
<1>1. PICK q, lo, hi : /\ Leaves(q) /\ Grown(Memory, q, Roots, cr3[t], lo, hi) /\ cr3' = cr3
                       /\ Ok(q) => \A v \in HeapPages(heap_end[t], incr) : PageOf(q.mem, cr3[t], v) # None
  BY SbrkLemma DEF HeapInv
<1>2. /\ mem' = q.mem /\ halted' = q.err /\ Memory.mem = mem /\ incr \in Nat
      /\ halted = "no" /\ heap_start' = heap_start /\ t \in Live
      /\ heap_end[t] + incr <= HeapLimit
      /\ heap_start[t] \in Nat /\ heap_end[t] \in Nat
  BY <1>1, VmAssumption DEF Leaves, sys_sbrk, Runs, Memory, Live, HeapInv
<1>3. MappedKept
  BY <1>1, <1>2 DEF MappedKept, Grown
<1>4. heap_end' = heap_end \/ heap_end' = [heap_end EXCEPT ![t] = heap_end[t] + incr]
  BY DEF sys_sbrk
<1>5. heap_end' \in [Tasks -> Nat] /\ heap_start' \in [Tasks -> Nat]
  BY <1>2, <1>4 DEF HeapInv
<1>6. CASE ~Ok(q)
  BY <1>2, <1>5, <1>6 DEF HeapInv, Ok
<1>7. CASE Ok(q)
  <2>1. heap_end' = [heap_end EXCEPT ![t] = heap_end[t] + incr]
    <3>1. q.err = "no" /\ halted' = "no"
      BY <1>2, <1>7 DEF Ok
    <3> DEFINE grown == IF HeapPages(heap_end[t], incr) = {} THEN Memory
                        ELSE memory_alloc_for_page_dir(Memory, cr3[t], Min(HeapPages(heap_end[t], incr)),
                                                       Max(HeapPages(heap_end[t], incr)))
    <3>2. /\ halted' = grown.err
          /\ heap_end' = IF Ok(grown) THEN [heap_end EXCEPT ![t] = heap_end[t] + incr] ELSE heap_end
      BY DEF sys_sbrk, Leaves
    <3> QED
      BY <3>1, <3>2 DEF Ok
  <2>2. ASSUME NEW u \in Live', u # t
        PROVE  HeapOK(u)'
    <3>1. u \in Live /\ cr3'[u] = cr3[u] /\ heap_start'[u] = heap_start[u] /\ heap_end'[u] = heap_end[u]
      BY <1>1, <1>2, <2>1, <2>2 DEF Live, HeapInv
    <3>2. HeapOK(u)
      BY <1>2, <3>1 DEF HeapInv
    <3> QED
      BY <1>3, <3>1, <3>2, HeapKept
  <2>3. HeapOK(t)'
    <3> DEFINE start == heap_end[t]
               S == {v \in AllPages : PageOf(mem', cr3[t], v) # None}
    <3>1. start \in Nat /\ start + incr <= HeapLimit /\ HeapOK(t)
      BY <1>2 DEF HeapInv
    <3>2. HeapPages(start, incr) \subseteq S
      <4>1. HeapPages(start, incr) \subseteq AllPages
        BY <1>2, <3>1, HeapPagesLemma
      <4> QED
        BY <1>1, <1>2, <1>7, <4>1
    <3>3. ASSUME NEW a \in Nat, a < AllBytes, HasPage(t, a)
          PROVE  a \div MEM_PAGE_SIZE \in S
      <4>1. a \div MEM_PAGE_SIZE \in AllPages /\ cr3[t] \in Roots
        BY <1>2, <3>3, BytesLemma DEF Roots
      <4> QED
        BY <1>3, <3>3, <4>1 DEF HasPage, MappedKept
    <3>4. start % MEM_PAGE_SIZE # 0 => start \div MEM_PAGE_SIZE \in S
      <4> SUFFICES ASSUME start % MEM_PAGE_SIZE # 0
                   PROVE  start \div MEM_PAGE_SIZE \in S
        OBVIOUS
      <4>1. HasPage(t, start)
        BY <3>1 DEF HeapOK
      <4>2. start < AllBytes \/ start = AllBytes
        BY <1>2, <3>1, BytesLemma
      <4>3. start # AllBytes
        BY AllBytesLemma
      <4> QED
        BY <3>1, <3>3, <4>1, <4>2, <4>3
    <3>5. /\ \A a \in start .. start + incr - 1 : a \div MEM_PAGE_SIZE \in S
          /\ (start + incr) % MEM_PAGE_SIZE # 0 => (start + incr) \div MEM_PAGE_SIZE \in S
      BY <1>2, <3>1, <3>2, <3>4, HeapGrows
    <3>6. ASSUME NEW a \in heap_start[t] .. start + incr - 1
          PROVE  a \div MEM_PAGE_SIZE \in S
      <4>1. CASE a < start
        <5>1. a \in heap_start[t] .. start - 1
          BY <1>2, <3>1, <3>6, <4>1
        <5>2. a \in Nat /\ a < AllBytes /\ HasPage(t, a)
          <6>1. heap_end[t] <= AllBytes /\ HasPage(t, a)
            BY <3>1, <5>1 DEF HeapOK
          <6>2. a \in Nat
            BY <1>2, <5>1
          <6> QED
            BY <1>2, <4>1, <6>1, <6>2, BytesLemma
        <5> QED
          BY <3>3, <5>2
      <4>2. CASE start <= a
        <5>1. a \in start .. start + incr - 1
          BY <1>2, <3>1, <3>6, <4>2
        <5> QED
          BY <3>5, <5>1
      <4> QED
        BY <1>2, <3>1, <3>6, <4>1, <4>2
    <3>7. cr3'[t] = cr3[t] /\ heap_start'[t] = heap_start[t] /\ heap_end'[t] = start + incr
      BY <1>1, <1>2, <2>1 DEF HeapInv
    <3>8. heap_start[t] <= start + incr /\ start + incr <= AllBytes
      BY <1>2, <3>1, BytesLemma DEF HeapOK
    <3>9. \A v \in S : PageOf(mem', cr3[t], v) # None
      OBVIOUS
    <3> HIDE DEF S, start
    <3>10. \A a \in heap_start'[t] .. heap_end'[t] - 1 :
             PageOf(mem', cr3'[t], a \div MEM_PAGE_SIZE) # None
      <4> SUFFICES ASSUME NEW a \in heap_start'[t] .. heap_end'[t] - 1
                   PROVE  PageOf(mem', cr3'[t], a \div MEM_PAGE_SIZE) # None
        OBVIOUS
      <4>1. a \in heap_start[t] .. start + incr - 1
        BY <1>2, <3>1, <3>7
      <4>2. PageOf(mem', cr3[t], a \div MEM_PAGE_SIZE) # None
        BY <3>6, <3>9, <4>1
      <4> QED
        BY <3>7, <4>2
    <3>11. heap_end'[t] % MEM_PAGE_SIZE # 0 => HasPage(t, heap_end[t])'
      <4>1. ASSUME heap_end'[t] % MEM_PAGE_SIZE # 0
            PROVE  PageOf(mem', cr3'[t], heap_end'[t] \div MEM_PAGE_SIZE) # None
        BY <3>5, <3>7, <3>9, <4>1
      <4> QED
        BY <4>1 DEF HasPage
    <3> QED
      BY <3>7, <3>8, <3>10, <3>11 DEF HeapOK, HasPage
  <2> QED
    BY <1>5, <2>2, <2>3 DEF HeapInv
<1> QED
  BY <1>6, <1>7

LEMMA HeapStore ==
  ASSUME SpacesInv, HeapInv, NEW t \in Tasks, NEW v \in Written, NEW word \in Words, Store(t, v, word)
  PROVE  HeapInv'
<1>1. Rewrites(Memory, Memory', Roots, cr3[t], v) /\ cr3' = cr3
  BY StoreLemma
<1>2. Memory.mem = mem /\ Memory'.mem = mem'
  BY DEF Memory
<1>3. MappedKept
  BY <1>1, <1>2 DEF MappedKept, Rewrites
<1>4. halted = "no" /\ heap_start' = heap_start /\ heap_end' = heap_end
  BY DEF Store, Runs
<1> QED
  BY <1>1, <1>3, <1>4, HeapIdle

\* A call that fails before it changes a space.
LEMMA HeapFails ==
  ASSUME SpacesInv, HeapInv, NEW q, Leaves(q), Same(Memory, q, Roots), halted = "no",
         UNCHANGED <<cr3, heap_start, heap_end>>
  PROVE  HeapInv'
<1>1. MappedKept
  BY SameMapped DEF Leaves
<1> QED
  BY <1>1, HeapIdle

\* The heap of the first task lies in the first page, which the kernel's table maps.
LEMMA HeapInit == VmInit => HeapInv
<1> SUFFICES ASSUME VmInit
             PROVE  HeapInv
  OBVIOUS
<1> DEFINE half == MEM_PAGE_SIZE \div 2
           dir == cr3[FirstTask]
<1>1. /\ SpacesInv /\ heap_end = heap_start
      /\ heap_start = [t \in Tasks |-> IF t = FirstTask THEN half ELSE 0]
      /\ \A t \in Tasks \ {FirstTask} : cr3[t] = None
      /\ FirstTask \in Tasks /\ cr3[FirstTask] = Booted.dir
  BY InitSpaces, VmAssumption DEF VmInit
<1>2. dir # None /\ dir \in Roots
  <2>1. Booted.dir \in Phys
    BY BootLemma
  <2>2. Booted.dir # None
    BY <2>1, ConstantsLemma
  <2>3. cr3[FirstTask] # None /\ FirstTask \in Tasks
    BY <1>1, <2>2
  <2> QED
    BY <2>3 DEF Roots, Live
<1>3. half \in Nat /\ half < MEM_PAGE_SIZE /\ half \div MEM_PAGE_SIZE = 0
  <2>1. half \in Nat /\ half < MEM_PAGE_SIZE
    BY BytesLemma
  <2> HIDE DEF half
  <2>2. MEM_PAGE_SIZE * 0 <= half /\ half < MEM_PAGE_SIZE * 0 + MEM_PAGE_SIZE
    BY <2>1, BytesLemma
  <2> QED
    BY <2>1, <2>2, BytesLemma, DivUnique
<1> HIDE DEF half
<1>4. PageOf(mem, dir, 0) # None
  <2>1. PICK own \in Owners : Tree(mem, used, own, Roots)
    BY <1>1 DEF SpacesInv
  <2>2. mem[dir][0] = KernelTable /\ mem[KernelTable][0] # None
    BY <1>2, <2>1, ConstantsLemma DEF Tree, DirsOK, KernelOK
  <2>3. pde_index(0) = 0 /\ pte_index(0) = 0
    BY ConstantsLemma DEF pde_index, pte_index
  <2> QED
    BY <2>2, <2>3, ConstantsLemma DEF PageOf
<1>5. half <= AllBytes
  <2> DEFINE top == PDE_CNT * PDE_CNT
  <2>1. top \in Nat /\ top >= 1
    <3>1. \A n \in Nat : n >= 2 => n * n >= 1 /\ n * n \in Nat
      OBVIOUS
    <3> QED
      BY <3>1, ConstantsLemma
  <2>2. AllBytes = top * MEM_PAGE_SIZE
    BY DEF AllBytes
  <2> HIDE DEF top
  <2>3. top * MEM_PAGE_SIZE >= 1 * MEM_PAGE_SIZE
    BY <2>1, BytesLemma
  <2> QED
    BY <1>3, <2>2, <2>3, BytesLemma
<1>6. HeapOK(FirstTask)
  <2>1. heap_start[FirstTask] = half /\ heap_end[FirstTask] = half
    BY <1>1
  <2>2. half .. half - 1 = {} /\ half <= half
    BY <1>3
  <2>3. HasPage(FirstTask, half)
    BY <1>3, <1>4 DEF HasPage
  <2> QED
    BY <1>5, <2>1, <2>2, <2>3 DEF HeapOK
<1>7. heap_start \in [Tasks -> Nat] /\ Live \subseteq {FirstTask}
  BY <1>1, <1>3 DEF Live
<1> QED
  BY <1>1, <1>6, <1>7 DEF HeapInv

LEMMA HeapNext ==
  ASSUME SpacesInv, HeapInv, [VmNext]_vars, [HarmlessFrees]_vars
  PROVE  HeapInv'
<1>1. CASE UNCHANGED vars
  BY <1>1 DEF vars, HeapInv, HeapOK, HasPage, Live
<1>2. ASSUME NEW t \in Tasks, NEW child \in Tasks, sys_fork(t, child)
      PROVE  HeapInv'
  BY <1>2, HeapFork
<1>3. ASSUME NEW t \in Tasks, fork_fails(t)
      PROVE  HeapInv'
  <2>1. PICK q : Leaves(q) /\ Same(Memory, q, Roots) /\ cr3' = cr3
    BY <1>3, ForkFailsLemma
  <2>2. halted = "no" /\ UNCHANGED <<cr3, heap_start, heap_end>>
    BY <1>3 DEF fork_fails, Runs
  <2> QED
    BY <2>1, <2>2, HeapFails
<1>4. ASSUME NEW t \in Tasks, NEW file \in Files, sys_execve(t, file), ~UNCHANGED vars
      PROVE  HeapInv'
  <2>1. HarmlessFrees
    BY <1>4
  <2> QED
    BY <1>4, <2>1, HeapExecve
<1>5. ASSUME NEW t \in Tasks, NEW file \in Files, execve_fails(t, file)
      PROVE  HeapInv'
  <2>1. PICK q : Leaves(q) /\ Same(Memory, q, Roots) /\ cr3' = cr3
    BY <1>5, ExecveFailsLemma
  <2>2. halted = "no" /\ UNCHANGED <<cr3, heap_start, heap_end>>
    BY <1>5 DEF execve_fails, Runs
  <2> QED
    BY <2>1, <2>2, HeapFails
<1>6. ASSUME NEW t \in Tasks, NEW incr \in Incrs, sys_sbrk(t, incr)
      PROVE  HeapInv'
  BY <1>6, HeapSbrk
<1>7. ASSUME NEW t \in Tasks, NEW v \in Written, NEW word \in Words, Store(t, v, word)
      PROVE  HeapInv'
  BY <1>7, HeapStore
<1> QED
  BY <1>1, <1>2, <1>3, <1>4, <1>5, <1>6, <1>7 DEF VmNext

\* Every byte of the heap of every task is mapped as long as the kernel runs: what
\* sys_sbrk allocates, from the next page boundary on, and the page in which the
\* heap ended before are enough, for every page size and every increment.
THEOREM HeapsAreMapped == VmSpec /\ [][HarmlessFrees]_vars => []HeapMapped
<1> DEFINE Inv == SpacesInv /\ heap_end \in [Tasks -> Nat]
<1>1. VmInit => HeapInv
  BY HeapInit
<1>2. Inv /\ HeapInv /\ [VmNext]_vars /\ [HarmlessFrees]_vars => HeapInv'
  BY HeapNext
<1>3. HeapInv => HeapMapped
  BY DEF HeapInv, HeapOK, HasPage, HeapMapped
<1>4. VmSpec /\ [][HarmlessFrees]_vars => []Inv
  BY SpacesInvariant
<1> QED
  BY <1>1, <1>2, <1>3, <1>4, PTL DEF VmSpec

=============================================================================

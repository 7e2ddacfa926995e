--------------------------------- MODULE Vm ---------------------------------
(***************************************************************************)
(* Virtual memory: the page directories and page tables of                 *)
(* source/kernel/core/memory.c, as words in physical pages, under sys_fork, *)
(* sys_execve and sys_sbrk.                                                *)
(*                                                                         *)
(* A page is an array of words, one of which stands for a page's data; a   *)
(* word is the number of the page it points to, 0 when not present.  The   *)
(* page tables of a task are touched by that task alone, so each system    *)
(* call is one step; what runs concurrently is the page allocator, whose   *)
(* functions hold a mutex.                                                 *)
(***************************************************************************)
EXTENDS Integers, SequencesExt

CONSTANTS
  Tasks,
  FirstTask,
  PageNr,         \* physical pages the allocator manages, numbered from 1
  PDE_CNT,        \* entries of a directory, and of a table
  MEM_PAGE_SIZE,  \* bytes of a page
  ImagePages,     \* pages of the program sys_execve loads
  StackPages,     \* pages of the stack sys_execve allocates
  Words,          \* words tasks store ...
  Written,        \* ... and the pages they store them to
  Files,          \* what sys_execve is given: "program", "other"
  Incrs,          \* arguments of sbrk
  HeapLimit       \* bound of the heap, in bytes

ASSUME VmAssumption ==
  /\ FirstTask \in Tasks
  /\ PageNr \in Nat \ 0 .. 2 /\ PDE_CNT \in Nat \ {0, 1} /\ MEM_PAGE_SIZE \in Nat \ {0}
  /\ ImagePages \in Nat \ {0} /\ StackPages \in Nat
  /\ PDE_CNT + ImagePages + StackPages <= PDE_CNT * PDE_CNT
  /\ Words \subseteq Nat /\ Incrs \subseteq Nat
  /\ Written \subseteq PDE_CNT .. PDE_CNT * PDE_CNT - 1
  /\ HeapLimit \in 0 .. PDE_CNT * PDE_CNT * MEM_PAGE_SIZE

VARIABLES
  mem,         \* the words of the physical pages
  used,        \* the pages whose bit is set in the allocator's bitmap
  cr3,         \* task_t.tss.cr3, None for a free slot
  heap_start,  \* task_t.heap_start
  heap_end,    \* task_t.heap_end
  halted       \* "no", or why the kernel stopped

vars == <<mem, used, cr3, heap_start, heap_end, halted>>

None == 0
Phys == 1 .. PageNr
Entries == 0 .. PDE_CNT - 1

\* create_kernel_table: the first page holds the kernel's page table, all of it
\* present, which the first entry of every directory points to.
KernelTable == 1

\* MEMORY_TASK_BASE is the second directory entry.
UserPages == PDE_CNT .. PDE_CNT * PDE_CNT - 1
FirstUserPage == PDE_CNT
StackTop == PDE_CNT * PDE_CNT

pde_index(v) == v \div PDE_CNT
pte_index(v) == v % PDE_CNT

\* The sequence of the numbers lo .. hi.
Numbers(lo, hi) == [i \in 1 .. hi - lo + 1 |-> lo + i - 1]

-----------------------------------------------------------------------------
(* Memory in the middle of a call: the words, the bitmap, and what went wrong *)

Memory == [mem |-> mem, used |-> used, err |-> "no"]

Ok(m) == m.err = "no"

FreePages(m) == Phys \ m.used

addr_alloc_page(m) ==
  IF FreePages(m) = {} THEN None ELSE Min(FreePages(m))

Take(m, p) == [m EXCEPT !.used = @ \union {p}]

\* The bit addr_free_page clears: the distance in bytes, taken for a number.
FreedBit(word) == 1 + (word - 1) * MEM_PAGE_SIZE

\* The page a directory maps v to, None if it does not: find_pte without alloc.
PageOf(words, dir, v) ==
  LET table == words[dir][pde_index(v)]
  IN  IF table = None THEN None ELSE words[table][pte_index(v)]

\* find_pte with alloc: the table of v, allocated and cleared if there is none.
WithTable(m, dir, v) ==
  LET p == addr_alloc_page(m) IN
  IF m.mem[dir][pde_index(v)] # None THEN m
  ELSE IF p = None THEN [m EXCEPT !.err = "no table"]
  ELSE [Take(m, p) EXCEPT !.mem[p] = [e \in Entries |-> None],
                          !.mem[dir][pde_index(v)] = p]

\* memory_create_map of one page, with its assertion.
memory_create_map(m, dir, v, page) ==
  LET r     == WithTable(m, dir, v)
      table == r.mem[dir][pde_index(v)]
  IN
  IF ~Ok(r) THEN r
  ELSE IF r.mem[table][pte_index(v)] # None THEN [r EXCEPT !.err = "present"]
  ELSE [r EXCEPT !.mem[table][pte_index(v)] = page]

\* The loop of memory_alloc_for_page_dir: a new page for v.
AllocPage(r, dir, v) ==
  LET p == addr_alloc_page(r) IN
  IF ~Ok(r) THEN r
  ELSE IF p = None THEN [r EXCEPT !.err = "no page"]
  ELSE memory_create_map(Take(r, p), dir, v, p)

\* memory_alloc_for_page_dir for the pages first .. last.  It never fails: a
\* missing page fails an assertion; and after a missing table it frees by
\* virtual address, a negative bit number, which faults in the kernel.
memory_alloc_for_page_dir(m, dir, first, last) ==
  FoldLeft(LAMBDA r, v : AllocPage(r, dir, v), m, Numbers(first, last))

\* memory_create_uvm in page dir: cleared, with the kernel's entries.
memory_create_uvm(m, dir) ==
  [Take(m, dir) EXCEPT !.mem[dir] = [e \in Entries |-> IF e = 0 THEN KernelTable ELSE None]]

\* The words memory_destroy_uvm hands to addr_free_page for a table: its entries,
\* then the word behind the last one, then the table.
ReleasedFor(m, table) ==
  {m.mem[table][i] : i \in Entries} \union {table}
    \union IF table < PageNr THEN {m.mem[table + 1][0]} ELSE {}

\* Those for all tables, but never dir.  (A 0 among them clears a bit below the
\* bitmap, outside of this model.)
Released(m, dir) ==
  (UNION {ReleasedFor(m, m.mem[dir][e]) : e \in {e \in Entries \ {0} : m.mem[dir][e] # None}})
    \ {None}

memory_destroy_uvm(m, dir) ==
  [m EXCEPT !.used = @ \ {FreedBit(word) : word \in Released(m, dir)}]

\* Mutant: the child's pages are the parent's.
Bad_memory_copy_uvm(m, from, dir) ==
  [memory_create_uvm(m, dir) EXCEPT !.mem[dir] = m.mem[from]]

\* Mutant: the data of the pages are not copied.
Bad_memory_copy_uvm_blank(m, from, dir) ==
  LET Copy(r, v) ==
        LET p == addr_alloc_page(r) IN
        IF ~Ok(r) \/ PageOf(r.mem, from, v) = None THEN r
        ELSE IF p = None THEN [r EXCEPT !.err = "undefined"]
        ELSE memory_create_map(Take(r, p), dir, v, p)
  IN  FoldLeft(Copy, memory_create_uvm(m, dir), Numbers(FirstUserPage, StackTop - 1))

\* The loop of memory_copy_uvm: a new page for v, with the data of the old one.
CopyPage(r, from, dir, v) ==
  LET p      == addr_alloc_page(r)
      mapped == memory_create_map(Take(r, p), dir, v, p)
  IN
  IF ~Ok(r) \/ PageOf(r.mem, from, v) = None THEN r
  ELSE IF p = None THEN [r EXCEPT !.err = "undefined"]
  ELSE IF ~Ok(mapped) THEN [mapped EXCEPT !.err = "undefined"]
  ELSE [mapped EXCEPT !.mem[p] = r.mem[PageOf(r.mem, from, v)]]

\* memory_copy_uvm of the space of from into the new directory dir.  On failure
\* it returns no value: the caller goes on with whatever it reads.
memory_copy_uvm(m, from, dir) ==
  FoldLeft(LAMBDA r, v : CopyPage(r, from, dir, v), memory_create_uvm(m, dir),
           Numbers(FirstUserPage, StackTop - 1))

-----------------------------------------------------------------------------
(* The first task *)

Blank == [mem |-> [p \in Phys |-> [e \in Entries |-> IF p = KernelTable THEN p ELSE None]],
          used |-> {KernelTable}, err |-> "no"]

\* task_first_init: a kernel stack, a directory, and the pages of the program,
\* its heap at the address it is loaded from, below MEMORY_TASK_BASE.
Booted ==
  LET stack == Take(Blank, addr_alloc_page(Blank))
      dir   == addr_alloc_page(stack)
  IN  [after |-> memory_alloc_for_page_dir(memory_create_uvm(stack, dir), dir, FirstUserPage,
                                           FirstUserPage + ImagePages - 1),
       dir   |-> dir]

VmInit ==
  /\ mem = Booted.after.mem /\ used = Booted.after.used
  /\ cr3 = [t \in Tasks |-> IF t = FirstTask THEN Booted.dir ELSE None]
  /\ heap_start = [t \in Tasks |-> IF t = FirstTask THEN MEM_PAGE_SIZE \div 2 ELSE 0]
  /\ heap_end = heap_start
  /\ halted = "no"

-----------------------------------------------------------------------------
(* System calls *)

Runs(t) == halted = "no" /\ cr3[t] # None

\* What a call leaves behind.
Leaves(m) == mem' = m.mem /\ used' = m.used /\ halted' = m.err

\* tss_init finds no page for the stack or the directory: the fork fails, and
\* the stack stays allocated, whose bit addr_free_page does not reach.
fork_fails(t) ==
  LET stack == addr_alloc_page(Memory) IN
  /\ Runs(t)
  /\ stack = None \/ FreePages(Memory) = {stack}
  /\ Leaves(IF stack = None THEN Memory ELSE Take(Memory, stack))
  /\ UNCHANGED <<cr3, heap_start, heap_end>>

\* The child gets a stack, the directory of tss_init, which is then forgotten,
\* and a copy of the space; its heap starts and ends at 0.
sys_fork(t, child) ==
  LET stack  == Take(Memory, addr_alloc_page(Memory))
      unused == memory_create_uvm(stack, addr_alloc_page(stack))
      dir    == addr_alloc_page(unused)
      copied == IF dir = None THEN [unused EXCEPT !.err = "undefined"]
                ELSE memory_copy_uvm(unused, cr3[t], dir)
  IN
  /\ Runs(t) /\ cr3[child] = None
  /\ addr_alloc_page(Memory) # None /\ FreePages(stack) # {}
  /\ Leaves(copied)
  /\ cr3' = IF Ok(copied) THEN [cr3 EXCEPT ![child] = dir] ELSE cr3
  /\ heap_start' = [heap_start EXCEPT ![child] = 0]
  /\ heap_end' = [heap_end EXCEPT ![child] = 0]

\* sys_execve of a file that cannot be opened or is no program, or without a page
\* for the directory; the directory stays allocated.
execve_fails(t, file) ==
  LET dir == addr_alloc_page(Memory) IN
  /\ Runs(t) /\ (file = "other" \/ dir = None)
  /\ Leaves(IF dir = None THEN Memory
            ELSE memory_destroy_uvm(memory_create_uvm(Memory, dir), dir))
  /\ UNCHANGED <<cr3, heap_start, heap_end>>

\* A page of the program, filled from the file.
FillPage(r, dir, v) ==
  IF Ok(r) THEN [r EXCEPT !.mem[PageOf(r.mem, dir, v)] = [e \in Entries |-> 0]] ELSE r

\* The pages of the program, and of the stack.
load(m, dir) ==
  LET image == memory_alloc_for_page_dir(memory_create_uvm(m, dir), dir, FirstUserPage,
                                         FirstUserPage + ImagePages - 1)
      filled == FoldLeft(LAMBDA r, v : FillPage(r, dir, v), image,
                         Numbers(FirstUserPage, FirstUserPage + ImagePages - 1))
  IN  IF Ok(filled)
      THEN memory_alloc_for_page_dir(filled, dir, StackTop - StackPages, StackTop - 1)
      ELSE filled

\* The end of the program, in the middle of its last page.
ImageEnd == (FirstUserPage + ImagePages) * MEM_PAGE_SIZE - (MEM_PAGE_SIZE \div 2)

sys_execve(t, file) ==
  LET dir    == addr_alloc_page(Memory)
      loaded == load(Memory, dir)
  IN
  /\ Runs(t) /\ dir # None /\ file = "program"
  /\ Leaves(IF Ok(loaded) THEN memory_destroy_uvm(loaded, cr3[t]) ELSE loaded)
  /\ cr3' = IF Ok(loaded) THEN [cr3 EXCEPT ![t] = dir] ELSE cr3
  /\ heap_start' = [heap_start EXCEPT ![t] = ImageEnd]
  /\ heap_end' = [heap_end EXCEPT ![t] = ImageEnd]

\* Mutant: a heap that fills its last page is thought to fit one page more.
Bad_HeapPages(start, incr) ==
  LET end == start + incr
      new == IF start % MEM_PAGE_SIZE = 0 THEN start
             ELSE start + (MEM_PAGE_SIZE - (start % MEM_PAGE_SIZE))
  IN  IF end <= new + 1 THEN {} ELSE new \div MEM_PAGE_SIZE .. (end - 1) \div MEM_PAGE_SIZE

\* The pages sys_sbrk allocates: none as long as the heap ends in or right behind
\* the page it ends in now; else those from the next page boundary on.
HeapPages(start, incr) ==
  LET end == start + incr
      new == IF start % MEM_PAGE_SIZE = 0 THEN start
             ELSE start + (MEM_PAGE_SIZE - (start % MEM_PAGE_SIZE))
  IN  IF end <= new THEN {} ELSE new \div MEM_PAGE_SIZE .. (end - 1) \div MEM_PAGE_SIZE

sys_sbrk(t, incr) ==
  LET pages == HeapPages(heap_end[t], incr)
      grown == IF pages = {} THEN Memory
               ELSE memory_alloc_for_page_dir(Memory, cr3[t], Min(pages), Max(pages))
  IN
  /\ Runs(t) /\ heap_end[t] + incr <= HeapLimit
  /\ Leaves(grown)
  /\ heap_end' = IF Ok(grown) THEN [heap_end EXCEPT ![t] = @ + incr] ELSE heap_end
  /\ UNCHANGED <<cr3, heap_start>>

\* The task stores a word in one of its pages.
Store(t, v, word) ==
  /\ Runs(t) /\ PageOf(mem, cr3[t], v) # None
  /\ mem' = [mem EXCEPT ![PageOf(mem, cr3[t], v)][0] = word]
  /\ UNCHANGED <<used, cr3, heap_start, heap_end, halted>>

VmNext ==
  \E t \in Tasks :
    \/ \E child \in Tasks : sys_fork(t, child)
    \/ fork_fails(t)
    \/ \E file \in Files : sys_execve(t, file) \/ execve_fails(t, file)
    \/ \E incr \in Incrs : sys_sbrk(t, incr)
    \/ \E v \in Written, word \in Words : Store(t, v, word)

VmSpec == VmInit /\ [][VmNext]_vars

-----------------------------------------------------------------------------
(* Properties *)

Live == {t \in Tasks : cr3[t] # None}

\* The pages a live task uses: its directory, its tables and what they map.
Footprint(t) ==
  LET tables == {mem[cr3[t]][e] : e \in Entries \ {0}} \ {None}
  IN  {cr3[t]} \union tables \union UNION {{mem[p][i] : i \in Entries} \ {None} : p \in tables}

\* The pages of a live task are allocated, the kernel's table is not among them,
\* and no other task uses one of them, whatever was copied, replaced or freed.
SpacesDisjoint ==
  \A t \in Live :
    /\ Footprint(t) \subseteq used \ {KernelTable}
    /\ \A u \in Live \ {t} : Footprint(t) \intersect Footprint(u) = {}

\* Every byte of a heap, from heap_start up to heap_end, is mapped.
HeapMapped ==
  halted = "no" =>
    \A t \in Live : \A a \in heap_start[t] .. heap_end[t] - 1 :
      PageOf(mem, cr3[t], a \div MEM_PAGE_SIZE) # None

Space(t) ==
  [v \in UserPages |-> IF cr3[t] = None \/ PageOf(mem, cr3[t], v) = None THEN -1
                       ELSE mem[PageOf(mem, cr3[t], v)][0]]

Spaces == INSTANCE AbstractSpaces WITH
  Unmapped <- -1, space <- [t \in Tasks |-> Space(t)],
  Image <- {v \in UserPages : v < FirstUserPage + ImagePages \/ v >= StackTop - StackPages},
  First <- FirstUserPage .. FirstUserPage + ImagePages - 1

\* Page directories, tables and physical pages implement separate spaces, of
\* which fork makes true copies, for as long as no heap gets a page table of its
\* own (HeapLimit).
ImplementsSpaces == Spaces!Spec

=============================================================================

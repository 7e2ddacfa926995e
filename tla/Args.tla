-------------------------------- MODULE Args --------------------------------
(***************************************************************************)
(* The arguments of a new program: copy_args of source/kernel/core/task.c  *)
(* and memory_copy_uvm_data of source/kernel/core/memory.c, as operators   *)
(* on physical memory.                                                     *)
(*                                                                         *)
(* Memory is a function from physical addresses to numbers; a character, a *)
(* pointer and a count take one cell each.  The argument area is Len(d)    *)
(* pages from virtual address 0 (the code's stack_top) on, d the numbers   *)
(* of the physical pages they are mapped to.  Behind it nothing is mapped. *)
(***************************************************************************)
EXTENDS Integers, FiniteSetsExt, SequencesExt

CONSTANTS
  MEM_PAGE_SIZE,  \* cells of a page
  Pages,          \* the physical pages an argument area may get, numbers from 1
  Strings         \* the arguments a caller may pass, sequences of characters

ASSUME ArgsAssumption == MEM_PAGE_SIZE \in Nat \ {0} /\ Pages \subseteq Nat \ {0}

Junk == -1
Nul == 0

\* task_args_t: ret_addr, argc, argv.
TaskArgsSize == 3

Address(page, offset) == page * MEM_PAGE_SIZE + offset

Blank == [a \in {Address(p, o) : p \in Pages, o \in 0 .. MEM_PAGE_SIZE - 1} |-> Junk]

\* 0 is the null address.
memory_get_paddr(d, v) ==
  IF v < Len(d) * MEM_PAGE_SIZE
  THEN Address(d[v \div MEM_PAGE_SIZE + 1], v % MEM_PAGE_SIZE)
  ELSE 0

\* What lies outside of these pages is not part of the model.
Write(m, a, cell) == IF a \in DOMAIN m THEN [m EXCEPT ![a] = cell] ELSE m

\* Whether the loop of memory_copy_uvm_data finds every page it copies to.
Mapped(d, to, size) == size = 0 \/ memory_get_paddr(d, to + size - 1) # 0

\* Mutant: only the first address is translated.
Bad_ChunkAddress(d, to, v) == memory_get_paddr(d, to) + (v - to)

\* Where a copy to the address `to` stores what belongs at v: the loop translates
\* `to` and then the first address of every page.
ChunkAddress(d, to, v) ==
  LET start == Max({to, v - (v % MEM_PAGE_SIZE)})
  IN  memory_get_paddr(d, start) + (v - start)

memory_copy_uvm_data(m, d, to, data) ==
  FoldLeft(LAMBDA n, i : Write(n, ChunkAddress(d, to, to + i - 1), data[i]),
           m, [i \in 1 .. Len(data) |-> i])

\* Behind task_args and the table of pointers.
FirstString(argc) == TaskArgsSize + argc

\* The pointer to argument i (from 0) is stored through one physical address, that
\* of the table's start.
TableEntry(d, i) == memory_get_paddr(d, TaskArgsSize) + i

\* One argument of copy_args: the string with its terminator, and its pointer.
CopyArgument(m, d, i, dest, string) ==
  Write(memory_copy_uvm_data(m, d, dest, Append(string, Nul)), TableEntry(d, i), dest)

\* ret_addr is a local variable that was never set.
TaskArgs(argc) == <<Junk, argc, TaskArgsSize>>

-----------------------------------------------------------------------------
(* The program's view *)

Load(m, d, v) == m[memory_get_paddr(d, v)]

\* main finds argv with all its strings.
Finds(m, d, argv) ==
  LET entry(k) == Load(m, d, Load(m, d, 2) + k - 1)
  IN  /\ Load(m, d, 1) = Len(argv)
      /\ \A k \in DOMAIN argv :
           /\ \A j \in DOMAIN argv[k] : Load(m, d, entry(k) + j - 1) = argv[k][j]
           /\ Load(m, d, entry(k) + Len(argv[k])) = Nul

\* The table ends on the page it starts on, or the pages are adjacent.
TableInOnePiece(d, argc) ==
  \A i \in 0 .. argc - 1 : TableEntry(d, i) = memory_get_paddr(d, TaskArgsSize + i)

=============================================================================

# A verification of the kernel

TLA+ specifications of the x86 teaching kernel under `source/`, configurations
that model-check them with TLC, and theorems checked by TLAPS. Paths below are
relative to `source/`; line numbers are those of the commit beside this directory.
`PROJECT.json` maps every definition to the lines it stands for.

## 1. The system

The kernel runs on one processor. After boot it is a set of tasks that make
system calls through a call gate, and one interrupt, the timer (every 10 ms).

| Component | State | Operations | Interacts with |
|---|---|---|---|
| task manager (`kernel/core/task.c`, `dev/time.c`) | `curr_task`, `ready_list`, `sleep_list`, `task_list`; per task `state`, `sleep_ticks`, `slice_ticks` | `task_set_ready/block`, `task_dispatch`, `sys_yield`, `sys_msleep`, `task_time_tick`, `task_start` | everything that blocks |
| mutex (`kernel/ipc/mutex.c`) | `owner`, `locked_count`, `wait_list` | `mutex_lock`, `mutex_unlock` | task manager; used by page allocator, descriptor table, task table, log |
| semaphore (`kernel/ipc/sem.c`) | `count`, `wait_list` | `sem_init/wait/notify/count` | task manager |
| list (`kernel/tools/list.c`) | `first`, `last`, `count`; `pre`, `next` of nodes | insert, remove, walk | all queues |
| bitmap, page allocator (`kernel/tools/bitmap.c`, `core/memory.c`) | the bits, `start`, `page_size` | `bitmap_*`, `addr_alloc_page`, `addr_free_page` | mutex; fork, execve, sbrk |
| virtual memory (`core/memory.c`) | directories and tables in physical pages, `cr3`, `heap_start`, `heap_end` | `find_pte`, `memory_create_map`, `memory_*_uvm`, `sys_sbrk` | page allocator |
| task creation (`core/task.c`, `cpu/cpu.c`) | `task_table`, `gdt_table` | `alloc_task`, `gdt_alloc_desc`, `tss_init`, `task_init`, `sys_fork`, failure paths | all of the above |
| program loading (`core/task.c`, `fs/fs.c`) | `temp_pos`, the buffer at 8 MB, the disk; the argument area of the new stack | `sys_open/read/lseek`, `load_elf_file`, `load_phdr`, `copy_args`, `memory_copy_uvm_data`, `sys_execve` | virtual memory |
| entry and exit (`cpu/irq.c`, `init/start.S`, `dev/time.c`, `core/syscall.c`, `applib/lib_syscall.c`) | the interrupt flag, registers, frames on kernel stacks, the contexts in the TSSs, the interrupt controller | `irq_enter/leave_protection`, the stubs of calls and interrupts, `do_handler_*`, the results fork and execve write into frames | everything runs inside it |
| second-stage loader and memory detection (`loader/*`, `memory_init`) | the BIOS's list, `boot_info`, the kernel's file in memory | `detect_memory`, `read_disk`, `reload_elf_file`, `memory_init` | gives the page allocator its memory |
| boot sector, log, string library, GDT encoding, application library's wrappers, shell | | | not modelled, section 5 |

**What is atomic.** Code between `irq_enter_protection` and `irq_leave_protection`
(`cli` and restoring the flags) is not interrupted, and neither is the timer's
handler, which runs behind an interrupt gate. Everything else can be: a call gate
leaves interrupts enabled, so a task is preempted in the middle of a system call
as well as in user mode, even between two statements of the kernel. That is the
source of most hazards here. A failed `ASSERT` prints and halts for ever.

**What is hard.** The timer may dispatch between any two steps of a task; lists
are changed while they are walked, and removals do not check membership; wakeups
are handed over to tasks that are not running; several parents create tasks
concurrently over a table that is locked only in pieces; resources run out in the
middle of a creation and the part done so far is undone; one file position
serves all tasks; freed pages come back in the space of others; a task may be switched
away from inside a handler inside a system call, and flags and registers must come back
with it; BIOS lists and arguments have sizes and shapes nobody tried. `PROJECT.json`
lists each hazard at its line with the properties that watch it.

**What makes each component correct.** Scheduler: no task lost or queued twice,
the runner is the head of the queue, round robin without overtaking, exact sleeps,
no starvation. Mutex and semaphore: no lost wakeup, one owner who alone gives the
lock back, every wait by an available unit ends. List: implements a sequence.
Allocator: a page has one holder, freed pages come back. Fork: a child owns its
resources, a failed fork gives back what it took, a pid is one child's. Virtual
memory: spaces are disjoint, a heap is mapped, fork copies. Loader: the program on
the disk and nothing else, with the arguments given. Entry and exit: protected code is
never interrupted, programs find their registers, no tick is missed. Second-stage loader:
RAM is counted once, and the kernel is where it was linked.

## 2. Modules

Each component has its module, with the constants' assumptions, one action per
function or protected section, and the properties at the end. A definition named
`Bad_x` is `x` with a plausible bug; nothing uses it: it exists to be put in the
place of `x`, which must then break the property it is listed with.

* **`Task`** – the scheduler. Lists are sequences, time is ticks, `uint32_t` wraps at
  `UINT32`. `task_first_init` starts the machine; `task_init` and `task_start` are
  the two protected sections of a fork, between which the parent may be preempted;
  `sys_yield`, `sys_msleep` are calls; `do_handler_timer` is the interrupt with all
  of `task_time_tick` and the dispatch. The walk over the sleep list wakes the
  tasks that are due in list order (`Selections`). That a slot for a child is free
  is assumed here and examined in `Fork`. `asked` is a history variable.
  Nothing makes a task that is not in `sys_fork` do anything: tasks may compute for ever.
* **`Mutex`**, **`Sem`** – the blocking primitives as actions over `Task`. A lock is
  handed to the first waiter by the unlock itself. `MayLock` states who calls
  `mutex_lock`: kernel code of the running task outside any other critical section
  (every critical section of this kernel locks one mutex), or boot code.
* **`Ipc`** – the composition: system calls, lock steps, the timer, and the fairness.
  **`AbstractLock`** and **`AbstractSem`** say what a lock and a semaphore promise,
  without tasks' states or scheduling; `ImplementsLock`, `ImplementsSem` are the
  refinements.
* **`List`**, **`AbstractLists`** – pointers `pre`, `next`, `first`, `last`, `count`
  as separate functions, each list operation one step, and the loop of
  `task_time_tick` as a walk (`WalkBegin`, `WalkKeep`, `WalkMove`) that moves nodes
  between lists as it goes. The abstract module has sequences.
* **`Bitmap`**, **`PageAlloc`** – the bitmap's functions, with
  `bitmap_alloc_nbits` searching the way the C loop does (`AllocIndex` is a recursive
  function) beside a reference definition (`AllocCorrect`); the allocator over it,
  with `addr_free_page` numbering bits by bytes as the code does.
* **`Fork`** – `sys_fork` with `alloc_task`, `tss_init`, `task_init` and both failure
  paths, for several parents, one step per function that locks a mutex and per
  piece of code between them. Storing the directory and the name is one step.
  Pages come from an allocator that takes back what is freed, descriptors from `gdt_alloc_desc`.
* **`Vm`**, **`AbstractSpaces`** – physical pages as arrays of words; directories and
  tables are pages like others. `memory_copy_uvm`, `memory_destroy_uvm`,
  `memory_create_map` and `memory_alloc_for_page_dir` are operators on the memory
  in the middle of a call, with their assertions as a reason to halt; `sys_fork`,
  `sys_execve`, `sys_sbrk` and their failures are the actions, and `Store` is a user
  program writing its memory. A system call is one step: only its own task
  touches a page table, and the allocator is locked. Two holes are closed by
  assumption: a word 0 behind a table, and the directory 0 that a failed creation
  passes to `memory_destroy_uvm`, free nothing.
* **`Loader`** – `sys_execve` from the opening of the file to the switch: the disk loop
  sector by sector, the shared buffer and `temp_pos`, `sys_read` in two steps (copy, then
  advance), the loops over program headers and pages, the stack, the arguments one by
  one. A sector and a read are one record each. The disk itself is external: it
  delivers what was asked for, and may ignore or restart on a command given in the middle
  of a transfer. **`Args`** has `copy_args`'s pieces as operators on physical memory:
  address translation, the copy that splits at page borders, the table of pointers
  written through one physical address. A character, a pointer and a count are one
  cell each; the pages of the argument area are any pages in any order. Behind an area
  nothing is mapped, and a write outside of the modelled pages has no effect (`Write`): only a table
  that is not in one piece leads there.
* **`Irq`** – what happens to the interrupt flag, the registers and the kernel stacks. Every
  process (tasks, idle, the boot code) has a stack of frames: `call` for a system call,
  `timer` and `fault` for interrupts and exceptions, `section` for the flags that
  `irq_enter_protection` saved in a local variable; an empty stack is user mode. Actions
  are boot's stages, the section's entry and exit, `task_dispatch` with the TSS switch, the
  timer's stub, handler and `iret`, exceptions, the call gate and its return, and what
  `do_handler_syscall`, `sys_fork` and `sys_execve` do to frames. The 8259 is a mask, a
  pending tick and a tick in service. Registers are `eip`, `esp`, `eax`; the others travel with
  them. `user` is a history variable: what each program must find. Which task is
  dispatched is `Task`'s matter: here it may be any task that has been started.
* **`Boot`** – `detect_memory` over any BIOS list, with both ways a BIOS ends it; reading the
  kernel's file and unpacking it in the same memory, cell by cell; `memory_init`'s
  arithmetic. Each run of the machine is one behaviour, the choices are in the initial state.
* **`MC...`** – instances for TLC. **`IpcProofs`** (with `Task`), **`IrqProofs`**, **`ForkProofs`**,
  **`MemoryProofs`** (`PageAlloc` and `Boot`), **`ListProofs`**, **`VmProofs`**,
  **`LoaderProofs`** (with `Args`) – proofs about the modules they are named for; **`Loops`** – the
  lemmas on loops, folds and division they share.

## 3. What is checked

Runs that pass:

| Run | Instance and bounds | Shows |
|---|---|---|
| `task` | 3 tasks, slices of 2 ticks, sleeps of 1 and 2 ticks, 8 values of `uint32_t` | `NoTaskLost`, `RunnerIsHead`, `StateMatchesLists`, `NoOvertaking`, `WakesOnTime`; `ReadyRuns`, `SleeperWakes` |
| `ipc_safety` | 3 tasks, 2 mutexes (depth 2), 1 semaphore, 1 sleep length | `NoTaskLostInIpc`, `NoLostWakeup`, `OwnerIffLocked`, `OnlyOwnerReleases`, `ImplementsLock`, `ImplementsSem` |
| `ipc_liveness` | 3 tasks, 1 mutex, 1 semaphore | `LockGranted`, `HolderRuns` |
| `list` | 4 nodes, 2 lists | `WellLinked`, `ImplementsSequences`, `WalkVisitsAll` |
| `pages` | 6 pages of 6 bytes, 2 holders | `PagesExclusive`, `OnePageCorrect` |
| `fork` | 1 parent, up to 3 slots, 3 descriptors and 7 pages, from every subset free at the start | `ResourcesOwned`, `NoDirectoryErased`, `FailureGivesBack` |
| `vm` | 2 tasks, 24 pages, directories and tables of 4 entries, programs and stacks of 2 pages, heap up to 240 bytes of 30-byte pages | `SpacesDisjoint`, `HeapMapped`, `ImplementsSpaces` |
| `loader` | 1 task, 16 files: 2 program headers loadable or not, data in either order, valid or not; up to 4 arguments of 0, 1 or 3 characters, 2 of 3 pages of 6 cells in any order | `PositionKept`, `ProgramOnDisk`, `HeapBehindProgram`, `ArgsArrive`, `ExecveReturns` |
| `irq` | 2 tasks, idle and boot; 1 place in a program; frames of all kinds in every nesting that occurs | `FlagsKept`, `NeverInterrupted`, `ContextKept`, `TickDelivered` |
| `boot` | lists of 3 to 5 entries in a table of 4 (RAM from 0 to 6, a hole up to 9, 7 or 8 cells of RAM above it, an entry behind), "1 MB" at cell 9, pages of 2 cells, 17 cells of memory, 32-bit numbers modulo 64; kernels of two segments in either file order, with or without zeros behind the data, a segment that is not loaded, and a file that is no ELF file | `RegionsOnce`, `PagesAreRam`, `KernelAsLinked` |

**Why the bounds are enough.** Three
tasks give a runner, a waiter and a third that overtakes or interferes; slices
of two ticks let a task be preempted with and without spending its slice; eight
values let the tick counter wrap during a sleep. Two mutexes show that waiting for
one never touches the other; depth two is one recursion. Four nodes give a list a
first, a last and an inner neighbour of a removed node. Six pages of six bytes are
the smallest instance of the machine's own relation (page size at least the number
of pages) in which frees of all pages occur. In `vm`, two tasks and 24 pages let
fork, execve and sbrk follow each other until memory runs out. In `loader`, a table of
up to four pointers behind three cells of header crosses a page of six cells, strings end
before, at and behind a border, and the longest do not fit. In `irq`, two tasks and idle are
enough for a switch from one nesting to another and back and for a parent with a child.
The halts of `fork` (all parents in user mode with nothing left), `vm` (a failed
assertion), `loader` (arguments that do not fit), `irq` (an exception has halted the
machine) and the end of `boot` are real, so those runs allow deadlock; the others do not.

Runs that TLC must find violated, each a disagreement of the code with its own
words (quoted in `PROJECT.json`):

| Run | Property | What happens |
|---|---|---|
| `fork_pids` | `PidsDistinct` | two parents get one slot (`core/task.c:305`) |
| `loader_two` | `PositionKept` | two tasks share one file position (`fs/fs.c:69`) |

Other disagreements met while modelling, which no run repeats:

* `addr_free_page` numbers the bits it frees in bytes instead of pages
  (`core/memory.c:52`), so a freed page's own bit stays set and the page never comes
  back, against "释放多页内存" (releases pages of memory, `core/memory.c:45`).
* `sbrk` of a task that has not called execve maps pages in the kernel's range and
  fails the assertion of `core/memory.c:127`: the first task's heap starts at its load address
  ("这里不对", this is not right, `core/task.c:92`), a forked child's at 0.
* `detect_memory` skips the check for the end of the list when an entry is to be ignored
  (`loader/loader_16.c:70`). If it is the last one, the BIOS is asked from the start again:
  ranges are listed twice, and `memory_init` takes their sum for memory. `RegionsOnce`
  and `PagesAreRam` fail without `FitsLoop`.
* `memory_init` takes the sum of all ranges less 1 MB for the memory behind 1 MB
  (`core/memory.c:262`): pages behind the end of RAM if there is a hole ("暂不考虑中间有空洞的情况",
  holes are not considered for now, `core/memory.c:74`), which `OneUpperRange` excludes.
* The table of pointers of `copy_args` is written through one physical address
  (`core/task.c:518`): with more pointers than the page has room for it writes into the next
  physical page, whoever has it. `TableInOnePiece` excludes it.
* `argv` has no null pointer behind its last entry (`core/task.c:515`), though the comment
  says there is room for one.
* `sys_execve` sets the task's name before it can fail (`core/task.c:543`); a path ending in a
  slash makes the name empty, and `alloc_task` (`core/task.c:305`) takes a slot without a
  name for a free one.
* `sem_init(sem, 1)` makes a semaphore of 0 (`ipc/sem.c:9`, against `ipc/sem.h:16`);
  with a positive `InitCount` `ImplementsSem` fails in the initial state.
* With more pages than bytes per page the wrong bit of `addr_free_page` belongs to
  another holder's page: `PagesExclusive` fails with `PageSize = 2`. In the machine as
  configured (4096-byte pages, 128 MB at most) only a free of one of the first eight pages
  clears a bit at all (0, 4096, 8192 and so on), and these hold the kernel's page tables; all
  other pages are just never given back.
* `bitmap_alloc_nbits` accepts a block of several bits whose last bit differs
  (`tools/bitmap.c:70`); the kernel asks for one bit only.
* A failed fork frees the descriptor written in its slot, which may by then be another
  parent's child's (`core/task.c:320`).
* `memory_destroy_uvm` reads and frees the word behind a page table
  (`core/memory.c:293`), and a page of the kernel's own table if that is what it names.

**Fairness.** `task` assumes only that the timer keeps interrupting and that the boot
code goes on (weak fairness): a task that computes for ever is allowed, and yet every
ready task runs. `ipc_liveness` adds strong fairness of unlocking: a task that
is given the processor again and again gets to the end of its critical section,
which is a bounded piece of code; it must be strong because the timer takes the
processor away in between. No task is assumed to lock, to notify, or to run while it
waits. `loader` assumes weak fairness of a task's own steps, which is what `ReadyRuns`
gives, and that the disk answers. `irq` assumes weak fairness of the boot code and of
kernel code that runs with interrupts disabled, for nothing can keep the CPU from it, and
strong fairness of the timer's interrupt: a pending tick is taken when the flag is set
again and again, even if every stretch is short. Programs and system calls with
interrupts enabled are assumed to do nothing, tasks to be dispatched in any order.

## 4. What is proved

Each theorem holds for every value of the constants that satisfies its module's
assumptions, which `PROJECT.json` lists with what they establish. In brackets, the properties of
section 3 they state.

* `IpcProofs`, first on `Task` alone, for any number of tasks, any slice, tick and wrap-around
  (`TaskAssumption`: the first task is a task, the idle task and the null pointer are not, a
  tick has at least 1 ms and at most half of `UINT32`, sleeps are positive and below
  half of it, as `msleep`'s `int` makes them): `TaskTypes`, `TasksAreKept` (`NoTaskLost`),
  `TaskRunnerIsHead` (`RunnerIsHead`), `StatesMatchLists` (`StateMatchesLists`) and the action
  properties `NobodyIsOvertaken` (`NoOvertaking`) and `SleepersWakeOnTime` (`WakesOnTime`),
  from `TaskInvariant` and `SleepersInvariant`.
* `IpcProofs`, then for any numbers of mutexes and semaphores besides: `IpcTypes`,
  `IpcTasksAreKept` (`NoTaskLostInIpc`), `NoWakeupIsLost` (`NoLostWakeup`),
  `LockedMutexesAreOwned` (`OwnerIffLocked`), `OwnersReleaseThemselves` (`OnlyOwnerReleases`); the
  refinements `MutexesImplementLocks` (`ImplementsLock`) and `SemaphoresImplementPermits`
  (`ImplementsSem`, for counts of 0, as `sem_init` makes them whatever it is asked for);
  and order, states and sleeps again with blocking in play, `IpcNobodyIsOvertaken`,
  `IpcStatesMatchLists`, `IpcSleepersWakeOnTime`; from `IpcInvariant`.
* `IrqProofs`, for any tasks and places of programs (`IrqAssumption`: the first task is a
  task, idle and boot are two others): `IrqTypes`, `FlagsAreKept` (`FlagsKept`),
  `NothingIsInterrupted` (`NeverInterrupted`), `ContextsAreKept` (`ContextKept`), from
  `IrqInvariant`.
* `ForkProofs`, for any numbers of slots, descriptors and pages and one parent:
  `ChildrenOwnResources` (`ResourcesOwned`), `DirectoriesAreKept` (`NoDirectoryErased`),
  `FailedForksGiveBack` (`FailureGivesBack`), from `ForkInvariant`. One parent is needed:
  with two, `fork_pids` shows the race, and resources are lost with it.
* `ListProofs`, for any finite set of nodes and any lists: `ListsAreWellLinked`
  (`WellLinked`), `WalksVisitAll` (`WalkVisitsAll`) and the refinement
  `ListsImplementSequences` (`ImplementsSequences`), from `ListInvariant`.
* `MemoryProofs`, on `PageAlloc`, for any number and size of pages and any holders: `PageTypes`,
  `FirstFreePage` (`OnePageCorrect`), `HarmlessFreesKeepPages` and `SmallMemoryKeepsPages`
  (`PagesExclusive`, under conditions explained below).
* `MemoryProofs`, on `Boot`, for any BIOS list and either way of ending it, any size of the table,
  of pages and of memory, and any kernel file (`BootAssumption`: numbers have a last
  value, memory is not larger than they count, and a file that the build makes, if it is an ELF
  file, has its program headers behind the ELF header, segments within the file, no larger
  there than in memory, and linked to different places below 1 MB, which is `Linked` and
  what `kernel.lds` asks for): `UsableRangesAreFoundOnce` (`RegionsOnce`), `AllocatedPagesAreRam`
  (`PagesAreRam`), `KernelIsEnteredAsLinked` (`KernelAsLinked`).
* `VmProofs`, for any numbers of tasks, pages, entries of a table, pages of program and
  stack, and any sizes of pages and heaps (`VmAssumption`: a program and a stack fit behind the
  kernel's range, programs write and heaps grow in theirs): `SpacesStayDisjoint` and
  `SmallMemoryKeepsSpaces` (`SpacesDisjoint`), `HeapsAreMapped` (`HeapMapped`), the refinement
  `DirectoriesImplementSpaces` (`ImplementsSpaces`), from `SpacesInvariant`.
* `LoaderProofs`, for any files, arguments, page size and argument area (`LoaderAssumption`: the
  area has room for `task_args`) and any number of tasks in `sys_execve`: `ArgumentsArrive`
  (`ArgsArrive`), as long as every table of pointers is in one piece, and `ShortTablesArrive`, the
  same if `ArgMax` pointers fit behind `task_args` on a page, which makes that so
  (1021 arguments in the running machine). With one task: `OneCallersArgumentsArrive`
  (`ArgsArrive`, whatever earlier calls did); `OneReaderKeepsPosition`
  (`PositionKept`) and `SegmentsComeFromDisk`, from `LoaderInvariant`; and, if every file is a program (`IsProgram`: behind a header that passes the
  checks stand the program headers it counts, and the file has the pages they name),
  `ProgramIsLoadedFromDisk` (`ProgramOnDisk`) and `HeapStartsBehindProgram`
  (`HeapBehindProgram`). With two tasks `loader_two` shows that `PositionKept` is false, and
  with a file that ends too early a task gets what lies behind the buffer.
* `Loops`: a set that holds 0 and with each turn of a loop the next one holds all of them
  (`LoopLemma`), a fold is a function of the turns done (`FoldExists`), and what `\div`
  and `%` are.

**The scheduler, mutexes and semaphores.** `NoTaskLost` is not inductive: a removal from the ready list is only
harmless because the task removed is in it, which needs `RunnerIsHead`; a tick keeps
`slice_ticks` a number only if the charged task's slice is not used up; `task_start`
needs its child on the task list and started by nobody else; and before boot ends
nothing but idle may exist. `TaskInv(W)` has these parts, with the set `W` of tasks
blocked elsewhere as a parameter: it is preserved by the scheduler's steps for any fixed `W`, so that the same
lemmas serve `Task` alone (`W = {}`) and `Ipc` (`W = Waiting`, the members of all wait
lists). `IpcInv` adds that a task is in one wait list at most (`WaitsOnce`),
`NoLostWakeup` itself, and `OwnersOK`: a free mutex has no owner, a locked one has one
once boot is over, and during boot nobody owns or waits; its steps are a change of one wait list and of the
ready list, which cancel in `QueuesOK`. `IpcProofs` starts with lemmas on appending,
removing, selecting and concatenating sequences without duplicates; then there is one
lemma per action.

For the round robin, `Keeps` says that a step leaves all tasks but the running one in their
order: a removal does, an append does, and so does a dispatch, which only moves the
head to the end; the properties of one step follow without an invariant of its own.
`SleepersOK` says that what is left of a sleep and what has been slept make up what was asked
for, in ticks. The sum stays below half of `UINT32` (`CeilingLemma`), so the difference of two
values of a wrapping counter is what has been slept (`WrapLemma`). The refinements
need from the invariant that an owner is not in a wait list, that only the running task waits
or releases, and that the first waiter is the one that gets the lock: each step of
`Ipc` is one step of a single lock or semaphore, or leaves it alone.

**Entry and exit.** `ContextKept` speaks of tasks without frames only, so `IrqInv` says what a task will find
when its frames are popped (`Popped`, `Restored`), whatever lies on its stack: only the bottom
frame matters, and if that is a call's, execve and fork change exactly what `user` records.
`StackOK` describes the stacks: each frame saved the flag of the code below it
(`FlagAbove`), a tick's frame saved a set flag, a call's is the first, boot has only
sections. Nearly every step pushes, pops or marks the top of one stack, and `LocalStep`
reduces such a step to facts about that stack.

**Fork.** `ForkInv` says of a parent's call in `sys_fork`, place by place, what it holds (`ChildOK`):
from which place on the descriptor and the stack are taken and nobody else's, since when
they stand in the child's slot, and from which place on a failure has given them back. Its core
is that a slot that is neither named nor being filled is empty (`UnnamedEmpty`), so
`task_uninit` finds nothing in it that a former child left. That a function that takes the
first page or descriptor takes a free one (`MinLemma`) needs the well-foundedness of the
natural numbers.

**Lists.** `Shape` says which links, ends and counts show given sequences: distinct
nodes, no node in two of them, and no links on a node in none. That insertion and
removal turn the shape of one sequence into that of another is `ReplaceLemma` with the
links of the nodes concerned. `Content` reads the sequence off the links by a recursive function; it is
determined by the shape, because the nodes reached after i steps are by the least
counterexample those of the sequence. A walk has the rest of its list (`WalkShows`): moving
the current node leaves that rest alone, since `next` was read before.

**Pages.** `bitmap_alloc_nbits` for one bit is a loop; that it stops at the first free one is
argued with the least element of a set of indices rather than by induction. `PagesExclusive`
is not true of any memory, as section 3 says: `addr_free_page` takes a distance in bytes
for a number of a bit. `HarmlessFrees` says that a free hits no other page's bit. That
this is all that is needed is `HarmlessFreesKeepPages`; that it holds with no more pages than
bytes in a page, since then the distance of every page but the first is beyond the
bitmap, is `SmallMemoryKeepsPages`.

**Virtual memory.** `Tree` gives every page an owner, a directory and a place in it:
the directory itself, a table, or a page that a table's entry names. Since a page has one owner, two
directories share none; everything owned is allocated; the kernel's table is nobody's.
The five relations `Grown`, `Filled`, `Rewrites`, `Adds` and `Same` say what a piece of a system
call does to the memory and to the spaces of given directories; they are transitive where the
code calls one piece after another, and a loop over pages is a run of turns (`FoldLeft`
seen as a sequence of intermediate memories), for which the least turn that leaves the
relation would be a contradiction. `Tree` survives the release of a space because the
pages released have owners in that directory only. `HarmlessFrees` is again the condition:
`memory_destroy_uvm` frees words behind a table, which may be anything, and each free
clears a bit chosen by a distance in bytes. In up to 16 MB (`SmallMemoryKeepsSpaces`) only one
such free is possible, that of the kernel's table, if the word behind a table names
it. In the machine's 128 MB the first eight pages, which hold the kernel's tables, are the ones
whose free clears a bit, so there the condition says that no word behind a table is
an address of these pages. In the instance of run `vm` it holds throughout, as TLC confirms.
`DirectoriesImplementSpaces` needs a machine with memory enough to start the first task
(`Ok(Booted.after)`): otherwise there is no space to begin with. The heap's invariant
(`HeapOK`) adds to `HeapMapped` that the page in the middle of which the heap ends is mapped, since
`sys_sbrk` allocates from the next page boundary on.

**Loops and folds.** What a fold computes would be proved by induction over its data, which
the installed provers cannot apply. `Loops` goes another way: a recursive function on
sets of turns exists (`FoldExists`, with the least number of turns for which it would
not), so the values after 0, 1, 2 ... turns form a sequence whose neighbours are one turn apart
(`TotalRun`, `UnpackRun`, `CopyRun`), and what a turn preserves holds after all of them
(`LoopLemma`).

**Boot.** `DetectInv` has the regions found so far as those of an increasing choice of the
entries reported so far; without `FitsLoop` an entry may be reported again. `AllocatedPagesAreRam`
needs that a sum of sizes of ranges that share no cell is at most the size of the memory they lie
in (`SumOfRanges`): the ranges other than the upper one lie below 1 MB, so the sum less 1 MB is at
most the upper range's size. It also needs 1 MB of memory in all, without which the
subtraction wraps: that condition is part of `PagesAreRam`, as is that the ranges are
disjoint. `KernelInv` says of each place in the boot how much of the file is in memory and which
segments have been unpacked (`Unpacked`). Unpacking reads the file above 1 MB and writes
below, so it spoils neither what is still to be read nor, since segments are apart, what
has been unpacked (`UnpackLemma`).

**Loading.** `FileRead` follows the disk: it has delivered what the task has stored, so that the
buffer is the file when the loop ends; `PositionOK` adds to `PositionKept` where the position is
between the copy and the advance of a `sys_read`; `FromFile` says that the headers and
pages read are the file's. It takes one task, because the position, the buffer and the disk
have no owner. `ProgramInv` adds how far the directory has come: between two program
headers it is the program of the headers done (`OnDisk(n)`), and within a segment
that program with some pages of the segment over it (`Partly`). `OnDisk` is stated for the whole file, the
last segment winning where two overlap; that one header more, or a skipped one,
turns `OnDisk(n)` into `OnDisk(n + 1)` are the lemmas `HeaderLoaded` and `HeaderSkipped`, and the same
lemmas give the heap's start, which is the end of the last segment *loaded*, not of the last
header.

**Arguments.** Addresses of the area are translated one to one into its pages (`PaddrLemma`), and
the chunks of `memory_copy_uvm_data`, which translate the first address of each page only,
reach the same cells (`ChunkLemma`). `CopyLemma` then says what a copy leaves in the task's
view, and `ArgsInv` that every argument copied so far has its pointer in the table and its
string and terminator below `dest` (`Arrived`): later strings lie behind, later pointers
elsewhere in the table, and `task_args` in front of it. With several tasks the areas have no page
in common (`AreasApart`), because `alloc_stack` takes pages that no area has, and a step writes to
pages of its own task's area only (`Arrives`), so that everybody else's arguments stay
(`OthersKept`). That last fact needs the writer's table to be in one piece, since the
table is not translated page by page: a table that runs into the page behind may overwrite
another task's strings. So `ArgumentsArrive` assumes it of every state (`[]Tables`), and
`ShortTablesArrive` proves it of short tables (`ShortTable`). With one task there is nobody to
overwrite. What several tasks' copying does to each other is thus proved and not a run
of its own; `loader` checks one task's.

**Only model-checked.** Liveness (`ReadyRuns`, `SleeperWakes`, `LockGranted`, `HolderRuns`,
`ExecveReturns`, `TickDelivered`): TLAPS does not handle fairness and ENABLED. Every other
property of a passing run is stated by a theorem. `PidsDistinct`, and `PositionKept` with two
tasks, are false. What is proved under a hypothesis (one parent, one reader, `HarmlessFrees`) is
model-checked without it where section 3 lists the run.

## 5. What is not modelled

The boot sector (a BIOS call and a jump) and the switches to protected mode and
paging; what exception handlers print (they halt, which `Irq` has); the encoding of
descriptors, gates and page table permissions, written with constants; the log, except
its mutex; the string library, except what `Loader` and `Args` use; the names of
tasks; the wrappers of the application library and the shell, whose behaviour is
contained in what the modules let any task do; the second interrupt controller, on which no
interrupt is unmasked. The generated files in `kernel/build` and the scripts are no part of
the system.

The modules abstract from each other where they meet: `Task` takes protected sections to
be atomic, which `Irq` shows; `Irq` lets any task be dispatched, which `Task` narrows;
`Fork`, `Vm` and `Loader` let their tasks preempt each other anywhere, as `Task` allows.

## 6. Plan

Done in this order: `Task`, `Mutex`, `Sem`, `Ipc` and the proofs about them; `List`;
`Bitmap`, `PageAlloc`; `Fork`; `Vm`; `Loader`; `Irq` and its proofs; `Args` with the rest of
`sys_execve`; `Boot`; the proofs about `Fork`; those about order, states, sleeps and the
refinements of `Ipc`; about `PageAlloc`, `List`, `Vm`; about reading the file in `Loader` with one task; about
`Boot`; about the program that `Loader` gives a task and the arguments of any number of tasks. Next:

1. Proofs: what of `ForkInv` survives two parents; that `Boot` ends in a state in which `PageAlloc` may start.
2. `Vm` with the file buffer at 8 MB inside the allocator's memory.
3. `Fork` with names that execve changes, and with two parents and plentiful resources for
   the properties that survive the race.
4. The string library's functions on short arrays against reference definitions.

-------------------------------- MODULE Fork --------------------------------
(***************************************************************************)
(* Task creation: sys_fork of source/kernel/core/task.c with alloc_task,   *)
(* task_init, tss_init, free_task and task_uninit, and the descriptor      *)
(* table of source/kernel/cpu/cpu.c, run by several parents that preempt   *)
(* each other.                                                             *)
(*                                                                         *)
(* Each function that locks a mutex is one step; so is a piece of code     *)
(* between two such functions.  The pages come from an allocator that gives *)
(* back what is freed, which PageAlloc shows addr_free_page does not do.   *)
(***************************************************************************)
EXTENDS Integers, FiniteSets, FiniteSetsExt

CONSTANTS
  Parents,  \* tasks that fork
  TASK_NR,  \* slots of task_table
  GDT_FREE, \* descriptors not taken by the boot code
  PageNr    \* free pages

ASSUME ForkAssumption == TASK_NR \in Nat /\ GDT_FREE \in Nat /\ PageNr \in Nat

Slots == 1 .. TASK_NR
Sels  == 1 .. GDT_FREE
Pages == 1 .. PageNr

None == 0   \* a null pointer, selector 0, address 0

VARIABLES
  slot,   \* task_table: name[0] # 0, tss_sel, tss.esp0, tss.cr3
  gdt,    \* the descriptors marked as occupied
  free,   \* the free pages
  proc,   \* a parent's place in sys_fork and its local variables
  pids    \* history: how many sys_fork calls returned each pid

vars == <<slot, gdt, free, proc, pids>>

\* After task_manager_init: kernel_memset of the task table.
Empty == [named |-> FALSE, tss_sel |-> None, esp0 |-> None, cr3 |-> None]

\* Outside sys_fork.
User == [at |-> "user", child |-> None, sel |-> None, stack |-> None, dir |-> None]

ForkInit ==
  /\ slot = [s \in Slots |-> Empty]
  /\ gdt \in SUBSET Sels
  /\ free \in SUBSET Pages
  /\ proc = [p \in Parents |-> User]
  /\ pids = [s \in Slots |-> 0]

At(p, at) == proc[p].at = at

Go(p, at) == proc' = [proc EXCEPT ![p].at = at]

\* addr_alloc_page of a page for p's local variable, or 0.
AllocPage(p, at, failed) ==
  IF free = {}
  THEN Go(p, failed) /\ UNCHANGED free
  ELSE /\ free' = free \ {Min(free)}
       /\ IF at = "publish"
          THEN proc' = [proc EXCEPT ![p].at = at, ![p].stack = Min(free)]
          ELSE proc' = [proc EXCEPT ![p].at = at, ![p].dir = Min(free)]

-----------------------------------------------------------------------------
(* sys_fork: a slot *)

\* alloc_task: the first slot without a name.  The slot is not marked.
alloc_task(p) ==
  LET unnamed == {s \in Slots : ~slot[s].named} IN
  /\ At(p, "user")
  /\ unnamed # {}    \* otherwise sys_fork returns -1, having changed nothing
  /\ proc' = [proc EXCEPT ![p] = [User EXCEPT !.at = "gdt", !.child = Min(unnamed)]]
  /\ UNCHANGED <<slot, gdt, free, pids>>

-----------------------------------------------------------------------------
(* tss_init *)

\* Mutant: the descriptor is not marked.
Bad_gdt_alloc_desc(p) ==
  /\ At(p, "gdt")
  /\ IF gdt = Sels
     THEN Go(p, "free_task")
     ELSE proc' = [proc EXCEPT ![p].at = "clear", ![p].sel = Min(Sels \ gdt)]
  /\ UNCHANGED <<slot, gdt, free, pids>>

gdt_alloc_desc(p) ==
  /\ At(p, "gdt")
  /\ IF gdt = Sels
     THEN Go(p, "free_task") /\ UNCHANGED gdt
     ELSE /\ gdt' = gdt \union {Min(Sels \ gdt)}
          /\ proc' = [proc EXCEPT ![p].at = "clear", ![p].sel = Min(Sels \ gdt)]
  /\ UNCHANGED <<slot, free, pids>>

clear_tss(p) ==
  /\ At(p, "clear")
  /\ slot' = [slot EXCEPT ![proc[p].child] = [@ EXCEPT !.esp0 = None, !.cr3 = None]]
  /\ Go(p, "stack")
  /\ UNCHANGED <<gdt, free, pids>>

alloc_stack(p) ==
  /\ At(p, "stack")
  /\ AllocPage(p, "publish", "undo_sel")
  /\ UNCHANGED <<slot, gdt, pids>>

set_tss(p) ==
  /\ At(p, "publish")
  /\ slot' = [slot EXCEPT ![proc[p].child] = [@ EXCEPT !.esp0 = proc[p].stack,
                                                       !.tss_sel = proc[p].sel]]
  /\ Go(p, "dir")
  /\ UNCHANGED <<gdt, free, pids>>

memory_create_uvm(p) ==
  /\ At(p, "dir")
  /\ AllocPage(p, "name", "undo_sel")
  /\ UNCHANGED <<slot, gdt, pids>>

\* Mutant: the descriptor is not given back.
Bad_undo_sel(p) ==
  /\ At(p, "undo_sel")
  /\ Go(p, "undo_stack")
  /\ UNCHANGED <<slot, gdt, free, pids>>

\* tss_init_failed: the descriptor, then the stack if there is one.
undo_sel(p) ==
  /\ At(p, "undo_sel")
  /\ gdt' = gdt \ {proc[p].sel}
  /\ Go(p, "undo_stack")
  /\ UNCHANGED <<slot, free, pids>>

undo_stack(p) ==
  /\ At(p, "undo_stack")
  /\ free' = free \union ({proc[p].stack} \ {None})
  /\ Go(p, "free_task")
  /\ UNCHANGED <<slot, gdt, pids>>

-----------------------------------------------------------------------------
(* task_init and the rest of sys_fork *)

\* The directory is stored and the parent's name copied: the slot is taken.
set_name(p) ==
  /\ At(p, "name")
  /\ slot' = [slot EXCEPT ![proc[p].child] = [@ EXCEPT !.named = TRUE, !.cr3 = proc[p].dir]]
  /\ Go(p, "copy")
  /\ UNCHANGED <<gdt, free, pids>>

\* Mutant: a failed copy makes the fork fail.
Bad_memory_copy_uvm(p) ==
  /\ At(p, "copy")
  /\ IF free # {}
     THEN /\ free' = free \ {Min(free)}
          /\ slot' = [slot EXCEPT ![proc[p].child].cr3 = Min(free)]
          /\ Go(p, "start")
     ELSE Go(p, "free_task") /\ UNCHANGED <<slot, free>>
  /\ UNCHANGED <<gdt, pids>>

\* memory_copy_uvm, for a parent of one page directory: the child gets a second
\* directory.  Without memory it returns no value, and whatever the caller reads
\* is not negative as a uint32_t: the fork goes on.
memory_copy_uvm(p) ==
  /\ At(p, "copy")
  /\ IF free # {}
     THEN /\ free' = free \ {Min(free)}
          /\ slot' = [slot EXCEPT ![proc[p].child].cr3 = Min(free)]
     ELSE /\ \E undefined \in {None, proc[p].dir} :
               slot' = [slot EXCEPT ![proc[p].child].cr3 = undefined]
          /\ UNCHANGED free
  /\ Go(p, "start")
  /\ UNCHANGED <<gdt, pids>>

\* task_start, and the pid is returned to the parent.
start_child(p) ==
  /\ At(p, "start")
  /\ pids' = [pids EXCEPT ![proc[p].child] = @ + 1]
  /\ proc' = [proc EXCEPT ![p] = User]
  /\ UNCHANGED <<slot, gdt, free>>

-----------------------------------------------------------------------------
(* fork_failed *)

free_task(p) ==
  /\ At(p, "free_task")
  /\ slot' = [slot EXCEPT ![proc[p].child].named = FALSE]
  /\ Go(p, "uninit_sel")
  /\ UNCHANGED <<gdt, free, pids>>

\* task_uninit: the slot's descriptor ...
uninit_sel(p) ==
  /\ At(p, "uninit_sel")
  /\ gdt' = gdt \ {slot[proc[p].child].tss_sel}
  /\ Go(p, "uninit_stack")
  /\ UNCHANGED <<slot, free, pids>>

\* ... its stack ...
uninit_stack(p) ==
  /\ At(p, "uninit_stack")
  /\ free' = free \union ({slot[proc[p].child].esp0} \ {None})
  /\ Go(p, "erase")
  /\ UNCHANGED <<slot, gdt, pids>>

\* ... and kernel_memset of the slot.
erase_slot(p) ==
  /\ At(p, "erase")
  /\ slot' = [slot EXCEPT ![proc[p].child] = Empty]
  /\ proc' = [proc EXCEPT ![p] = User]
  /\ UNCHANGED <<gdt, free, pids>>

tss_init(p) ==
  \/ gdt_alloc_desc(p) \/ clear_tss(p) \/ alloc_stack(p) \/ set_tss(p)
  \/ memory_create_uvm(p) \/ undo_sel(p) \/ undo_stack(p)

task_uninit(p) == uninit_sel(p) \/ uninit_stack(p) \/ erase_slot(p)

sys_fork(p) ==
  \/ alloc_task(p) \/ tss_init(p) \/ set_name(p) \/ memory_copy_uvm(p)
  \/ start_child(p) \/ free_task(p) \/ task_uninit(p)

ForkNext == \E p \in Parents : sys_fork(p)

ForkSpec == ForkInit /\ [][ForkNext]_vars

-----------------------------------------------------------------------------
(* Properties *)

Places == {"user", "gdt", "clear", "stack", "publish", "dir", "undo_sel", "undo_stack",
           "name", "copy", "start", "free_task", "uninit_sel", "uninit_stack", "erase"}

TaskSlots == [named : BOOLEAN, tss_sel : Sels \union {None},
              esp0 : Pages \union {None}, cr3 : Pages \union {None}]

Locals == [at : Places, child : Slots \union {None}, sel : Sels \union {None},
           stack : Pages \union {None}, dir : Pages \union {None}]

\* Type invariant of task creation.
ForkTypeOK ==
  /\ slot \in [Slots -> TaskSlots]
  /\ gdt \subseteq Sels /\ free \subseteq Pages
  /\ proc \in [Parents -> Locals]
  /\ pids \in [Slots -> Nat]

Started == {s \in Slots : pids[s] > 0}

\* A task that has been started owns its descriptor and its kernel stack: they
\* are allocated and no other started task has them.
ResourcesOwned ==
  \A s \in Started :
    /\ slot[s].tss_sel \in gdt /\ slot[s].esp0 \in Pages \ free
    /\ \A r \in Started \ {s} :
         slot[r].tss_sel # slot[s].tss_sel /\ slot[r].esp0 # slot[s].esp0

\* Each successful fork returns the pid of a child of its own.
PidsDistinct == \A s \in Slots : pids[s] <= 1

\* When task_uninit erases a slot, no page directory is lost in it ("no space
\* has been allocated", says the comment on the missing memory_destroy_uvm).
NoDirectoryErased ==
  \A p \in Parents : At(p, "erase") => slot[proc[p].child].cr3 = None

\* A failed fork leaves the table, the descriptors and the pages as they were
\* before alloc_task: a parent at the end of its failure path holds nothing.
FailureGivesBack ==
  \A p \in Parents : At(p, "erase") =>
    /\ proc[p].sel \notin gdt
    /\ proc[p].stack # None => proc[p].stack \in free
    /\ ~slot[proc[p].child].named

=============================================================================

-------------------------------- MODULE Mutex --------------------------------
(***************************************************************************)
(* The recursive mutex of source/kernel/ipc/mutex.c over the task manager: *)
(* a first-come-first-served wait list linked through wait_node, and a     *)
(* direct hand-over of the lock to the first waiter.                       *)
(***************************************************************************)
EXTENDS Task

CONSTANTS
  Mutexes,   \* the kernel's mutexes: task table, gdt, page allocator, log
  MaxDepth   \* bound of locked_count, for model checking

ASSUME MutexAssumption == MaxDepth \in Nat \ {0}

VARIABLES
  owner,        \* mutex_t.owner
  locked_count, \* mutex_t.locked_count
  wait_list     \* mutex_t.wait_list

mutexVars == <<owner, locked_count, wait_list>>

\* mutex_init
MutexInit ==
  /\ owner = [m \in Mutexes |-> NoTask]
  /\ locked_count = [m \in Mutexes |-> 0]
  /\ wait_list = [m \in Mutexes |-> <<>>]

\* Mutant: unlock does not look at the owner.
Bad_Holds(t, m) == locked_count[m] > 0

Holds(t, m) == locked_count[m] > 0 /\ owner[m] = t

\* The code that calls mutex_lock: kernel code of the running task, or boot code
\* (NoTask) before there is one.  Each of the kernel's critical sections
\* (alloc_task, free_task, gdt_alloc_desc, gdt_free_sel, addr_alloc_page,
\* addr_free_page, log_printf) locks one mutex and calls nothing that locks
\* another; boot code locks only what is free.
MayLock(t, m) ==
  /\ t = curr_task /\ t # IdleTask
  /\ \A n \in Mutexes \ {m} : ~Holds(t, n)
  /\ t = NoTask => locked_count[m] = 0
  /\ locked_count[m] < MaxDepth \/ owner[m] # t

\* mutex_lock: a free mutex is taken, a mutex of the caller counted ...
mutex_lock_take(t, m) ==
  /\ MayLock(t, m)
  /\ \/ locked_count[m] = 0
     \/ owner[m] = t /\ t # NoTask
  /\ locked_count' = [locked_count EXCEPT ![m] = @ + 1]
  /\ owner' = [owner EXCEPT ![m] = t]
  /\ UNCHANGED <<wait_list, taskVars>>

\* Mutant: the caller is queued but stays on the ready list.
Bad_mutex_lock_wait_ready(t, m) ==
  /\ MayLock(t, m)
  /\ locked_count[m] # 0
  /\ ~(owner[m] = t /\ t # NoTask)
  /\ wait_list' = [wait_list EXCEPT ![m] = Append(@, t)]
  /\ task_dispatch(ready_list, state)
  /\ UNCHANGED <<owner, locked_count, sleep_list, task_list, sleep_ticks,
                 slice_ticks, sys_tick, starting, asked>>

\* Mutant: the last to come is queued first.
Bad_mutex_lock_wait_first(t, m) ==
  /\ MayLock(t, m)
  /\ locked_count[m] # 0
  /\ ~(owner[m] = t /\ t # NoTask)
  /\ wait_list' = [wait_list EXCEPT ![m] = <<t>> \o @]
  /\ task_dispatch(task_set_block(ready_list, t), state)
  /\ UNCHANGED <<owner, locked_count, sleep_list, task_list, sleep_ticks,
                 slice_ticks, sys_tick, starting, asked>>

\* ... and another task's mutex blocks the caller; it owns the mutex when
\* mutex_lock returns.
mutex_lock_wait(t, m) ==
  /\ MayLock(t, m)
  /\ locked_count[m] # 0
  /\ ~(owner[m] = t /\ t # NoTask)
  /\ wait_list' = [wait_list EXCEPT ![m] = Append(@, t)]
  /\ task_dispatch(task_set_block(ready_list, t), state)
  /\ UNCHANGED <<owner, locked_count, sleep_list, task_list, sleep_ticks,
                 slice_ticks, sys_tick, starting, asked>>

\* Mutant: the mutex is freed although somebody waits.
Bad_mutex_unlock_free_waited(t, m) ==
  /\ t = curr_task /\ Holds(t, m)
  /\ locked_count' = [locked_count EXCEPT ![m] = @ - 1]
  /\ owner' = [owner EXCEPT ![m] = IF locked_count[m] = 1 THEN NoTask ELSE @]
  /\ UNCHANGED <<wait_list, taskVars>>

\* Mutant: the owner is not cleared.
Bad_mutex_unlock_free_owned(t, m) ==
  /\ t = curr_task /\ Holds(t, m)
  /\ locked_count[m] > 1 \/ wait_list[m] = <<>>
  /\ locked_count' = [locked_count EXCEPT ![m] = @ - 1]
  /\ UNCHANGED <<owner, wait_list, taskVars>>

\* mutex_unlock by the owner, called as often as it has called mutex_lock: an
\* inner unlock, or the last one with nobody waiting ...
mutex_unlock_free(t, m) ==
  /\ t = curr_task /\ Holds(t, m)
  /\ locked_count[m] > 1 \/ wait_list[m] = <<>>
  /\ locked_count' = [locked_count EXCEPT ![m] = @ - 1]
  /\ owner' = [owner EXCEPT ![m] = IF locked_count[m] = 1 THEN NoTask ELSE @]
  /\ UNCHANGED <<wait_list, taskVars>>

\* Mutant: the new owner is not made ready.
Bad_mutex_unlock_handover(t, m) ==
  /\ t = curr_task /\ Holds(t, m)
  /\ locked_count[m] = 1 /\ wait_list[m] # <<>>
  /\ wait_list' = [wait_list EXCEPT ![m] = Tail(@)]
  /\ owner' = [owner EXCEPT ![m] = Head(wait_list[m])]
  /\ UNCHANGED <<locked_count, taskVars>>

\* ... and the last one with a waiter: the mutex goes to the first, which
\* becomes ready.
mutex_unlock_handover(t, m) ==
  LET next == Head(wait_list[m]) IN
  /\ t = curr_task /\ Holds(t, m)
  /\ locked_count[m] = 1 /\ wait_list[m] # <<>>
  /\ wait_list' = [wait_list EXCEPT ![m] = Tail(@)]
  /\ locked_count' = [locked_count EXCEPT ![m] = 1]
  /\ owner' = [owner EXCEPT ![m] = next]
  /\ task_dispatch(task_set_ready(ready_list, next), MarkReady(state, {next}))
  /\ UNCHANGED <<sleep_list, task_list, sleep_ticks, slice_ticks, sys_tick,
                 starting, asked>>

mutex_lock(t, m) == mutex_lock_take(t, m) \/ mutex_lock_wait(t, m)

mutex_unlock(t, m) == mutex_unlock_free(t, m) \/ mutex_unlock_handover(t, m)

\* The unlock that ends a critical section.
LastUnlock(t, m) == locked_count[m] = 1 /\ mutex_unlock(t, m)

=============================================================================

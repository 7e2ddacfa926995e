--------------------------------- MODULE Sem ---------------------------------
(***************************************************************************)
(* The counting semaphore of source/kernel/ipc/sem.c over the task         *)
(* manager.  A notification with a waiter goes to the first waiter and     *)
(* leaves the count alone.                                                 *)
(***************************************************************************)
EXTENDS Task

CONSTANTS
  Sems,       \* semaphores
  MaxCount    \* bound of the count, for model checking

VARIABLES
  count,         \* sem_t.count
  sem_wait_list  \* sem_t.wait_list

semVars == <<count, sem_wait_list>>

\* sem_init(sem, init_count): the parameter is not used.
SemInit ==
  /\ count = [s \in Sems |-> 0]
  /\ sem_wait_list = [s \in Sems |-> <<>>]

\* Mutant: the count may become negative.
Bad_sem_wait_take(t, s) ==
  /\ t \in Tasks /\ t = curr_task
  /\ count[s] >= 0
  /\ count' = [count EXCEPT ![s] = @ - 1]
  /\ UNCHANGED <<sem_wait_list, taskVars>>

sem_wait_take(t, s) ==
  /\ t \in Tasks /\ t = curr_task
  /\ count[s] > 0
  /\ count' = [count EXCEPT ![s] = @ - 1]
  /\ UNCHANGED <<sem_wait_list, taskVars>>

sem_wait_block(t, s) ==
  /\ t \in Tasks /\ t = curr_task
  /\ ~(count[s] > 0)
  /\ sem_wait_list' = [sem_wait_list EXCEPT ![s] = Append(@, t)]
  /\ task_dispatch(task_set_block(ready_list, t), state)
  /\ UNCHANGED <<count, sleep_list, task_list, sleep_ticks, slice_ticks,
                 sys_tick, starting, asked>>

sem_wait(t, s) == sem_wait_take(t, s) \/ sem_wait_block(t, s)

\* Mutant: a notification that wakes a waiter is counted as well.
Bad_sem_notify_wake(t, s) ==
  LET next == Head(sem_wait_list[s]) IN
  /\ t \in Tasks /\ t = curr_task
  /\ sem_wait_list[s] # <<>>
  /\ count[s] < MaxCount
  /\ count' = [count EXCEPT ![s] = @ + 1]
  /\ sem_wait_list' = [sem_wait_list EXCEPT ![s] = Tail(@)]
  /\ task_dispatch(task_set_ready(ready_list, next), MarkReady(state, {next}))
  /\ UNCHANGED <<sleep_list, task_list, sleep_ticks, slice_ticks, sys_tick,
                 starting, asked>>

sem_notify_wake(t, s) ==
  LET next == Head(sem_wait_list[s]) IN
  /\ t \in Tasks /\ t = curr_task
  /\ sem_wait_list[s] # <<>>
  /\ sem_wait_list' = [sem_wait_list EXCEPT ![s] = Tail(@)]
  /\ task_dispatch(task_set_ready(ready_list, next), MarkReady(state, {next}))
  /\ UNCHANGED <<count, sleep_list, task_list, sleep_ticks, slice_ticks,
                 sys_tick, starting, asked>>

sem_notify_count(t, s) ==
  /\ t \in Tasks /\ t = curr_task
  /\ sem_wait_list[s] = <<>>
  /\ count[s] < MaxCount
  /\ count' = [count EXCEPT ![s] = @ + 1]
  /\ UNCHANGED <<sem_wait_list, taskVars>>

sem_notify(t, s) == sem_notify_wake(t, s) \/ sem_notify_count(t, s)

=============================================================================

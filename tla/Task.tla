-------------------------------- MODULE Task --------------------------------
(***************************************************************************)
(* The task manager of source/kernel/core/task.c and the timer interrupt   *)
(* of source/kernel/dev/time.c: a ready list whose head is the running     *)
(* task, a sleep list, and an idle task that runs when nothing is ready.   *)
(*                                                                         *)
(* Every function below runs between irq_enter_protection and              *)
(* irq_leave_protection (or in the timer's interrupt gate), so on the one  *)
(* CPU it is one atomic step.  Between two such steps the timer may fire:  *)
(* a call gate leaves interrupts enabled, so a task is preempted in the    *)
(* middle of a system call as well as in user mode.                        *)
(*                                                                         *)
(* The lists are sequences; List.tla shows that the doubly linked lists of *)
(* tools/list.c implement such sequences as long as a node is in one list  *)
(* at a time, which is what QueuesOK states for run_node.                  *)
(***************************************************************************)
EXTENDS Integers, SequencesExt

CONSTANTS
  Tasks,                    \* the task_t of first_task and of task_table
  FirstTask,                \* &task_manager.first_task
  IdleTask,                 \* &task_manager.idle_task
  NoTask,                   \* the null task_t pointer
  TASK_TIME_SLICE_DEFAULT,  \* ticks of one time slice
  OS_TICK_MS,               \* milliseconds of one tick
  UINT32,                   \* the number of values of uint32_t
  SleepMs                   \* the arguments tasks pass to msleep

ASSUME TaskAssumption ==
  /\ FirstTask \in Tasks
  /\ IdleTask \notin Tasks
  /\ NoTask \notin Tasks \union {IdleTask}
  /\ TASK_TIME_SLICE_DEFAULT \in Nat \ {0}
  /\ OS_TICK_MS \in Nat \ {0}
  /\ UINT32 \in Nat
  /\ OS_TICK_MS <= UINT32 \div 2
  /\ SleepMs \subseteq 1 .. (UINT32 \div 2) - 1  \* msleep takes an int, drops ms <= 0

TaskStates == {"CREATED", "RUNNING", "SLEEP", "READY", "WAITING"}

AllTasks == Tasks \union {IdleTask}

VARIABLES
  curr_task,    \* task_manager.curr_task, NoTask until the first task is set up
  ready_list,   \* task_manager.ready_list, linked through run_node
  sleep_list,   \* task_manager.sleep_list, linked through run_node
  task_list,    \* task_manager.task_list, linked through all_node
  state,        \* task_t.state
  sleep_ticks,  \* task_t.sleep_ticks
  slice_ticks,  \* task_t.slice_ticks
  sys_tick,     \* the tick counter of time.c
  starting,     \* the child a task inside sys_fork has yet to start, or NoTask
  asked         \* history: [ms, tick] of the last msleep of a sleeping task

taskVars == <<curr_task, ready_list, sleep_list, task_list, state,
              sleep_ticks, slice_ticks, sys_tick, starting, asked>>

Awake == [ms |-> 0, tick |-> 0]

-----------------------------------------------------------------------------
(* Lists *)

NoDuplicates(l) == \A i, j \in DOMAIN l : l[i] = l[j] => i = j

\* list_remove of a node that is in the list.
list_remove(l, t) == RemoveAt(l, CHOOSE i \in DOMAIN l : l[i] = t)

\* w is the members of l that are in S, each once, in the order of l.
Selects(w, l, S) ==
  /\ ToSet(w) = S
  /\ \A i, j \in DOMAIN w :
        i < j => \E p, q \in DOMAIN l : p < q /\ l[p] = w[i] /\ l[q] = w[j]

Selections(l, S) ==
  {w \in UNION {[1 .. n -> S] : n \in 0 .. Len(l)} : Selects(w, l, S)}

-----------------------------------------------------------------------------
(* The functions of task.c on a ready list, and the dispatcher *)

\* Mutant: a task is queued by list_insert_first.
Bad_task_set_ready(l, t) == IF t = IdleTask THEN l ELSE <<t>> \o l

task_set_ready(l, t) == IF t = IdleTask THEN l ELSE Append(l, t)

\* Mutant: the blocked task stays linked.
Bad_task_set_block(l, t) == l

task_set_block(l, t) == IF t = IdleTask THEN l ELSE list_remove(l, t)

task_next_run(l) == IF Len(l) = 0 THEN IdleTask ELSE Head(l)

\* Mutant: task_set_ready leaves the state alone.
Bad_MarkReady(st, S) == st

\* task_set_ready also sets the state of the tasks it queues.
MarkReady(st, S) == [t \in AllTasks |-> IF t \in S \ {IdleTask} THEN "READY" ELSE st[t]]

\* Mutant: a task that is still ready is never switched away from.
Bad_task_dispatch(l, st) ==
  LET to == IF curr_task \in ToSet(l) THEN curr_task ELSE task_next_run(l) IN
  /\ ready_list' = l
  /\ curr_task' = to
  /\ state' = IF to # curr_task THEN [st EXCEPT ![to] = "RUNNING"] ELSE st

\* task_dispatch, entered with ready list l and task states st.
task_dispatch(l, st) ==
  LET to == task_next_run(l) IN
  /\ ready_list' = l
  /\ curr_task' = to
  /\ state' = IF to # curr_task THEN [st EXCEPT ![to] = "RUNNING"] ELSE st

-----------------------------------------------------------------------------
(* Boot and task creation *)

\* After task_manager_init: the idle task exists, nothing runs yet, and the
\* zeroed task table reads TASK_CREATED, the first value of the enumeration.
TaskInit ==
  /\ curr_task = NoTask
  /\ ready_list = <<>>
  /\ sleep_list = <<>>
  /\ task_list = <<IdleTask>>
  /\ state = [t \in AllTasks |-> "CREATED"]
  /\ sleep_ticks = [t \in AllTasks |-> 0]
  /\ slice_ticks = [t \in AllTasks |-> IF t = IdleTask THEN TASK_TIME_SLICE_DEFAULT ELSE 0]
  /\ sys_tick = 0
  /\ starting = [t \in Tasks |-> NoTask]
  /\ asked = [t \in Tasks |-> Awake]

\* task_first_init and the iret of move_to_first_task, which enables
\* interrupts; until then the machine runs with interrupts disabled.
task_first_init ==
  /\ curr_task = NoTask
  /\ curr_task' = FirstTask
  /\ task_list' = Append(task_list, FirstTask)
  /\ ready_list' = task_set_ready(ready_list, FirstTask)
  /\ state' = MarkReady(state, {FirstTask})
  /\ slice_ticks' = [slice_ticks EXCEPT ![FirstTask] = TASK_TIME_SLICE_DEFAULT]
  /\ UNCHANGED <<sleep_list, sleep_ticks, sys_tick, starting, asked>>

\* The running task t is in user mode and may make a system call.
MayCall(t) == t \in Tasks /\ curr_task = t /\ starting[t] = NoTask

\* Mutant: task_init forgets the time slice.
Bad_task_init(t, child) ==
  /\ MayCall(t)
  /\ child \in Tasks \ ToSet(task_list)
  /\ task_list' = Append(task_list, child)
  /\ state' = [state EXCEPT ![child] = "CREATED"]
  /\ starting' = [starting EXCEPT ![t] = child]
  /\ UNCHANGED <<curr_task, ready_list, sleep_list, sleep_ticks, slice_ticks,
                 sys_tick, asked>>

\* sys_fork, as far as the scheduler sees it: task_init puts the child on the
\* task list ...
task_init(t, child) ==
  /\ MayCall(t)
  /\ child \in Tasks \ ToSet(task_list)
  /\ task_list' = Append(task_list, child)
  /\ state' = [state EXCEPT ![child] = "CREATED"]
  /\ slice_ticks' = [slice_ticks EXCEPT ![child] = TASK_TIME_SLICE_DEFAULT]
  /\ sleep_ticks' = [sleep_ticks EXCEPT ![child] = 0]
  /\ starting' = [starting EXCEPT ![t] = child]
  /\ UNCHANGED <<curr_task, ready_list, sleep_list, sys_tick, asked>>

\* ... and task_start makes it ready; the parent may be preempted in between.
task_start(t) ==
  LET child == starting[t] IN
  /\ t \in Tasks /\ curr_task = t /\ child # NoTask
  /\ ready_list' = task_set_ready(ready_list, child)
  /\ state' = MarkReady(state, {child})
  /\ starting' = [starting EXCEPT ![t] = NoTask]
  /\ UNCHANGED <<curr_task, sleep_list, task_list, sleep_ticks, slice_ticks,
                 sys_tick, asked>>

-----------------------------------------------------------------------------
(* System calls and the timer interrupt *)

sys_yield(t) ==
  /\ MayCall(t)
  /\ Len(ready_list) > 1
  /\ task_dispatch(task_set_ready(task_set_block(ready_list, t), t), MarkReady(state, {t}))
  /\ UNCHANGED <<sleep_list, task_list, sleep_ticks, slice_ticks, sys_tick,
                 starting, asked>>

\* Mutant: the ticks are rounded down.
Bad_SleepTicks(ms) ==
  ((IF ms < OS_TICK_MS THEN OS_TICK_MS ELSE ms) % UINT32) \div OS_TICK_MS

\* The ticks sys_msleep asks for, in uint32_t arithmetic.
SleepTicks(ms) ==
  LET rounded == (IF ms < OS_TICK_MS THEN OS_TICK_MS ELSE ms) + (OS_TICK_MS - 1)
  IN  (rounded % UINT32) \div OS_TICK_MS

\* sys_msleep with the task_set_sleep it calls, which returns early for 0 ticks.
sys_msleep(t, ms) ==
  LET ticks  == SleepTicks(ms)
      sleeps == ticks > 0
  IN
  /\ MayCall(t)
  /\ sleep_ticks' = IF sleeps THEN [sleep_ticks EXCEPT ![t] = ticks] ELSE sleep_ticks
  /\ sleep_list' = IF sleeps THEN Append(sleep_list, t) ELSE sleep_list
  /\ task_dispatch(task_set_block(ready_list, t),
                   IF sleeps THEN [state EXCEPT ![t] = "SLEEP"] ELSE state)
  /\ asked' = [asked EXCEPT ![t] = [ms |-> ms, tick |-> sys_tick]]
  /\ UNCHANGED <<task_list, slice_ticks, sys_tick, starting>>

\* The sleepers whose count reaches 0 at the next tick.
Expiring == {t \in ToSet(sleep_list) : sleep_ticks[t] = 1}

\* Mutant: a sleeper that is due leaves the sleep list without task_set_ready.
Bad_do_handler_timer ==
  LET spent == slice_ticks[curr_task] = 1
      rest  == IF spent
               THEN task_set_ready(task_set_block(ready_list, curr_task), curr_task)
               ELSE ready_list
  IN
  /\ curr_task # NoTask
  /\ sys_tick' = (sys_tick + 1) % UINT32
  /\ slice_ticks' = [slice_ticks EXCEPT ![curr_task] =
                       IF spent THEN TASK_TIME_SLICE_DEFAULT ELSE @ - 1]
  /\ sleep_ticks' = [t \in AllTasks |->
                       IF t \in ToSet(sleep_list) THEN sleep_ticks[t] - 1 ELSE sleep_ticks[t]]
  /\ sleep_list' \in Selections(sleep_list, ToSet(sleep_list) \ Expiring)
  /\ task_dispatch(rest, state)
  /\ asked' = [t \in Tasks |-> IF t \in Expiring THEN Awake ELSE asked[t]]
  /\ UNCHANGED <<task_list, starting>>

\* do_handler_timer with task_time_tick: charge the running task, wake the
\* sleepers that are due in list order, dispatch.
do_handler_timer ==
  LET spent == slice_ticks[curr_task] = 1
      rest  == IF spent
               THEN task_set_ready(task_set_block(ready_list, curr_task), curr_task)
               ELSE ready_list
  IN
  /\ curr_task # NoTask
  /\ sys_tick' = (sys_tick + 1) % UINT32
  /\ slice_ticks' = [slice_ticks EXCEPT ![curr_task] =
                       IF spent THEN TASK_TIME_SLICE_DEFAULT ELSE @ - 1]
  /\ sleep_ticks' = [t \in AllTasks |->
                       IF t \in ToSet(sleep_list) THEN sleep_ticks[t] - 1 ELSE sleep_ticks[t]]
  /\ sleep_list' \in Selections(sleep_list, ToSet(sleep_list) \ Expiring)
  /\ \E woken \in Selections(sleep_list, Expiring) :
        task_dispatch(rest \o woken,
                      MarkReady(state, Expiring \union IF spent THEN {curr_task} ELSE {}))
  /\ asked' = [t \in Tasks |-> IF t \in Expiring THEN Awake ELSE asked[t]]
  /\ UNCHANGED <<task_list, starting>>

TaskCall(t) ==
  \/ \E child \in Tasks : task_init(t, child)
  \/ task_start(t)
  \/ sys_yield(t)
  \/ \E ms \in SleepMs : sys_msleep(t, ms)

TaskNext ==
  \/ task_first_init
  \/ \E t \in Tasks : TaskCall(t)
  \/ do_handler_timer

\* The timer chip interrupts for ever, and the boot code is straight-line.
TaskFairness == WF_taskVars(do_handler_timer) /\ WF_taskVars(task_first_init)

TaskSpec == TaskInit /\ [][TaskNext]_taskVars /\ TaskFairness

-----------------------------------------------------------------------------
(* Properties *)

\* Type invariant of the task manager and of the task_t fields.
TaskTypeOK ==
  /\ curr_task \in AllTasks \union {NoTask}
  /\ ready_list \in Seq(Tasks)
  /\ sleep_list \in Seq(Tasks)
  /\ task_list \in Seq(AllTasks)
  /\ state \in [AllTasks -> TaskStates]
  /\ sleep_ticks \in [AllTasks -> Int]
  /\ slice_ticks \in [AllTasks -> 0 .. TASK_TIME_SLICE_DEFAULT]
  /\ sys_tick \in 0 .. UINT32 - 1
  /\ starting \in [Tasks -> Tasks \union {NoTask}]
  /\ asked \in [Tasks -> [ms : {0} \union SleepMs, tick : 0 .. UINT32 - 1]]

\* The tasks task_start has been called for.
Started ==
  {t \in Tasks : t \in ToSet(task_list) /\ \A p \in Tasks : starting[p] # t}

\* No task is lost or linked twice: every started task is, exactly once, on the
\* ready list, on the sleep list or in the set waiting of the tasks blocked
\* elsewhere.  This is what list_insert_last and list_remove on run_node rely
\* on without checking it (list.c: "does not check whether node is in the list").
QueuesOK(waiting) ==
  /\ NoDuplicates(ready_list)
  /\ NoDuplicates(sleep_list)
  /\ ToSet(ready_list) \intersect ToSet(sleep_list) = {}
  /\ waiting \intersect (ToSet(ready_list) \union ToSet(sleep_list)) = {}
  /\ ToSet(ready_list) \union ToSet(sleep_list) \union waiting = Started

\* QueuesOK for the task manager alone, where nothing else blocks a task.
NoTaskLost == QueuesOK({})

\* Whenever interrupts are enabled, the running task is the first of the ready
\* list, or idle when the list is empty: the reason why task_set_block(curr)
\* may remove it from that list, and why no ready task is left behind when the
\* processor idles (task_next_run, task_dispatch).
RunnerIsHead == curr_task # NoTask => curr_task = task_next_run(ready_list)

\* task_t.state agrees with the lists: only sleepers are TASK_SLEEP, the tasks
\* behind the running one are TASK_READY, unstarted ones TASK_CREATED.
StateMatchesLists ==
  \A t \in Tasks :
    /\ state[t] = "SLEEP" <=> t \in ToSet(sleep_list)
    /\ state[t] = "CREATED" <=> t \notin Started
    /\ t \in ToSet(ready_list) /\ t # curr_task => state[t] = "READY"

\* t is queued ahead of u.
Ahead(l, t, u) == \E i, j \in DOMAIN l : i < j /\ l[i] = t /\ l[j] = u

\* Round robin: apart from the running task, which goes to the tail when its
\* slice is spent or it yields, no ready task is ever overtaken, neither by a
\* task queued behind it nor by one that becomes ready, wakes or is handed a lock.
NoOvertaking ==
  [][\A t \in ToSet(ready_list) \intersect ToSet(ready_list'), u \in ToSet(ready_list') :
       t \notin {u, curr_task} /\ ~Ahead(ready_list, u, t) => Ahead(ready_list', t, u)]_taskVars

\* The ticks a sleeper has slept, across a wrap of the tick counter.
Slept(t, now) == (now - asked[t].tick) % UINT32

\* msleep(ms) sleeps the least number of ticks that lasts ms milliseconds, at
\* least one: a sleeper leaves the sleep list at that tick, not before, not after.
WakesOnTime ==
  [][\A t \in ToSet(sleep_list) :
       LET n == Slept(t, sys_tick') IN
       IF t \in ToSet(sleep_list')
       THEN n * OS_TICK_MS < asked[t].ms
       ELSE n * OS_TICK_MS >= asked[t].ms /\ (n - 1) * OS_TICK_MS < asked[t].ms
    ]_sys_tick

\* Every ready task gets the processor, whatever the others do: the timer takes
\* it from a running task that never yields.
ReadyRuns == \A t \in Tasks : t \in ToSet(ready_list) ~> curr_task = t

\* Every sleeper becomes ready again.
SleeperWakes == \A t \in Tasks : t \in ToSet(sleep_list) ~> t \in ToSet(ready_list)

=============================================================================

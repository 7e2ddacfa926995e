--------------------------------- MODULE Ipc ---------------------------------
(***************************************************************************)
(* The kernel's blocking primitives together: tasks that make system       *)
(* calls, lock mutexes inside them, wait for and notify semaphores, and    *)
(* are preempted by the timer anywhere outside a protected section.        *)
(***************************************************************************)
EXTENDS Mutex, Sem

CONSTANT InitCount   \* the init_count each semaphore is initialised with

ASSUME IpcAssumption == InitCount \in [Sems -> Nat]

ipcVars == <<taskVars, mutexVars, semVars>>

IpcInit == TaskInit /\ MutexInit /\ SemInit

\* The running code is inside a critical section; it makes no system call there.
InSection(t) == \E m \in Mutexes : Holds(t, m)

\* The boot code has returned from its own critical sections (kernel_init and
\* init_main log, and allocate pages and descriptors) when the first task starts.
Boot ==
  /\ task_first_init
  /\ ~InSection(NoTask)
  /\ UNCHANGED <<mutexVars, semVars>>

SystemCall(t) ==
  /\ ~InSection(t)
  /\ \/ TaskCall(t) /\ UNCHANGED <<mutexVars, semVars>>
     \/ \E s \in Sems : (sem_wait(t, s) \/ sem_notify(t, s)) /\ UNCHANGED mutexVars

LockStep(t) ==
  \E m \in Mutexes : (mutex_lock(t, m) \/ mutex_unlock(t, m)) /\ UNCHANGED semVars

Timer == do_handler_timer /\ UNCHANGED <<mutexVars, semVars>>

IpcNext ==
  \/ Boot
  \/ \E t \in Tasks : SystemCall(t)
  \/ \E t \in Tasks \union {NoTask} : LockStep(t)
  \/ Timer

\* The timer never stops; and a task that is given the processor again and again
\* gets to its next unlock and to the end of its critical section, which are
\* bounded pieces of code.  A waiting task is not assumed to run.
IpcFairness ==
  /\ WF_ipcVars(Boot)
  /\ WF_ipcVars(Timer)
  /\ \A t \in Tasks \union {NoTask}, m \in Mutexes :
       /\ SF_ipcVars(mutex_unlock(t, m) /\ UNCHANGED semVars)
       /\ SF_ipcVars(LastUnlock(t, m) /\ UNCHANGED semVars)

IpcSpec == IpcInit /\ [][IpcNext]_ipcVars /\ IpcFairness

-----------------------------------------------------------------------------
(* Properties *)

\* Type invariant of the composed kernel.
IpcTypeOK ==
  /\ TaskTypeOK
  /\ owner \in [Mutexes -> Tasks \union {NoTask}]
  /\ locked_count \in [Mutexes -> Nat]
  /\ wait_list \in [Mutexes -> Seq(Tasks)]
  /\ count \in [Sems -> Nat]
  /\ sem_wait_list \in [Sems -> Seq(Tasks)]

\* The tasks blocked on a mutex or a semaphore.
Waiting ==
  {t \in Tasks : \/ \E m \in Mutexes : t \in ToSet(wait_list[m])
                 \/ \E s \in Sems : t \in ToSet(sem_wait_list[s])}

\* A task waits at most once, for one mutex or semaphore: wait_node is a single
\* link, which list_insert_last overwrites without looking.
WaitsOnce ==
  /\ \A m \in Mutexes : NoDuplicates(wait_list[m])
  /\ \A s \in Sems : NoDuplicates(sem_wait_list[s])
  /\ \A m, n \in Mutexes : m # n => ToSet(wait_list[m]) \intersect ToSet(wait_list[n]) = {}
  /\ \A s, r \in Sems : s # r => ToSet(sem_wait_list[s]) \intersect ToSet(sem_wait_list[r]) = {}
  /\ \A m \in Mutexes, s \in Sems : ToSet(wait_list[m]) \intersect ToSet(sem_wait_list[s]) = {}

\* No task is lost: every started task is ready, asleep or waiting, in exactly
\* one list, however calls, hand-overs and ticks interleave.
NoTaskLostInIpc == QueuesOK(Waiting) /\ WaitsOnce

\* No lost wake-up: somebody waits for a mutex only while it is locked, and the
\* task that holds a mutex is ready to run and unlock it, never blocked itself;
\* and somebody waits for a semaphore only while its count is 0.
NoLostWakeup ==
  /\ \A m \in Mutexes :
       /\ wait_list[m] # <<>> => locked_count[m] > 0
       /\ owner[m] # NoTask => owner[m] \in ToSet(ready_list)
  /\ \A s \in Sems : sem_wait_list[s] # <<>> => count[s] = 0

\* A mutex has an owner exactly while it is locked, once a task runs; boot code,
\* which runs as the null task, leaves none locked behind.
OwnerIffLocked ==
  \A m \in Mutexes : curr_task # NoTask => (locked_count[m] > 0 <=> owner[m] # NoTask)

\* A task keeps a mutex until it unlocks it itself: only the running owner's last
\* unlock changes the owner, and then to the task that has waited longest.
OnlyOwnerReleases ==
  [][\A m \in Mutexes :
       locked_count[m] > 0 /\ (owner'[m] # owner[m] \/ locked_count'[m] < locked_count[m]) =>
         /\ curr_task = owner[m]
         /\ wait_list[m] # <<>> => locked_count'[m] > 0
         /\ owner'[m] # owner[m] /\ wait_list[m] # <<>> => owner'[m] = wait_list[m][1]
    ]_ipcVars

Lock(m) == INSTANCE AbstractLock
  WITH Agents <- Tasks \union {NoTask}, Nobody <- NoTask,
       holder <- owner[m], depth <- locked_count[m], queue <- wait_list[m]

\* Every mutex over the scheduler implements the abstract lock: recursion, first
\* come first served, and hand-over in the step of the last unlock.
ImplementsLock ==
  /\ \A m \in Mutexes : Lock(m)!Init
  /\ [][\A m \in Mutexes : Lock(m)!Next \/ UNCHANGED Lock(m)!lockVars]_ipcVars

Semaphore(s) == INSTANCE AbstractSem
  WITH Agents <- Tasks, Permits <- InitCount[s],
       permits <- count[s], queue <- sem_wait_list[s]

\* Every semaphore implements the abstract semaphore with the number of permits
\* it was initialised with (sem.h: "void sem_init (sem_t * sem, int init_count)").
ImplementsSem ==
  /\ \A s \in Sems : Semaphore(s)!Init
  /\ [][\A s \in Sems : Semaphore(s)!Next \/ UNCHANGED Semaphore(s)!semVars]_ipcVars

\* Who waits for a mutex gets it.
LockGranted ==
  \A t \in Tasks, m \in Mutexes : t \in ToSet(wait_list[m]) ~> owner[m] = t

\* Who is given a mutex while blocked gets the processor to use it.
HolderRuns ==
  \A t \in Tasks, m \in Mutexes : Holds(t, m) ~> curr_task = t

=============================================================================

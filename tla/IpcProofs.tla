------------------------------ MODULE IpcProofs ------------------------------
(***************************************************************************)
(* Proofs about the task manager, alone and with its mutexes and           *)
(* semaphores: lemmas on the queues they are built from, the inductive     *)
(* invariant TaskInv(W), where W is the set of tasks blocked outside the   *)
(* task manager (none in TaskSpec, those that wait for mutexes and         *)
(* semaphores in IpcSpec), and the inductive invariant IpcInv, which joins *)
(* it with what the mutexes and semaphores keep.                           *)
(***************************************************************************)
EXTENDS Ipc, SequenceTheorems, TLAPS

-----------------------------------------------------------------------------
(* Queues *)

\* list_insert_last of a node that is in no list.
LEMMA AppendLemma ==
  ASSUME NEW S, NEW l \in Seq(S), NEW t \in S
  PROVE  /\ Append(l, t) \in Seq(S)
         /\ Append(l, t) # <<>>
         /\ ToSet(Append(l, t)) = ToSet(l) \union {t}
         /\ NoDuplicates(l) /\ t \notin ToSet(l) => NoDuplicates(Append(l, t))
         /\ l # <<>> => Head(Append(l, t)) = Head(l)
<1>1. /\ Append(l, t) \in Seq(S) /\ Len(Append(l, t)) = Len(l) + 1
      /\ \A i \in 1 .. Len(l) : Append(l, t)[i] = l[i]
      /\ Append(l, t)[Len(l) + 1] = t
  OBVIOUS
<1>2. Len(l) \in Nat /\ DOMAIN l = 1 .. Len(l) /\ DOMAIN Append(l, t) = 1 .. Len(l) + 1
  BY <1>1
<1>3. ToSet(Append(l, t)) = ToSet(l) \union {t}
  BY <1>1, <1>2 DEF ToSet
<1>4. NoDuplicates(l) /\ t \notin ToSet(l) => NoDuplicates(Append(l, t))
  BY <1>1, <1>2 DEF ToSet, NoDuplicates
<1>5. Append(l, t) # <<>> /\ (l # <<>> => Head(Append(l, t)) = Head(l))
  BY <1>1, <1>2
<1> QED
  BY <1>1, <1>3, <1>4, <1>5

\* What list_remove leaves: the nodes before t, then those behind it.
LEMMA RemoveAtLemma ==
  ASSUME NEW S, NEW l \in Seq(S), NEW t \in ToSet(l)
  PROVE  \E i \in 1 .. Len(l) :
           /\ l[i] = t
           /\ list_remove(l, t) \in Seq(S) /\ Len(list_remove(l, t)) = Len(l) - 1
           /\ \A k \in 1 .. Len(l) - 1 :
                list_remove(l, t)[k] = IF k < i THEN l[k] ELSE l[k + 1]
<1> DEFINE i == CHOOSE k \in DOMAIN l : l[k] = t
           r == list_remove(l, t)
<1>1. Len(l) \in Nat /\ DOMAIN l = 1 .. Len(l)
  OBVIOUS
<1>2. i \in 1 .. Len(l) /\ l[i] = t
  BY <1>1 DEF ToSet
<1> HIDE DEF i
<1>3. r = SubSeq(l, 1, i - 1) \o SubSeq(l, i + 1, Len(l))
  BY DEF list_remove, RemoveAt, i
<1> HIDE DEF r
<1>4. /\ SubSeq(l, 1, i - 1) \in Seq(S) /\ Len(SubSeq(l, 1, i - 1)) = i - 1
      /\ SubSeq(l, i + 1, Len(l)) \in Seq(S) /\ Len(SubSeq(l, i + 1, Len(l))) = Len(l) - i
      /\ \A k \in 1 .. i - 1 : SubSeq(l, 1, i - 1)[k] = l[k]
      /\ \A k \in 1 .. Len(l) - i : SubSeq(l, i + 1, Len(l))[k] = l[k + i]
  <2>1. \A k \in 1 .. Len(l) : l[k] \in S
    BY <1>1
  <2>2. /\ SubSeq(l, 1, i - 1) \in Seq(S) /\ Len(SubSeq(l, 1, i - 1)) = i - 1
        /\ \A k \in 1 .. i - 1 : SubSeq(l, 1, i - 1)[k] = l[k]
    <3>1. \A k \in 1 .. i - 1 : l[k] \in S
      BY <1>1, <1>2, <2>1
    <3> QED
      BY <1>1, <1>2, <3>1, SubSeqProperties
  <2>3. /\ SubSeq(l, i + 1, Len(l)) \in Seq(S) /\ Len(SubSeq(l, i + 1, Len(l))) = Len(l) - i
        /\ \A k \in 1 .. Len(l) - i : SubSeq(l, i + 1, Len(l))[k] = l[k + i]
    <3>1. \A k \in i + 1 .. Len(l) : l[k] \in S
      BY <1>1, <1>2, <2>1
    <3>2. i + 1 \in Int /\ Len(l) \in Int
      BY <1>1, <1>2
    <3>3. /\ SubSeq(l, i + 1, Len(l)) \in Seq(S)
          /\ Len(SubSeq(l, i + 1, Len(l))) =
               IF i + 1 <= Len(l) THEN Len(l) - (i + 1) + 1 ELSE 0
          /\ \A k \in 1 .. Len(l) - (i + 1) + 1 :
               SubSeq(l, i + 1, Len(l))[k] = l[(i + 1) + k - 1]
      BY <3>1, <3>2, SubSeqProperties
    <3>4. Len(l) - (i + 1) + 1 = Len(l) - i /\ (i + 1 <= Len(l) \/ Len(l) - i = 0)
      <4>1. \A n \in Nat : \A k \in 1 .. n : n - (k + 1) + 1 = n - k /\ (k + 1 <= n \/ n - k = 0)
        OBVIOUS
      <4> QED
        BY <1>1, <1>2, <4>1
    <3>5. \A k \in 1 .. Len(l) - i : (i + 1) + k - 1 = k + i
      BY <1>1, <1>2
    <3> QED
      BY <3>3, <3>4, <3>5
  <2> QED
    BY <2>2, <2>3
<1> DEFINE a == SubSeq(l, 1, i - 1)
           b == SubSeq(l, i + 1, Len(l))
<1>10. /\ r = a \o b
       /\ a \in Seq(S) /\ Len(a) = i - 1 /\ \A k \in 1 .. i - 1 : a[k] = l[k]
       /\ b \in Seq(S) /\ Len(b) = Len(l) - i /\ \A k \in 1 .. Len(l) - i : b[k] = l[k + i]
  BY <1>3, <1>4
<1> HIDE DEF a, b
<1>11. /\ r \in Seq(S) /\ Len(r) = Len(a) + Len(b)
       /\ \A k \in 1 .. Len(a) + Len(b) :
            r[k] = IF k <= Len(a) THEN a[k] ELSE b[k - Len(a)]
  BY <1>10, ConcatProperties
<1>5. r \in Seq(S) /\ Len(r) = Len(l) - 1
  BY <1>1, <1>2, <1>10, <1>11
<1>6. \A k \in 1 .. Len(l) - 1 : r[k] = IF k < i THEN l[k] ELSE l[k + 1]
  <2> TAKE k \in 1 .. Len(l) - 1
  <2>1. CASE k < i
    BY <1>1, <1>2, <1>10, <1>11, <2>1
  <2>2. CASE k >= i
    <3>1. k - Len(a) \in 1 .. Len(l) - i /\ (k - Len(a)) + i = k + 1
      BY <1>1, <1>2, <1>10, <2>2
    <3>2. r[k] = b[k - Len(a)]
      BY <1>1, <1>2, <1>10, <1>11, <2>2
    <3>3. b[k - Len(a)] = l[k + 1]
      BY <1>10, <3>1
    <3> QED
      BY <1>2, <2>2, <3>2, <3>3
  <2> QED
    BY <1>1, <1>2, <2>1, <2>2
<1> QED
  BY <1>2, <1>5, <1>6 DEF r

\* list_remove of a node that is in the list.
LEMMA RemoveLemma ==
  ASSUME NEW S, NEW l \in Seq(S), NEW t \in ToSet(l), NoDuplicates(l)
  PROVE  /\ list_remove(l, t) \in Seq(S)
         /\ ToSet(list_remove(l, t)) = ToSet(l) \ {t}
         /\ NoDuplicates(list_remove(l, t))
<1> DEFINE r == list_remove(l, t)
<1>1. Len(l) \in Nat /\ DOMAIN l = 1 .. Len(l)
  OBVIOUS
<1>2. PICK i \in 1 .. Len(l) :
        /\ l[i] = t
        /\ r \in Seq(S) /\ Len(r) = Len(l) - 1
        /\ \A k \in 1 .. Len(l) - 1 : r[k] = IF k < i THEN l[k] ELSE l[k + 1]
  BY RemoveAtLemma
<1> HIDE DEF r
<1>3. DOMAIN r = 1 .. Len(l) - 1
  BY <1>2
<1>4. NoDuplicates(r)
  <2>1. ASSUME NEW j \in 1 .. Len(l) - 1, NEW k \in 1 .. Len(l) - 1, r[j] = r[k]
        PROVE  j = k
    <3> DEFINE place(n) == IF n < i THEN n ELSE n + 1
    <3>1. r[j] = l[place(j)] /\ r[k] = l[place(k)]
      BY <1>2
    <3>2. place(j) \in 1 .. Len(l) /\ place(k) \in 1 .. Len(l)
      BY <1>1, <1>2
    <3>3. place(j) = place(k)
      BY <1>1, <2>1, <3>1, <3>2 DEF NoDuplicates
    <3> QED
      BY <1>1, <1>2, <3>3
  <2> QED
    BY <1>3, <2>1 DEF NoDuplicates
<1>5. ToSet(r) = ToSet(l) \ {t}
  <2>1. ASSUME NEW k \in DOMAIN r
        PROVE  r[k] \in ToSet(l) \ {t}
    <3> DEFINE n == IF k < i THEN k ELSE k + 1
    <3>1. n \in 1 .. Len(l) /\ n # i /\ r[k] = l[n]
      BY <1>1, <1>2, <1>3
    <3> HIDE DEF n
    <3>2. l[n] # t
      BY <1>1, <1>2, <3>1 DEF NoDuplicates
    <3> QED
      BY <1>1, <3>1, <3>2 DEF ToSet
  <2>2. ASSUME NEW k \in DOMAIN l, l[k] # t
        PROVE  l[k] \in ToSet(r)
    <3>1. CASE k < i
      <4>1. k \in DOMAIN r /\ r[k] = l[k]
        BY <1>1, <1>2, <1>3, <3>1
      <4> QED
        BY <4>1 DEF ToSet
    <3>2. CASE k > i
      <4>1. k - 1 \in DOMAIN r /\ r[k - 1] = l[k]
        BY <1>1, <1>2, <1>3, <3>2
      <4> QED
        BY <4>1 DEF ToSet
    <3> QED
      BY <1>1, <1>2, <2>2, <3>1, <3>2
  <2> QED
    BY <2>1, <2>2 DEF ToSet
<1> QED
  BY <1>2, <1>4, <1>5 DEF r

\* list_remove_first of a list that is not empty.
LEMMA TailLemma ==
  ASSUME NEW S, NEW l \in Seq(S), l # <<>>, NoDuplicates(l)
  PROVE  /\ Head(l) \in S /\ Head(l) \in ToSet(l)
         /\ Tail(l) \in Seq(S)
         /\ ToSet(Tail(l)) = ToSet(l) \ {Head(l)}
         /\ NoDuplicates(Tail(l))
<1>1. /\ Len(l) \in Nat \ {0} /\ DOMAIN l = 1 .. Len(l) /\ Head(l) = l[1]
      /\ Tail(l) \in Seq(S) /\ DOMAIN Tail(l) = 1 .. Len(l) - 1
      /\ \A k \in 1 .. Len(l) - 1 : Tail(l)[k] = l[k + 1]
  OBVIOUS
<1>2. NoDuplicates(Tail(l))
  BY <1>1 DEF NoDuplicates
<1>3. \A k \in DOMAIN l : l[k] # Head(l) => l[k] \in ToSet(Tail(l))
  <2> TAKE k \in DOMAIN l
  <2>1. HAVE l[k] # Head(l)
  <2>2. k - 1 \in DOMAIN Tail(l) /\ Tail(l)[k - 1] = l[k]
    BY <1>1, <2>1
  <2> QED
    BY <2>2 DEF ToSet
<1>4. \A k \in DOMAIN Tail(l) : Tail(l)[k] \in ToSet(l) \ {Head(l)}
  BY <1>1 DEF ToSet, NoDuplicates
<1>5. ToSet(Tail(l)) = ToSet(l) \ {Head(l)}
  BY <1>3, <1>4 DEF ToSet
<1>6. Head(l) \in S /\ Head(l) \in ToSet(l)
  BY <1>1 DEF ToSet
<1> QED
  BY <1>1, <1>2, <1>5, <1>6

\* Appending the members of one list to another.
LEMMA ConcatLemma ==
  ASSUME NEW S, NEW l \in Seq(S), NEW m \in Seq(S)
  PROVE  /\ l \o m \in Seq(S)
         /\ ToSet(l \o m) = ToSet(l) \union ToSet(m)
         /\ NoDuplicates(l) /\ NoDuplicates(m) /\ ToSet(l) \intersect ToSet(m) = {}
              => NoDuplicates(l \o m)
         /\ l # <<>> => l \o m # <<>> /\ Head(l \o m) = Head(l)
<1> DEFINE c == l \o m
<1>1. /\ Len(l) \in Nat /\ DOMAIN l = 1 .. Len(l)
      /\ Len(m) \in Nat /\ DOMAIN m = 1 .. Len(m)
  OBVIOUS
<1>2. /\ c \in Seq(S) /\ Len(c) = Len(l) + Len(m)
      /\ \A k \in 1 .. Len(l) + Len(m) : c[k] = IF k <= Len(l) THEN l[k] ELSE m[k - Len(l)]
  BY ConcatProperties
<1> HIDE DEF c
<1>3. DOMAIN c = 1 .. Len(l) + Len(m)
  BY <1>2
<1>4. ToSet(c) \subseteq ToSet(l) \union ToSet(m)
  <2> SUFFICES ASSUME NEW k \in DOMAIN c
               PROVE  c[k] \in ToSet(l) \union ToSet(m)
    BY DEF ToSet
  <2>1. CASE k <= Len(l)
    BY <1>1, <1>2, <1>3, <2>1 DEF ToSet
  <2>2. CASE k > Len(l)
    <3>1. k - Len(l) \in DOMAIN m /\ c[k] = m[k - Len(l)]
      BY <1>1, <1>2, <1>3, <2>2
    <3> QED
      BY <3>1 DEF ToSet
  <2> QED
    BY <1>1, <1>3, <2>1, <2>2
<1>5. ToSet(l) \subseteq ToSet(c)
  BY <1>1, <1>2, <1>3 DEF ToSet
<1>6. ToSet(m) \subseteq ToSet(c)
  <2> SUFFICES ASSUME NEW k \in DOMAIN m
               PROVE  m[k] \in ToSet(c)
    BY DEF ToSet
  <2>1. Len(l) + k \in DOMAIN c /\ c[Len(l) + k] = m[k]
    BY <1>1, <1>2, <1>3
  <2> QED
    BY <2>1 DEF ToSet
<1>7. ASSUME NoDuplicates(l), NoDuplicates(m), ToSet(l) \intersect ToSet(m) = {}
      PROVE  NoDuplicates(c)
  <2> SUFFICES ASSUME NEW i \in DOMAIN c, NEW j \in DOMAIN c, c[i] = c[j]
               PROVE  i = j
    BY DEF NoDuplicates
  <2>1. CASE i <= Len(l) /\ j <= Len(l)
    BY <1>1, <1>2, <1>3, <1>7, <2>1 DEF NoDuplicates
  <2>2. CASE i > Len(l) /\ j > Len(l)
    <3>1. i - Len(l) \in DOMAIN m /\ j - Len(l) \in DOMAIN m
      BY <1>1, <1>3, <2>2
    <3>2. m[i - Len(l)] = m[j - Len(l)]
      BY <1>1, <1>2, <1>3, <2>2
    <3>3. i - Len(l) = j - Len(l)
      BY <1>7, <3>1, <3>2 DEF NoDuplicates
    <3> QED
      BY <1>1, <1>3, <3>3
  <2>3. ASSUME NEW x \in DOMAIN c, NEW y \in DOMAIN c, x <= Len(l), y > Len(l)
        PROVE  c[x] # c[y]
    <3>1. x \in DOMAIN l /\ c[x] = l[x] /\ y - Len(l) \in DOMAIN m /\ c[y] = m[y - Len(l)]
      BY <1>1, <1>2, <1>3, <2>3
    <3> QED
      BY <1>7, <3>1 DEF ToSet
  <2>4. CASE i <= Len(l) /\ j > Len(l)
    BY <2>3, <2>4
  <2>5. CASE i > Len(l) /\ j <= Len(l)
    BY <2>3, <2>5
  <2> QED
    BY <1>1, <1>3, <2>1, <2>2, <2>4, <2>5
<1>8. l # <<>> => c # <<>> /\ Head(c) = Head(l)
  BY <1>1, <1>2
<1> QED
  BY <1>2, <1>4, <1>5, <1>6, <1>7, <1>8 DEF c

\* The walk over the sleep list: what is selected keeps its order, each once.
LEMMA SelectionLemma ==
  ASSUME NEW T, NEW l \in Seq(T), NEW S \in SUBSET T, NEW w \in Selections(l, S),
         NoDuplicates(l)
  PROVE  /\ w \in Seq(S) /\ w \in Seq(T)
         /\ ToSet(w) = S
         /\ NoDuplicates(w)
<1>1. PICK n \in 0 .. Len(l) : w \in [1 .. n -> S]
  BY DEF Selections
<1>2. w \in Seq(S) /\ w \in Seq(T) /\ DOMAIN w = 1 .. n /\ n \in Nat
  BY <1>1
<1>3. Selects(w, l, S)
  BY DEF Selections
<1>4. \A i, j \in DOMAIN w : i < j => w[i] # w[j]
  <2> SUFFICES ASSUME NEW i \in DOMAIN w, NEW j \in DOMAIN w, i < j
               PROVE  w[i] # w[j]
    OBVIOUS
  <2>1. PICK p \in DOMAIN l, q \in DOMAIN l : p < q /\ l[p] = w[i] /\ l[q] = w[j]
    BY <1>3 DEF Selects
  <2>2. p \in Nat /\ q \in Nat
    OBVIOUS
  <2> QED
    BY <2>1, <2>2 DEF NoDuplicates
<1>5. NoDuplicates(w)
  BY <1>2, <1>4 DEF NoDuplicates
<1> QED
  BY <1>2, <1>3, <1>5 DEF Selects

-----------------------------------------------------------------------------
(* The inductive invariant *)

\* QueuesOK is not inductive alone: a tick needs the charged task's slice not to
\* be used up already, task_start needs its child to be on the task list and
\* started by nobody else, and a call needs the caller to be the first ready task.
TaskInv(W) ==
  /\ TaskTypeOK
  /\ RunnerIsHead
  /\ QueuesOK(W)
  /\ \A t \in ToSet(task_list) \union {IdleTask} : slice_ticks[t] > 0
  /\ \A p \in Tasks : starting[p] # NoTask => starting[p] \in ToSet(task_list)
  /\ \A p, q \in Tasks : starting[p] = starting[q] /\ starting[p] # NoTask => p = q
  /\ curr_task = NoTask => task_list = <<IdleTask>> /\ ready_list = <<>>

\* The part of TaskInv that only task creation and the tick can disturb.
LEMMA KeptLemma ==
  ASSUME NEW W, TaskInv(W), UNCHANGED <<task_list, slice_ticks, starting>>
  PROVE  /\ Started' = Started
         /\ \A t \in ToSet(task_list') \union {IdleTask} : slice_ticks'[t] > 0
         /\ \A p \in Tasks : starting'[p] # NoTask => starting'[p] \in ToSet(task_list')
         /\ \A p, q \in Tasks : starting'[p] = starting'[q] /\ starting'[p] # NoTask => p = q
BY DEF TaskInv, Started

\* task_next_run returns the first ready task, or idle.
LEMMA NextRunLemma ==
  ASSUME NEW l \in Seq(Tasks)
  PROVE  /\ task_next_run(l) \in AllTasks
         /\ task_next_run(l) # NoTask
         /\ task_next_run(l) \in Tasks => l # <<>> /\ task_next_run(l) \in ToSet(l)
<1>1. CASE l = <<>>
  <2>1. task_next_run(l) = IdleTask
    BY <1>1 DEF task_next_run
  <2> QED
    BY <2>1, TaskAssumption DEF AllTasks
<1>2. CASE l # <<>>
  <2>1. Len(l) # 0 /\ Head(l) = l[1] /\ 1 \in DOMAIN l /\ l[1] \in Tasks
    BY <1>2
  <2>2. task_next_run(l) = l[1]
    BY <2>1 DEF task_next_run
  <2>3. l[1] \in ToSet(l)
    BY <2>1 DEF ToSet
  <2> QED
    BY <1>2, <2>1, <2>2, <2>3, TaskAssumption DEF AllTasks
<1> QED
  BY <1>1, <1>2

\* After task_dispatch the running task is the head of the ready list.
LEMMA DispatchLemma ==
  ASSUME NEW l \in Seq(Tasks), NEW st \in [AllTasks -> TaskStates], task_dispatch(l, st)
  PROVE  /\ ready_list' = l
         /\ curr_task' \in AllTasks /\ curr_task' # NoTask
         /\ state' \in [AllTasks -> TaskStates]
         /\ RunnerIsHead'
<1>1. ready_list' = l /\ curr_task' = task_next_run(l)
  BY DEF task_dispatch
<1>2. curr_task' \in AllTasks /\ curr_task' # NoTask
  BY <1>1, NextRunLemma
<1>3. state' \in [AllTasks -> TaskStates]
  BY DEF task_dispatch, TaskStates
<1>4. RunnerIsHead'
  BY <1>1 DEF RunnerIsHead
<1> QED
  BY <1>1, <1>2, <1>3, <1>4

\* task_set_ready writes a legal state.
LEMMA MarkReadyLemma ==
  ASSUME NEW st \in [AllTasks -> TaskStates], NEW S
  PROVE  MarkReady(st, S) \in [AllTasks -> TaskStates]
BY DEF MarkReady, TaskStates

\* A running task other than idle is in the ready list, started and not blocked.
LEMMA RunnerLemma ==
  ASSUME NEW W, TaskInv(W), NEW t \in Tasks, t = curr_task
  PROVE  /\ t \in ToSet(ready_list) /\ t \in Started
         /\ t \notin W /\ t \notin ToSet(sleep_list)
         /\ ready_list # <<>>
<1>1. t # NoTask
  BY TaskAssumption
<1>2. t = task_next_run(ready_list) /\ ready_list \in Seq(Tasks)
  BY <1>1 DEF TaskInv, TaskTypeOK, RunnerIsHead
<1>3. t \in ToSet(ready_list) /\ ready_list # <<>>
  BY <1>2, NextRunLemma
<1> QED
  BY <1>3 DEF TaskInv, QueuesOK

\* task_set_block of the running task and task_dispatch, as a mutex or a
\* semaphore uses them: the task joins the blocked tasks.
LEMMA BlockLemma ==
  ASSUME NEW W, TaskInv(W), NEW t \in Tasks, t = curr_task,
         task_dispatch(task_set_block(ready_list, t), state),
         UNCHANGED <<sleep_list, task_list, sleep_ticks, slice_ticks, sys_tick,
                     starting, asked>>
  PROVE  /\ TaskInv(W \union {t})'
         /\ ToSet(ready_list') = ToSet(ready_list) \ {t} /\ curr_task' # NoTask
<1>1. /\ t \in ToSet(ready_list) /\ t \in Started
      /\ t \notin W /\ t \notin ToSet(sleep_list)
  BY RunnerLemma
<1>2. /\ ready_list \in Seq(Tasks) /\ NoDuplicates(ready_list)
      /\ state \in [AllTasks -> TaskStates]
  BY DEF TaskInv, TaskTypeOK, QueuesOK
<1>3. task_set_block(ready_list, t) = list_remove(ready_list, t)
  BY TaskAssumption DEF task_set_block
<1>4. /\ list_remove(ready_list, t) \in Seq(Tasks)
      /\ ToSet(list_remove(ready_list, t)) = ToSet(ready_list) \ {t}
      /\ NoDuplicates(list_remove(ready_list, t))
  BY <1>1, <1>2, RemoveLemma
<1>5. /\ ready_list' = list_remove(ready_list, t)
      /\ curr_task' \in AllTasks /\ curr_task' # NoTask
      /\ state' \in [AllTasks -> TaskStates]
      /\ RunnerIsHead'
  BY <1>2, <1>3, <1>4, DispatchLemma
<1>6. TaskTypeOK'
  BY <1>4, <1>5 DEF TaskInv, TaskTypeOK
<1>7. QueuesOK(W \union {t})'
  BY <1>1, <1>4, <1>5, KeptLemma DEF TaskInv, QueuesOK
<1> QED
  BY <1>4, <1>5, <1>6, <1>7, KeptLemma DEF TaskInv

\* task_set_ready of a blocked task and task_dispatch: it leaves the blocked
\* tasks, whatever task runs.
LEMMA WakeLemma ==
  ASSUME NEW W, TaskInv(W), NEW t \in W, t \in Tasks, curr_task # NoTask,
         task_dispatch(task_set_ready(ready_list, t), MarkReady(state, {t})),
         UNCHANGED <<sleep_list, task_list, sleep_ticks, slice_ticks, sys_tick,
                     starting, asked>>
  PROVE  /\ TaskInv(W \ {t})'
         /\ ToSet(ready_list') = ToSet(ready_list) \union {t} /\ curr_task' # NoTask
<1>1. t \notin ToSet(ready_list) /\ t \in Started /\ t \notin ToSet(sleep_list)
  BY DEF TaskInv, QueuesOK
<1>2. /\ ready_list \in Seq(Tasks) /\ NoDuplicates(ready_list)
      /\ state \in [AllTasks -> TaskStates]
  BY DEF TaskInv, TaskTypeOK, QueuesOK
<1>3. task_set_ready(ready_list, t) = Append(ready_list, t)
  BY TaskAssumption DEF task_set_ready
<1>4. /\ Append(ready_list, t) \in Seq(Tasks)
      /\ ToSet(Append(ready_list, t)) = ToSet(ready_list) \union {t}
      /\ NoDuplicates(Append(ready_list, t))
  BY <1>1, <1>2, AppendLemma
<1>5. /\ ready_list' = Append(ready_list, t)
      /\ curr_task' \in AllTasks /\ curr_task' # NoTask
      /\ state' \in [AllTasks -> TaskStates]
      /\ RunnerIsHead'
  BY <1>2, <1>3, <1>4, MarkReadyLemma, DispatchLemma
<1>6. TaskTypeOK'
  BY <1>4, <1>5 DEF TaskInv, TaskTypeOK
<1>7. QueuesOK(W \ {t})'
  <2>1. Started' = Started /\ sleep_list' = sleep_list
    BY KeptLemma
  <2>2. /\ ToSet(ready_list') = ToSet(ready_list) \union {t}
        /\ NoDuplicates(ready_list')
    BY <1>4, <1>5
  <2>3. QueuesOK(W)
    BY DEF TaskInv
  <2>4. ToSet(ready_list') \union ToSet(sleep_list) \union (W \ {t}) = Started
    BY <2>2, <2>3 DEF QueuesOK
  <2>5. /\ ToSet(ready_list') \intersect ToSet(sleep_list) = {}
        /\ (W \ {t}) \intersect (ToSet(ready_list') \union ToSet(sleep_list)) = {}
    BY <1>1, <2>2, <2>3 DEF QueuesOK
  <2> QED
    BY <2>1, <2>2, <2>3, <2>4, <2>5 DEF QueuesOK
<1> QED
  BY <1>4, <1>5, <1>6, <1>7, KeptLemma DEF TaskInv

-----------------------------------------------------------------------------
(* Every step of the task manager preserves the invariant *)

\* Setting up the first task makes it the only ready task.
LEMMA FirstInitStep ==
  ASSUME NEW W, TaskInv(W), task_first_init
  PROVE  TaskInv(W)' /\ curr_task' # NoTask
<1> USE TaskAssumption
<1>1. /\ task_list = <<IdleTask>> /\ ready_list = <<>> /\ curr_task = NoTask
      /\ curr_task' = FirstTask /\ UNCHANGED <<sleep_list, sleep_ticks, sys_tick, starting, asked>>
  BY DEF TaskInv, task_first_init
<1>2. ToSet(task_list) = {IdleTask} /\ task_list \in Seq(AllTasks)
  BY <1>1 DEF ToSet, AllTasks
<1>3. Started = {} /\ \A p \in Tasks : starting[p] = NoTask
  BY <1>2 DEF TaskInv, TaskTypeOK, Started
<1>4. W = {} /\ ToSet(sleep_list) = {} /\ NoDuplicates(sleep_list)
  BY <1>3 DEF TaskInv, QueuesOK
<1>5. task_list' = Append(task_list, FirstTask) /\ ready_list' = <<FirstTask>>
  <2>1. FirstTask # IdleTask
    OBVIOUS
  <2>2. ready_list' = Append(<<>>, FirstTask)
    BY <1>1, <2>1 DEF task_first_init, task_set_ready
  <2> QED
    BY <2>2 DEF task_first_init
<1>6. task_list' \in Seq(AllTasks) /\ ToSet(task_list') = {IdleTask, FirstTask}
  BY <1>2, <1>5, AppendLemma DEF AllTasks
<1>7. ready_list' \in Seq(Tasks) /\ ToSet(ready_list') = {FirstTask} /\ NoDuplicates(ready_list')
  BY <1>5 DEF ToSet, NoDuplicates
<1>8. Started' = {FirstTask}
  BY <1>1, <1>3, <1>6 DEF Started
<1>9. QueuesOK(W)'
  BY <1>1, <1>4, <1>7, <1>8 DEF QueuesOK
<1>10. RunnerIsHead'
  BY <1>1, <1>5 DEF RunnerIsHead, task_next_run
<1>11. /\ slice_ticks' = [slice_ticks EXCEPT ![FirstTask] = TASK_TIME_SLICE_DEFAULT]
       /\ state' = MarkReady(state, {FirstTask})
       /\ slice_ticks \in [AllTasks -> 0 .. TASK_TIME_SLICE_DEFAULT]
       /\ state \in [AllTasks -> TaskStates]
       /\ slice_ticks[IdleTask] > 0
  BY DEF task_first_init, TaskInv, TaskTypeOK
<1>12. state' \in [AllTasks -> TaskStates]
  BY <1>11, MarkReadyLemma
<1>13. slice_ticks' \in [AllTasks -> 0 .. TASK_TIME_SLICE_DEFAULT]
  <2>1. TASK_TIME_SLICE_DEFAULT \in 0 .. TASK_TIME_SLICE_DEFAULT
    OBVIOUS
  <2> QED
    BY <1>11, <2>1
<1>14. TaskTypeOK'
  BY <1>1, <1>6, <1>7, <1>12, <1>13 DEF TaskInv, TaskTypeOK, AllTasks
<1>15. \A t \in ToSet(task_list') \union {IdleTask} : slice_ticks'[t] > 0
  BY <1>6, <1>11 DEF AllTasks
<1> QED
  BY <1>1, <1>3, <1>9, <1>10, <1>14, <1>15 DEF TaskInv

\* A child that task_init puts on the task list counts as started only when
\* task_start has queued it, so nothing is lost in between.
LEMMA InitTaskStep ==
  ASSUME NEW W, TaskInv(W), NEW t \in Tasks, NEW child \in Tasks, task_init(t, child)
  PROVE  /\ TaskInv(W)' /\ curr_task' # NoTask
         /\ ToSet(ready_list) \ {t} \subseteq ToSet(ready_list')
<1> USE TaskAssumption
<1>1. /\ curr_task = t /\ starting[t] = NoTask /\ child \notin ToSet(task_list)
      /\ task_list' = Append(task_list, child)
      /\ state' = [state EXCEPT ![child] = "CREATED"]
      /\ slice_ticks' = [slice_ticks EXCEPT ![child] = TASK_TIME_SLICE_DEFAULT]
      /\ sleep_ticks' = [sleep_ticks EXCEPT ![child] = 0]
      /\ starting' = [starting EXCEPT ![t] = child]
      /\ UNCHANGED <<curr_task, ready_list, sleep_list, sys_tick, asked>>
  BY DEF task_init, MayCall
<1>2. TaskTypeOK /\ child \in AllTasks
  BY DEF TaskInv, AllTasks
<1>3. task_list' \in Seq(AllTasks) /\ ToSet(task_list') = ToSet(task_list) \union {child}
  BY <1>1, <1>2, AppendLemma DEF TaskTypeOK
<1>4. TaskTypeOK'
  <2>1. slice_ticks' \in [AllTasks -> 0 .. TASK_TIME_SLICE_DEFAULT]
    BY <1>1, <1>2 DEF TaskTypeOK
  <2>2. state' \in [AllTasks -> TaskStates]
    BY <1>1, <1>2 DEF TaskTypeOK, TaskStates
  <2>3. sleep_ticks' \in [AllTasks -> Int] /\ starting' \in [Tasks -> Tasks \union {NoTask}]
    BY <1>1, <1>2 DEF TaskTypeOK
  <2> QED
    BY <1>1, <1>2, <1>3, <2>1, <2>2, <2>3 DEF TaskTypeOK
<1>5. \A p \in Tasks : starting[p] # child
  BY <1>1 DEF TaskInv, TaskTypeOK
<1>6. starting'[t] = child /\ \A p \in Tasks \ {t} : starting'[p] = starting[p]
  BY <1>1, <1>2 DEF TaskTypeOK
<1>7. Started' = Started
  BY <1>1, <1>3, <1>5, <1>6 DEF Started
<1>8. QueuesOK(W)'
  BY <1>1, <1>7 DEF TaskInv, QueuesOK
<1>9. \A u \in ToSet(task_list') \union {IdleTask} : slice_ticks'[u] > 0
  <2> SUFFICES ASSUME NEW u \in ToSet(task_list) \union {child, IdleTask}
               PROVE  slice_ticks'[u] > 0
    BY <1>3
  <2>1. slice_ticks \in [AllTasks -> 0 .. TASK_TIME_SLICE_DEFAULT]
    BY <1>2 DEF TaskTypeOK
  <2>3. u \in AllTasks
    <3>1. task_list \in Seq(AllTasks)
      BY <1>2 DEF TaskTypeOK
    <3>2. ToSet(task_list) \subseteq AllTasks
      BY <3>1 DEF ToSet
    <3> QED
      BY <1>2, <3>2 DEF AllTasks
  <2>2. u # child => slice_ticks[u] > 0
    BY DEF TaskInv
  <2>4. CASE u = child
    <3>1. slice_ticks'[u] = TASK_TIME_SLICE_DEFAULT
      BY <1>1, <2>1, <2>3, <2>4
    <3> QED
      BY <3>1
  <2>5. CASE u # child
    <3>1. slice_ticks'[u] = slice_ticks[u]
      BY <1>1, <2>1, <2>3, <2>5
    <3> QED
      BY <2>2, <2>5, <3>1
  <2> QED
    BY <2>4, <2>5
<1>10. \A p \in Tasks : starting'[p] # NoTask => starting'[p] \in ToSet(task_list')
  BY <1>3, <1>6 DEF TaskInv
<1>11. \A p, q \in Tasks : starting'[p] = starting'[q] /\ starting'[p] # NoTask => p = q
  BY <1>5, <1>6 DEF TaskInv
<1>12. RunnerIsHead' /\ curr_task' # NoTask
  BY <1>1 DEF TaskInv, RunnerIsHead
<1> QED
  BY <1>1, <1>4, <1>8, <1>9, <1>10, <1>11, <1>12 DEF TaskInv

\* task_start queues a child that is nowhere else, behind the running task.
LEMMA StartStep ==
  ASSUME NEW W, TaskInv(W), NEW t \in Tasks, task_start(t)
  PROVE  /\ TaskInv(W)' /\ curr_task' # NoTask
         /\ ToSet(ready_list) \ {t} \subseteq ToSet(ready_list')
<1> USE TaskAssumption
<1> DEFINE child == starting[t]
<1>1. /\ curr_task = t /\ child # NoTask
      /\ ready_list' = task_set_ready(ready_list, child)
      /\ state' = MarkReady(state, {child})
      /\ starting' = [starting EXCEPT ![t] = NoTask]
      /\ UNCHANGED <<curr_task, sleep_list, task_list, sleep_ticks, slice_ticks, sys_tick, asked>>
  BY DEF task_start
<1>2. TaskTypeOK /\ child \in Tasks /\ child \in ToSet(task_list) /\ child \notin Started
  BY <1>1 DEF TaskInv, TaskTypeOK, Started
<1>3. child \notin ToSet(ready_list) /\ ready_list \in Seq(Tasks) /\ NoDuplicates(ready_list)
  BY <1>2 DEF TaskInv, TaskTypeOK, QueuesOK
<1>4. ready_list # <<>> /\ Head(ready_list) = t
  <2>1. ready_list # <<>> /\ t = task_next_run(ready_list)
    BY <1>1, RunnerLemma DEF TaskInv, RunnerIsHead
  <2> QED
    BY <1>3, <2>1 DEF task_next_run
<1>5. ready_list' = Append(ready_list, child)
  BY <1>1, <1>2 DEF task_set_ready
<1> HIDE DEF child
<1>6. /\ ready_list' \in Seq(Tasks) /\ ready_list' # <<>>
      /\ ToSet(ready_list') = ToSet(ready_list) \union {child}
      /\ NoDuplicates(ready_list')
      /\ Head(ready_list') = t
  BY <1>2, <1>3, <1>4, <1>5, AppendLemma
<1>7. starting'[t] = NoTask /\ \A p \in Tasks \ {t} : starting'[p] = starting[p]
  BY <1>1, <1>2 DEF TaskTypeOK
<1>8. Started' = Started \union {child}
  <2>1. \A p \in Tasks : starting[p] = child => p = t
    BY <1>1 DEF TaskInv, child
  <2> QED
    BY <1>1, <1>2, <1>7, <2>1 DEF Started, child
<1>9. QueuesOK(W)'
  <2>1. QueuesOK(W)
    BY DEF TaskInv
  <2>2. ToSet(ready_list') \union ToSet(sleep_list) \union W = Started'
    BY <1>6, <1>8, <2>1 DEF QueuesOK
  <2>3. /\ ToSet(ready_list') \intersect ToSet(sleep_list) = {}
        /\ W \intersect (ToSet(ready_list') \union ToSet(sleep_list)) = {}
    BY <1>2, <1>6, <2>1 DEF QueuesOK
  <2> QED
    BY <1>1, <1>6, <2>1, <2>2, <2>3 DEF QueuesOK
<1>10. TaskTypeOK'
  <2>1. state' \in [AllTasks -> TaskStates]
    BY <1>1, <1>2, MarkReadyLemma DEF TaskTypeOK
  <2>2. starting' \in [Tasks -> Tasks \union {NoTask}]
    BY <1>1, <1>2 DEF TaskTypeOK
  <2> QED
    BY <1>1, <1>2, <1>6, <2>1, <2>2 DEF TaskTypeOK
<1>11. RunnerIsHead' /\ curr_task' # NoTask
  <2>1. Len(ready_list') # 0
    BY <1>6
  <2> QED
    BY <1>1, <1>6, <2>1 DEF RunnerIsHead, task_next_run
<1>12. \A p \in Tasks : starting'[p] # NoTask => starting'[p] \in ToSet(task_list')
  BY <1>1, <1>7 DEF TaskInv
<1>13. \A p, q \in Tasks : starting'[p] = starting'[q] /\ starting'[p] # NoTask => p = q
  BY <1>7 DEF TaskInv
<1> QED
  BY <1>1, <1>6, <1>9, <1>10, <1>11, <1>12, <1>13 DEF TaskInv

\* sys_yield moves the running task to the tail of the ready list.
LEMMA YieldStep ==
  ASSUME NEW W, TaskInv(W), NEW t \in Tasks, sys_yield(t)
  PROVE  /\ TaskInv(W)' /\ curr_task' # NoTask
         /\ ToSet(ready_list) \ {t} \subseteq ToSet(ready_list')
<1> DEFINE rest == list_remove(ready_list, t)
<1>1. /\ t = curr_task
      /\ task_dispatch(task_set_ready(task_set_block(ready_list, t), t), MarkReady(state, {t}))
      /\ UNCHANGED <<sleep_list, task_list, sleep_ticks, slice_ticks, sys_tick, starting, asked>>
  BY DEF sys_yield, MayCall
<1>2. /\ ready_list \in Seq(Tasks) /\ NoDuplicates(ready_list) /\ t \in ToSet(ready_list)
      /\ state \in [AllTasks -> TaskStates]
  BY <1>1, RunnerLemma DEF TaskInv, TaskTypeOK, QueuesOK
<1>3. task_set_ready(task_set_block(ready_list, t), t) = Append(rest, t)
  BY TaskAssumption DEF task_set_ready, task_set_block
<1>4. rest \in Seq(Tasks) /\ ToSet(rest) = ToSet(ready_list) \ {t} /\ NoDuplicates(rest)
  BY <1>2, RemoveLemma
<1> HIDE DEF rest
<1>5. /\ Append(rest, t) \in Seq(Tasks) /\ NoDuplicates(Append(rest, t))
      /\ ToSet(Append(rest, t)) = ToSet(ready_list)
  <2>1. /\ Append(rest, t) \in Seq(Tasks) /\ NoDuplicates(Append(rest, t))
        /\ ToSet(Append(rest, t)) = ToSet(rest) \union {t}
    BY <1>4, AppendLemma
  <2>2. ToSet(rest) \union {t} = ToSet(ready_list)
    BY <1>2, <1>4
  <2> QED
    BY <2>1, <2>2
<1>6. /\ ready_list' = Append(rest, t)
      /\ curr_task' \in AllTasks /\ curr_task' # NoTask
      /\ state' \in [AllTasks -> TaskStates]
      /\ RunnerIsHead'
  BY <1>1, <1>2, <1>3, <1>5, MarkReadyLemma, DispatchLemma
<1>7. TaskTypeOK'
  BY <1>1, <1>5, <1>6 DEF TaskInv, TaskTypeOK
<1>8. QueuesOK(W)'
  BY <1>1, <1>5, <1>6, KeptLemma DEF TaskInv, QueuesOK
<1> QED
  BY <1>1, <1>5, <1>6, <1>7, <1>8, KeptLemma DEF TaskInv

\* The argument of msleep never wraps to 0 ticks, which would drop the task:
\* sys_msleep unlinks it first and task_set_sleep then returns early.
LEMMA SleepTicksLemma ==
  ASSUME NEW ms \in SleepMs
  PROVE  SleepTicks(ms) \in Nat /\ SleepTicks(ms) > 0
<1> DEFINE r == (IF ms < OS_TICK_MS THEN OS_TICK_MS ELSE ms) + (OS_TICK_MS - 1)
<1>1. \A n \in Nat : n \div 2 \in Nat /\ 2 * (n \div 2) <= n
  OBVIOUS
<1>2. /\ ms \in Nat /\ ms <= (UINT32 \div 2) - 1
      /\ OS_TICK_MS \in Nat /\ OS_TICK_MS > 0 /\ OS_TICK_MS <= UINT32 \div 2
      /\ UINT32 \in Nat /\ UINT32 \div 2 \in Nat /\ 2 * (UINT32 \div 2) <= UINT32
  BY <1>1, TaskAssumption
<1>3. r \in Nat /\ r < UINT32 /\ r >= OS_TICK_MS
  BY <1>2
<1>4. SleepTicks(ms) = (r % UINT32) \div OS_TICK_MS
  BY DEF SleepTicks
<1> HIDE DEF r
<1>5. r % UINT32 = r
  BY <1>2, <1>3
<1>6. \A a, b \in Nat : b > 0 /\ a >= b => a \div b \in Nat /\ a \div b > 0
  OBVIOUS
<1> QED
  BY <1>2, <1>3, <1>4, <1>5, <1>6

\* sys_msleep moves the running task from the ready list to the sleep list.
LEMMA MsleepStep ==
  ASSUME NEW W, TaskInv(W), NEW t \in Tasks, NEW ms \in SleepMs, sys_msleep(t, ms)
  PROVE  /\ TaskInv(W)' /\ curr_task' # NoTask
         /\ ToSet(ready_list) \ {t} \subseteq ToSet(ready_list')
<1> DEFINE rest == list_remove(ready_list, t)
           st   == [state EXCEPT ![t] = "SLEEP"]
<1>1. SleepTicks(ms) \in Nat /\ SleepTicks(ms) > 0
  BY SleepTicksLemma
<1>2. /\ t = curr_task
      /\ sleep_ticks' = [sleep_ticks EXCEPT ![t] = SleepTicks(ms)]
      /\ sleep_list' = Append(sleep_list, t)
      /\ task_dispatch(task_set_block(ready_list, t), st)
      /\ asked' = [asked EXCEPT ![t] = [ms |-> ms, tick |-> sys_tick]]
      /\ UNCHANGED <<task_list, slice_ticks, sys_tick, starting>>
  BY <1>1 DEF sys_msleep, MayCall
<1>3. /\ t \in ToSet(ready_list) /\ t \in Started
      /\ t \notin W /\ t \notin ToSet(sleep_list)
  BY <1>2, RunnerLemma
<1>4. TaskTypeOK /\ NoDuplicates(ready_list) /\ NoDuplicates(sleep_list)
  BY DEF TaskInv, QueuesOK
<1>5. task_set_block(ready_list, t) = rest
  BY TaskAssumption DEF task_set_block
<1>6. rest \in Seq(Tasks) /\ ToSet(rest) = ToSet(ready_list) \ {t} /\ NoDuplicates(rest)
  BY <1>3, <1>4, RemoveLemma DEF TaskTypeOK
<1>7. /\ sleep_list' \in Seq(Tasks) /\ NoDuplicates(sleep_list')
      /\ ToSet(sleep_list') = ToSet(sleep_list) \union {t}
  BY <1>2, <1>3, <1>4, AppendLemma DEF TaskTypeOK
<1>8. st \in [AllTasks -> TaskStates]
  BY <1>4 DEF TaskTypeOK, TaskStates
<1> HIDE DEF rest, st
<1>9. /\ ready_list' = rest
      /\ curr_task' \in AllTasks /\ curr_task' # NoTask
      /\ state' \in [AllTasks -> TaskStates]
      /\ RunnerIsHead'
  BY <1>2, <1>5, <1>6, <1>8, DispatchLemma
<1>10. TaskTypeOK'
  <2>1. sleep_ticks' \in [AllTasks -> Int]
    <3>1. SleepTicks(ms) \in Int /\ sleep_ticks \in [AllTasks -> Int]
      BY <1>1, <1>4 DEF TaskTypeOK
    <3>2. sleep_ticks' = [sleep_ticks EXCEPT ![t] = SleepTicks(ms)]
      BY <1>2
    <3> QED
      BY <3>1, <3>2
  <2>2. asked' \in [Tasks -> [ms : {0} \union SleepMs, tick : 0 .. UINT32 - 1]]
    BY <1>2, <1>4 DEF TaskTypeOK
  <2> QED
    BY <1>2, <1>4, <1>6, <1>7, <1>9, <2>1, <2>2 DEF TaskTypeOK
<1>11. QueuesOK(W)'
  <2>1. QueuesOK(W) /\ Started' = Started
    BY <1>2, KeptLemma DEF TaskInv
  <2>2. ToSet(ready_list') \union ToSet(sleep_list') \union W = Started
    BY <1>3, <1>6, <1>7, <1>9, <2>1 DEF QueuesOK
  <2>3. /\ ToSet(ready_list') \intersect ToSet(sleep_list') = {}
        /\ W \intersect (ToSet(ready_list') \union ToSet(sleep_list')) = {}
    BY <1>3, <1>6, <1>7, <1>9, <2>1 DEF QueuesOK
  <2> QED
    BY <1>6, <1>7, <1>9, <2>1, <2>2, <2>3 DEF QueuesOK
<1> QED
  BY <1>2, <1>6, <1>9, <1>10, <1>11, KeptLemma DEF TaskInv

\* uint32_t has values.
LEMMA UintLemma == UINT32 \in Nat /\ UINT32 > 0
<1>1. \A n \in Nat : n \div 2 \in Nat /\ 2 * (n \div 2) <= n
  OBVIOUS
<1>2. UINT32 \in Nat /\ OS_TICK_MS \in Nat /\ OS_TICK_MS > 0 /\ OS_TICK_MS <= UINT32 \div 2
  BY TaskAssumption
<1> QED
  BY <1>1, <1>2

\* What a tick has queued before it wakes the sleepers that are due.
TickRest == IF slice_ticks[curr_task] = 1
            THEN task_set_ready(task_set_block(ready_list, curr_task), curr_task)
            ELSE ready_list

\* The states a tick leaves to the dispatcher.
TickStates ==
  MarkReady(state, Expiring \union IF slice_ticks[curr_task] = 1 THEN {curr_task} ELSE {})

\* The queues after a tick: the sleepers that are due, each once, behind the tasks
\* that were ready, and the others asleep.
LEMMA TickQueues ==
  ASSUME NEW W, TaskInv(W), do_handler_timer
  PROVE  /\ TickRest \in Seq(Tasks) /\ NoDuplicates(TickRest)
         /\ ToSet(TickRest) = ToSet(ready_list)
         /\ TickStates \in [AllTasks -> TaskStates]
         /\ \E woken \in Seq(Tasks) :
              /\ ToSet(woken) = Expiring
              /\ TickRest \o woken \in Seq(Tasks) /\ NoDuplicates(TickRest \o woken)
              /\ ToSet(TickRest \o woken) = ToSet(ready_list) \union Expiring
              /\ task_dispatch(TickRest \o woken, TickStates)
         /\ Expiring \subseteq ToSet(sleep_list)
         /\ sleep_list' \in Seq(Tasks) /\ NoDuplicates(sleep_list')
         /\ ToSet(sleep_list') = ToSet(sleep_list) \ Expiring
<1> DEFINE kept == ToSet(sleep_list) \ Expiring
<1>1. curr_task # NoTask /\ sleep_list' \in Selections(sleep_list, kept)
  BY DEF do_handler_timer
<1>2. PICK woken \in Selections(sleep_list, Expiring) :
        task_dispatch(TickRest \o woken, TickStates)
  BY DEF do_handler_timer, TickRest, TickStates
<1>3. TaskTypeOK /\ QueuesOK(W)
  BY DEF TaskInv
<1>4. /\ sleep_list \in Seq(Tasks) /\ ready_list \in Seq(Tasks)
      /\ Expiring \subseteq ToSet(sleep_list) /\ kept \subseteq ToSet(sleep_list)
      /\ ToSet(sleep_list) \subseteq Tasks
      /\ NoDuplicates(sleep_list) /\ NoDuplicates(ready_list)
  BY <1>3 DEF TaskTypeOK, QueuesOK, Expiring, ToSet
<1>5. curr_task \in AllTasks
  BY <1>1, <1>3 DEF TaskTypeOK
<1>6. TickRest \in Seq(Tasks) /\ ToSet(TickRest) = ToSet(ready_list) /\ NoDuplicates(TickRest)
  <2>1. CASE curr_task = IdleTask
    BY <1>4, <2>1 DEF TickRest, task_set_ready, task_set_block
  <2>2. CASE curr_task \in Tasks
    <3> DEFINE r == list_remove(ready_list, curr_task)
    <3>1. curr_task \in ToSet(ready_list)
      BY <2>2, RunnerLemma
    <3>2. r \in Seq(Tasks) /\ ToSet(r) = ToSet(ready_list) \ {curr_task} /\ NoDuplicates(r)
      BY <1>4, <3>1, RemoveLemma
    <3>3. TickRest = IF slice_ticks[curr_task] = 1 THEN Append(r, curr_task) ELSE ready_list
      BY <2>2, TaskAssumption DEF TickRest, task_set_ready, task_set_block
    <3> HIDE DEF r
    <3>4. /\ Append(r, curr_task) \in Seq(Tasks) /\ NoDuplicates(Append(r, curr_task))
          /\ ToSet(Append(r, curr_task)) = ToSet(ready_list)
      <4>1. /\ Append(r, curr_task) \in Seq(Tasks) /\ NoDuplicates(Append(r, curr_task))
            /\ ToSet(Append(r, curr_task)) = ToSet(r) \union {curr_task}
        BY <2>2, <3>2, AppendLemma
      <4>2. ToSet(r) \union {curr_task} = ToSet(ready_list)
        BY <3>1, <3>2
      <4> QED
        BY <4>1, <4>2
    <3> QED
      BY <1>4, <3>3, <3>4
  <2> QED
    BY <1>5, <2>1, <2>2 DEF AllTasks
<1>7. woken \in Seq(Tasks) /\ ToSet(woken) = Expiring /\ NoDuplicates(woken)
  <2>1. Expiring \in SUBSET Tasks
    BY <1>4
  <2> QED
    BY <1>4, <2>1, SelectionLemma
<1>8. sleep_list' \in Seq(Tasks) /\ ToSet(sleep_list') = kept /\ NoDuplicates(sleep_list')
  <2>1. kept \in SUBSET Tasks
    BY <1>4
  <2> HIDE DEF kept
  <2> QED
    BY <1>1, <1>4, <2>1, SelectionLemma
<1>9. TickStates \in [AllTasks -> TaskStates]
  BY <1>3, MarkReadyLemma DEF TaskTypeOK, TickStates
<1>10. /\ TickRest \o woken \in Seq(Tasks)
       /\ ToSet(TickRest \o woken) = ToSet(ready_list) \union Expiring
       /\ NoDuplicates(TickRest \o woken)
  <2>1. ToSet(TickRest) \intersect ToSet(woken) = {}
    BY <1>3, <1>4, <1>6, <1>7 DEF QueuesOK
  <2> QED
    BY <1>6, <1>7, <2>1, ConcatLemma
<1> QED
  BY <1>2, <1>4, <1>6, <1>7, <1>8, <1>9, <1>10

\* A tick moves the running task to the tail when its slice is spent, and the
\* due sleepers from the sleep list to the ready list, each once.
LEMMA TimerStep ==
  ASSUME NEW W, TaskInv(W), do_handler_timer
  PROVE  /\ TaskInv(W)' /\ curr_task' # NoTask
         /\ ToSet(ready_list) \subseteq ToSet(ready_list')
<1> DEFINE spent == slice_ticks[curr_task] = 1
<1>1. /\ curr_task # NoTask
      /\ sys_tick' = (sys_tick + 1) % UINT32
      /\ slice_ticks' = [slice_ticks EXCEPT ![curr_task] =
                           IF spent THEN TASK_TIME_SLICE_DEFAULT ELSE @ - 1]
      /\ sleep_ticks' = [t \in AllTasks |->
                           IF t \in ToSet(sleep_list) THEN sleep_ticks[t] - 1 ELSE sleep_ticks[t]]
      /\ asked' = [t \in Tasks |-> IF t \in Expiring THEN Awake ELSE asked[t]]
      /\ UNCHANGED <<task_list, starting>>
  BY DEF do_handler_timer
<1>2. TaskTypeOK /\ QueuesOK(W)
  BY DEF TaskInv
<1>3. curr_task \in AllTasks
  BY <1>1, <1>2 DEF TaskTypeOK
<1>4. PICK woken \in Seq(Tasks) :
        /\ TickRest \o woken \in Seq(Tasks) /\ NoDuplicates(TickRest \o woken)
        /\ ToSet(TickRest \o woken) = ToSet(ready_list) \union Expiring
        /\ task_dispatch(TickRest \o woken, TickStates)
  BY TickQueues
<1>5. /\ TickStates \in [AllTasks -> TaskStates] /\ Expiring \subseteq ToSet(sleep_list)
      /\ sleep_list' \in Seq(Tasks) /\ NoDuplicates(sleep_list')
      /\ ToSet(sleep_list') = ToSet(sleep_list) \ Expiring
  BY TickQueues
<1>6. /\ ready_list' \in Seq(Tasks) /\ NoDuplicates(ready_list')
       /\ ToSet(ready_list') = ToSet(ready_list) \union Expiring
       /\ curr_task' \in AllTasks /\ curr_task' # NoTask
       /\ state' \in [AllTasks -> TaskStates]
       /\ RunnerIsHead'
  <2>1. /\ ready_list' = TickRest \o woken
        /\ curr_task' \in AllTasks /\ curr_task' # NoTask
        /\ state' \in [AllTasks -> TaskStates]
        /\ RunnerIsHead'
    BY <1>4, <1>5, DispatchLemma
  <2> QED
    BY <1>4, <2>1
<1>7. \A t \in ToSet(task_list) \union {IdleTask} :
          slice_ticks[t] \in 1 .. TASK_TIME_SLICE_DEFAULT /\ t \in AllTasks
  <2> SUFFICES ASSUME NEW t \in ToSet(task_list) \union {IdleTask}
               PROVE  slice_ticks[t] \in 1 .. TASK_TIME_SLICE_DEFAULT /\ t \in AllTasks
    OBVIOUS
  <2>1. t \in AllTasks
    BY <1>2 DEF TaskTypeOK, ToSet, AllTasks
  <2>2. slice_ticks[t] \in 0 .. TASK_TIME_SLICE_DEFAULT /\ slice_ticks[t] > 0
    BY <1>2, <2>1 DEF TaskInv, TaskTypeOK
  <2> QED
    BY <2>1, <2>2
<1>8. curr_task \in ToSet(task_list) \union {IdleTask}
  <2>1. curr_task \in Tasks => curr_task \in Started
    BY RunnerLemma
  <2> QED
    BY <1>3, <2>1 DEF AllTasks, Started
<1>9. \A t \in AllTasks : slice_ticks'[t] = IF t = curr_task
                             THEN IF spent THEN TASK_TIME_SLICE_DEFAULT ELSE slice_ticks[t] - 1
                             ELSE slice_ticks[t]
  BY <1>1, <1>2 DEF TaskTypeOK
<1>10. slice_ticks' \in [AllTasks -> 0 .. TASK_TIME_SLICE_DEFAULT]
  <2>1. slice_ticks[curr_task] \in 1 .. TASK_TIME_SLICE_DEFAULT
    BY <1>7, <1>8
  <2>2. slice_ticks[curr_task] - 1 \in 0 .. TASK_TIME_SLICE_DEFAULT
    BY <2>1, TaskAssumption
  <2>3. TASK_TIME_SLICE_DEFAULT \in 0 .. TASK_TIME_SLICE_DEFAULT
    BY TaskAssumption
  <2> QED
    BY <1>1, <1>2, <2>2, <2>3 DEF TaskTypeOK
<1>11. \A t \in ToSet(task_list) \union {IdleTask} : slice_ticks'[t] > 0
  <2> SUFFICES ASSUME NEW t \in ToSet(task_list) \union {IdleTask}
               PROVE  slice_ticks'[t] > 0
    OBVIOUS
  <2>1. slice_ticks[t] \in 1 .. TASK_TIME_SLICE_DEFAULT /\ t \in AllTasks
    BY <1>7
  <2> QED
    BY <1>9, <2>1, TaskAssumption
<1>12. TaskTypeOK'
  <2>1. sys_tick' \in 0 .. UINT32 - 1
    <3>1. \A a, b \in Nat : b > 0 => a % b \in 0 .. b - 1
      OBVIOUS
    <3>2. UINT32 \in Nat /\ UINT32 > 0 /\ sys_tick + 1 \in Nat
      BY <1>2, UintLemma DEF TaskTypeOK
    <3> QED
      BY <1>1, <3>1, <3>2
  <2>2. sleep_ticks' \in [AllTasks -> Int]
    BY <1>1, <1>2 DEF TaskTypeOK
  <2>3. asked' \in [Tasks -> [ms : {0} \union SleepMs, tick : 0 .. UINT32 - 1]]
    <3>1. UINT32 \in Nat /\ UINT32 > 0
      BY UintLemma
    <3>2. Awake \in [ms : {0} \union SleepMs, tick : 0 .. UINT32 - 1]
      BY <3>1 DEF Awake
    <3> QED
      BY <1>1, <1>2, <3>2 DEF TaskTypeOK
  <2> QED
    BY <1>1, <1>2, <1>5, <1>6, <1>10, <2>1, <2>2, <2>3 DEF TaskTypeOK
<1>13. QueuesOK(W)'
  <2>1. Started' = Started
    BY <1>1 DEF Started
  <2>2. ToSet(ready_list') \union ToSet(sleep_list') \union W = Started
    BY <1>2, <1>5, <1>6 DEF QueuesOK
  <2>3. /\ ToSet(ready_list') \intersect ToSet(sleep_list') = {}
        /\ W \intersect (ToSet(ready_list') \union ToSet(sleep_list')) = {}
    BY <1>2, <1>5, <1>6 DEF QueuesOK
  <2> QED
    BY <1>5, <1>6, <2>1, <2>2, <2>3 DEF QueuesOK
<1>14. /\ \A p \in Tasks : starting'[p] # NoTask => starting'[p] \in ToSet(task_list')
       /\ \A p, q \in Tasks : starting'[p] = starting'[q] /\ starting'[p] # NoTask => p = q
  BY <1>1 DEF TaskInv
<1> QED
  BY <1>1, <1>6, <1>11, <1>12, <1>13, <1>14 DEF TaskInv

\* What boots satisfies the invariant, with nothing blocked.
LEMMA TaskInitInv == TaskInit => TaskInv({})
<1> SUFFICES ASSUME TaskInit PROVE TaskInv({})
  OBVIOUS
<1> USE TaskAssumption
<1>1. /\ curr_task = NoTask /\ ready_list = <<>> /\ sleep_list = <<>>
      /\ task_list = <<IdleTask>>
      /\ state = [t \in AllTasks |-> "CREATED"]
      /\ sleep_ticks = [t \in AllTasks |-> 0]
      /\ slice_ticks = [t \in AllTasks |-> IF t = IdleTask THEN TASK_TIME_SLICE_DEFAULT ELSE 0]
      /\ sys_tick = 0
      /\ starting = [t \in Tasks |-> NoTask]
      /\ asked = [t \in Tasks |-> Awake]
  BY DEF TaskInit
<1>2. ready_list \in Seq(Tasks) /\ ToSet(ready_list) = {} /\ NoDuplicates(ready_list)
  BY <1>1 DEF ToSet, NoDuplicates
<1>3. sleep_list \in Seq(Tasks) /\ ToSet(sleep_list) = {} /\ NoDuplicates(sleep_list)
  BY <1>1 DEF ToSet, NoDuplicates
<1>4. task_list \in Seq(AllTasks) /\ ToSet(task_list) = {IdleTask}
  BY <1>1 DEF ToSet, AllTasks
<1>5. Started = {}
  BY <1>4 DEF Started
<1>6. QueuesOK({})
  BY <1>2, <1>3, <1>5 DEF QueuesOK
<1>7. TaskTypeOK
  <2>1. asked \in [Tasks -> [ms : {0} \union SleepMs, tick : 0 .. UINT32 - 1]]
    BY <1>1, UintLemma DEF Awake
  <2>2. sys_tick \in 0 .. UINT32 - 1
    BY <1>1, UintLemma
  <2>3. slice_ticks \in [AllTasks -> 0 .. TASK_TIME_SLICE_DEFAULT]
    BY <1>1
  <2>4. state \in [AllTasks -> TaskStates] /\ sleep_ticks \in [AllTasks -> Int]
    BY <1>1 DEF TaskStates
  <2> QED
    BY <1>1, <1>2, <1>3, <1>4, <2>1, <2>2, <2>3, <2>4 DEF TaskTypeOK
<1>8. \A t \in ToSet(task_list) \union {IdleTask} : slice_ticks[t] > 0
  BY <1>1, <1>4 DEF AllTasks
<1> QED
  BY <1>1, <1>6, <1>7, <1>8 DEF TaskInv, RunnerIsHead

\* No call of a task disturbs the invariant ...
LEMMA TaskCallInv ==
  ASSUME NEW W, TaskInv(W), NEW t \in Tasks, TaskCall(t)
  PROVE  /\ TaskInv(W)' /\ curr_task' # NoTask
         /\ ToSet(ready_list) \ {t} \subseteq ToSet(ready_list')
<1>1. CASE \E child \in Tasks : task_init(t, child)
  BY <1>1, InitTaskStep
<1>2. CASE task_start(t)
  BY <1>2, StartStep
<1>3. CASE sys_yield(t)
  BY <1>3, YieldStep
<1>4. CASE \E ms \in SleepMs : sys_msleep(t, ms)
  BY <1>4, MsleepStep
<1> QED
  BY <1>1, <1>2, <1>3, <1>4 DEF TaskCall

\* ... and neither does a step of the task manager, or none.
LEMMA TaskNextInv ==
  ASSUME NEW W, TaskInv(W), [TaskNext]_taskVars
  PROVE  TaskInv(W)'
<1>1. CASE task_first_init
  BY <1>1, FirstInitStep
<1>2. CASE \E t \in Tasks : TaskCall(t)
  BY <1>2, TaskCallInv
<1>3. CASE do_handler_timer
  BY <1>3, TimerStep
<1>4. CASE UNCHANGED taskVars
  <2> USE <1>4 DEF taskVars
  <2>1. TaskTypeOK'
    BY DEF TaskInv, TaskTypeOK
  <2>2. RunnerIsHead' /\ Started' = Started
    BY DEF TaskInv, RunnerIsHead, Started
  <2>3. QueuesOK(W)'
    BY <2>2 DEF TaskInv, QueuesOK
  <2> QED
    BY <2>1, <2>2, <2>3 DEF TaskInv
<1> QED
  BY <1>1, <1>2, <1>3, <1>4 DEF TaskNext

\* In every reachable state of the task manager, with any number of tasks, any
\* slice and any tick, the inductive invariant holds.
THEOREM TaskInvariant == TaskSpec => []TaskInv({})
<1>1. TaskInv({}) /\ [TaskNext]_taskVars => TaskInv({})'
  BY TaskNextInv
<1> QED
  BY <1>1, TaskInitInv, PTL DEF TaskSpec

\* The fields of the task manager and of the tasks keep their types.
THEOREM TaskTypes == TaskSpec => []TaskTypeOK
<1>1. TaskInv({}) => TaskTypeOK
  BY DEF TaskInv
<1> QED
  BY <1>1, TaskInvariant, PTL

\* Every started task is, exactly once, on the ready list or on the sleep list.
THEOREM TasksAreKept == TaskSpec => []NoTaskLost
<1>1. TaskInv({}) => NoTaskLost
  BY DEF TaskInv, NoTaskLost
<1> QED
  BY <1>1, TaskInvariant, PTL

\* The running task is the head of the ready list, or idle if it is empty.
THEOREM TaskRunnerIsHead == TaskSpec => []RunnerIsHead
<1>1. TaskInv({}) => RunnerIsHead
  BY DEF TaskInv
<1> QED
  BY <1>1, TaskInvariant, PTL

-----------------------------------------------------------------------------
(* The order of the ready list *)

\* Of two nodes of a list, one is ahead.
LEMMA AheadTotal ==
  ASSUME NEW S, NEW l \in Seq(S), NEW t \in ToSet(l), NEW u \in ToSet(l), t # u
  PROVE  Ahead(l, t, u) \/ Ahead(l, u, t)
<1>1. PICK i \in DOMAIN l, j \in DOMAIN l : l[i] = t /\ l[j] = u
  BY DEF ToSet
<1>2. i \in Nat /\ j \in Nat /\ i # j
  BY <1>1
<1> QED
  BY <1>1, <1>2 DEF Ahead

\* list_insert_last keeps the order, and the new node is behind all.
LEMMA AheadAppend ==
  ASSUME NEW S, NEW l \in Seq(S), NEW x \in S
  PROVE  /\ \A t, u : Ahead(l, t, u) => Ahead(Append(l, x), t, u)
         /\ \A t \in ToSet(l) : Ahead(Append(l, x), t, x)
<1>1. /\ Len(l) \in Nat /\ DOMAIN l = 1 .. Len(l) /\ DOMAIN Append(l, x) = 1 .. Len(l) + 1
      /\ \A i \in 1 .. Len(l) : Append(l, x)[i] = l[i]
      /\ Append(l, x)[Len(l) + 1] = x
  OBVIOUS
<1>2. ASSUME NEW t, NEW u, Ahead(l, t, u)
      PROVE  Ahead(Append(l, x), t, u)
  BY <1>1, <1>2 DEF Ahead
<1>3. ASSUME NEW t \in ToSet(l)
      PROVE  Ahead(Append(l, x), t, x)
  <2>1. PICK i \in 1 .. Len(l) : l[i] = t
    BY <1>1 DEF ToSet
  <2>2. i < Len(l) + 1 /\ i \in DOMAIN Append(l, x) /\ Len(l) + 1 \in DOMAIN Append(l, x)
    BY <1>1
  <2> QED
    BY <1>1, <2>1, <2>2 DEF Ahead
<1> QED
  BY <1>2, <1>3

\* So does adding another list.
LEMMA AheadConcat ==
  ASSUME NEW S, NEW l \in Seq(S), NEW m \in Seq(S)
  PROVE  /\ \A t, u : Ahead(l, t, u) => Ahead(l \o m, t, u)
         /\ \A t \in ToSet(l), u \in ToSet(m) : Ahead(l \o m, t, u)
<1> DEFINE c == l \o m
<1>1. /\ Len(l) \in Nat /\ DOMAIN l = 1 .. Len(l)
      /\ Len(m) \in Nat /\ DOMAIN m = 1 .. Len(m)
  OBVIOUS
<1>2. /\ c \in Seq(S) /\ Len(c) = Len(l) + Len(m)
      /\ \A k \in 1 .. Len(l) + Len(m) : c[k] = IF k <= Len(l) THEN l[k] ELSE m[k - Len(l)]
  BY ConcatProperties
<1> HIDE DEF c
<1>3. DOMAIN c = 1 .. Len(l) + Len(m)
  BY <1>2
<1>4. ASSUME NEW t, NEW u, Ahead(l, t, u)
      PROVE  Ahead(c, t, u)
  <2>1. PICK i \in DOMAIN l, j \in DOMAIN l : i < j /\ l[i] = t /\ l[j] = u
    BY <1>4 DEF Ahead
  <2>2. i \in DOMAIN c /\ j \in DOMAIN c /\ c[i] = t /\ c[j] = u
    BY <1>1, <1>2, <1>3, <2>1
  <2> QED
    BY <2>1, <2>2 DEF Ahead
<1>5. ASSUME NEW t \in ToSet(l), NEW u \in ToSet(m)
      PROVE  Ahead(c, t, u)
  <2>1. PICK i \in 1 .. Len(l), j \in 1 .. Len(m) : l[i] = t /\ m[j] = u
    BY <1>1 DEF ToSet
  <2>2. i \in DOMAIN c /\ Len(l) + j \in DOMAIN c /\ i < Len(l) + j
    BY <1>1, <1>3
  <2>3. c[i] = t
    BY <1>1, <1>2, <2>1
  <2>4. c[Len(l) + j] = m[(Len(l) + j) - Len(l)] /\ (Len(l) + j) - Len(l) = j
    BY <1>1, <1>2
  <2>5. c[Len(l) + j] = u
    BY <2>1, <2>4
  <2> QED
    BY <2>2, <2>3, <2>5 DEF Ahead
<1> QED
  BY <1>4, <1>5 DEF c

\* list_remove keeps the order of the other nodes.
LEMMA AheadRemove ==
  ASSUME NEW S, NEW l \in Seq(S), NEW x \in ToSet(l), NEW t, NEW u, t # x, u # x,
         Ahead(l, t, u)
  PROVE  Ahead(list_remove(l, x), t, u)
<1> DEFINE r == list_remove(l, x)
<1>1. PICK i \in 1 .. Len(l) :
        /\ l[i] = x
        /\ r \in Seq(S) /\ Len(r) = Len(l) - 1
        /\ \A k \in 1 .. Len(l) - 1 : r[k] = IF k < i THEN l[k] ELSE l[k + 1]
  BY RemoveAtLemma
<1>2. PICK p \in 1 .. Len(l), q \in 1 .. Len(l) : p < q /\ l[p] = t /\ l[q] = u
  BY DEF Ahead
<1> HIDE DEF r
<1>3. Len(l) \in Nat /\ DOMAIN r = 1 .. Len(l) - 1 /\ p # i /\ q # i
  BY <1>1, <1>2
<1> DEFINE place(k) == IF k < i THEN k ELSE k - 1
<1>4. place(p) \in DOMAIN r /\ place(q) \in DOMAIN r /\ place(p) < place(q)
  BY <1>2, <1>3
<1>5. ASSUME NEW k \in 1 .. Len(l), k # i
      PROVE  r[place(k)] = l[k]
  BY <1>1, <1>3, <1>5
<1>6. r[place(p)] = t /\ r[place(q)] = u
  BY <1>2, <1>3, <1>5
<1> HIDE DEF place
<1> QED
  BY <1>4, <1>6 DEF Ahead, r

\* Nobody but c is overtaken when list l becomes m.
Keeps(l, m, c) ==
  \A t \in ToSet(l) \intersect ToSet(m), u \in ToSet(m) :
    t \notin {u, c} /\ ~Ahead(l, u, t) => Ahead(m, t, u)

LEMMA KeepsSame ==
  ASSUME NEW S, NEW l \in Seq(S), NEW c
  PROVE  Keeps(l, l, c)
BY AheadTotal DEF Keeps

\* Only c itself, or a node that is not in the list, joins at the tail.
LEMMA KeepsAppend ==
  ASSUME NEW S, NEW l \in Seq(S), NEW m \in Seq(S), NEW c, Keeps(l, m, c),
         NEW x \in S, x = c \/ x \notin ToSet(l)
  PROVE  Keeps(l, Append(m, x), c)
<1> SUFFICES ASSUME NEW t \in ToSet(l) \intersect ToSet(Append(m, x)),
                    NEW u \in ToSet(Append(m, x)), t \notin {u, c}, ~Ahead(l, u, t)
             PROVE  Ahead(Append(m, x), t, u)
  BY DEF Keeps
<1>1. ToSet(Append(m, x)) = ToSet(m) \union {x}
  BY AppendLemma
<1>2. t \in ToSet(m)
  BY <1>1
<1> QED
  BY <1>1, <1>2, AheadAppend DEF Keeps

LEMMA KeepsRemove ==
  ASSUME NEW S, NEW l \in Seq(S), NoDuplicates(l), NEW c \in ToSet(l)
  PROVE  Keeps(l, list_remove(l, c), c)
<1> SUFFICES ASSUME NEW t \in ToSet(l) \ {c}, NEW u \in ToSet(l) \ {c}, t # u, ~Ahead(l, u, t)
             PROVE  Ahead(list_remove(l, c), t, u)
  BY RemoveLemma DEF Keeps
<1>1. Ahead(l, t, u)
  BY AheadTotal
<1> QED
  BY <1>1, AheadRemove

LEMMA KeepsConcat ==
  ASSUME NEW S, NEW l \in Seq(S), NEW m \in Seq(S), NEW c, Keeps(l, m, c),
         NEW w \in Seq(S), ToSet(l) \intersect ToSet(w) = {}
  PROVE  Keeps(l, m \o w, c)
<1> SUFFICES ASSUME NEW t \in ToSet(l) \intersect ToSet(m \o w), NEW u \in ToSet(m \o w),
                    t \notin {u, c}, ~Ahead(l, u, t)
             PROVE  Ahead(m \o w, t, u)
  BY DEF Keeps
<1>1. ToSet(m \o w) = ToSet(m) \union ToSet(w)
  BY ConcatLemma
<1>2. t \in ToSet(m)
  BY <1>1
<1> QED
  BY <1>1, <1>2, AheadConcat DEF Keeps

-----------------------------------------------------------------------------
(* Steps keep the order of the ready list *)

\* Blocking the running task overtakes nobody ...
LEMMA BlockOrder ==
  ASSUME NEW W, TaskInv(W), NEW t \in Tasks, t = curr_task,
         ready_list' = task_set_block(ready_list, t)
  PROVE  Keeps(ready_list, ready_list', curr_task)
<1>1. ready_list' = list_remove(ready_list, t)
  BY TaskAssumption DEF task_set_block
<1>2. t \in ToSet(ready_list) /\ ready_list \in Seq(Tasks) /\ NoDuplicates(ready_list)
  BY RunnerLemma DEF TaskInv, TaskTypeOK, QueuesOK
<1> QED
  BY <1>1, <1>2, KeepsRemove

\* ... nor does a task that becomes ready ...
LEMMA WakeOrder ==
  ASSUME NEW W, TaskInv(W), NEW t \in Tasks \ ToSet(ready_list),
         ready_list' = task_set_ready(ready_list, t)
  PROVE  Keeps(ready_list, ready_list', curr_task)
<1>1. ready_list' = Append(ready_list, t)
  BY TaskAssumption DEF task_set_ready
<1>2. ready_list \in Seq(Tasks)
  BY DEF TaskInv, TaskTypeOK
<1>3. Keeps(ready_list, ready_list, curr_task)
  BY <1>2, KeepsSame
<1> QED
  BY <1>1, <1>2, <1>3, KeepsAppend

\* ... nor the running task, which goes to the tail.
LEMMA RequeueOrder ==
  ASSUME NEW W, TaskInv(W), NEW t \in Tasks, t = curr_task
  PROVE  Keeps(ready_list, task_set_ready(task_set_block(ready_list, t), t), curr_task)
<1> DEFINE rest == list_remove(ready_list, t)
<1>1. task_set_ready(task_set_block(ready_list, t), t) = Append(rest, t)
  BY TaskAssumption DEF task_set_block, task_set_ready
<1>2. t \in ToSet(ready_list) /\ ready_list \in Seq(Tasks) /\ NoDuplicates(ready_list)
  BY RunnerLemma DEF TaskInv, TaskTypeOK, QueuesOK
<1>3. rest \in Seq(Tasks) /\ Keeps(ready_list, rest, curr_task)
  BY <1>2, KeepsRemove, RemoveLemma
<1> HIDE DEF rest
<1> QED
  BY <1>1, <1>2, <1>3, KeepsAppend

\* Every step of the task manager keeps the order of the ready list.
LEMMA OrderStep ==
  ASSUME NEW W, TaskInv(W), TaskNext
  PROVE  Keeps(ready_list, ready_list', curr_task)
<1>1. /\ ready_list \in Seq(Tasks) /\ QueuesOK(W) /\ TaskTypeOK
      /\ Keeps(ready_list, ready_list, curr_task)
  BY KeepsSame DEF TaskInv, TaskTypeOK
<1>2. CASE task_first_init
  <2>1. FirstTask \in Tasks \ ToSet(ready_list)
    BY <1>2, TaskAssumption DEF task_first_init, TaskInv, ToSet
  <2> QED
    BY <1>2, <2>1, WakeOrder DEF task_first_init
<1>3. ASSUME NEW t \in Tasks, NEW child \in Tasks, task_init(t, child)
      PROVE  ready_list' = ready_list
  BY <1>3 DEF task_init
<1>4. ASSUME NEW t \in Tasks, task_start(t)
      PROVE  Keeps(ready_list, ready_list', curr_task)
  <2>1. starting[t] \in Tasks /\ starting[t] \notin Started
    BY <1>1, <1>4 DEF task_start, TaskTypeOK, Started
  <2>2. starting[t] \notin ToSet(ready_list)
    BY <1>1, <2>1 DEF QueuesOK
  <2> QED
    BY <1>4, <2>1, <2>2, WakeOrder DEF task_start
<1>5. ASSUME NEW t \in Tasks, sys_yield(t)
      PROVE  Keeps(ready_list, ready_list', curr_task)
  BY <1>5, RequeueOrder DEF sys_yield, MayCall, task_dispatch
<1>6. ASSUME NEW t \in Tasks, NEW ms \in SleepMs, sys_msleep(t, ms)
      PROVE  Keeps(ready_list, ready_list', curr_task)
  BY <1>6, BlockOrder DEF sys_msleep, MayCall, task_dispatch
<1>7. CASE do_handler_timer
  <2>1. PICK woken \in Seq(Tasks) :
          ToSet(woken) = Expiring /\ task_dispatch(TickRest \o woken, TickStates)
    BY <1>7, TickQueues
  <2>2. Expiring \subseteq ToSet(sleep_list) /\ TickRest \in Seq(Tasks)
    BY <1>7, TickQueues
  <2>3. ToSet(ready_list) \intersect ToSet(woken) = {}
    BY <1>1, <2>1, <2>2 DEF QueuesOK
  <2>4. Keeps(ready_list, TickRest, curr_task)
    <3>1. CASE curr_task \in Tasks /\ slice_ticks[curr_task] = 1
      BY <3>1, RequeueOrder DEF TickRest
    <3>2. CASE curr_task \notin Tasks \/ slice_ticks[curr_task] # 1
      <4>1. curr_task \in Tasks \union {IdleTask}
        BY <1>1, <1>7 DEF do_handler_timer, TaskTypeOK, AllTasks
      <4>2. TickRest = ready_list
        BY <3>2, <4>1 DEF TickRest, task_set_ready, task_set_block
      <4> QED
        BY <1>1, <4>2
    <3> QED
      BY <3>1, <3>2
  <2>5. ready_list' = TickRest \o woken
    BY <2>1 DEF task_dispatch
  <2> QED
    BY <1>1, <2>2, <2>3, <2>4, <2>5, KeepsConcat
<1> QED
  BY <1>1, <1>2, <1>3, <1>4, <1>5, <1>6, <1>7 DEF TaskNext, TaskCall

\* Nobody but the running task is ever overtaken in the ready list.
THEOREM NobodyIsOvertaken == TaskSpec => NoOvertaking
<1>1. TaskInv({}) /\ [TaskNext]_taskVars =>
        [\A t \in ToSet(ready_list) \intersect ToSet(ready_list'), u \in ToSet(ready_list') :
           t \notin {u, curr_task} /\ ~Ahead(ready_list, u, t)
             => Ahead(ready_list', t, u)]_taskVars
  BY OrderStep DEF Keeps
<1> QED
  BY <1>1, TaskInvariant, PTL DEF TaskSpec, NoOvertaking

-----------------------------------------------------------------------------
(* The states of the tasks *)

\* task_dispatch leaves states that match the lists, if those it is given do:
\* it only sets the task it switches to, which is ready.
LEMMA DispatchStates ==
  ASSUME NEW W, TaskInv(W)', NEW l \in Seq(Tasks), NEW st \in [AllTasks -> TaskStates],
         task_dispatch(l, st),
         \A t \in Tasks : /\ st[t] = "SLEEP" <=> t \in ToSet(sleep_list')
                          /\ st[t] = "CREATED" <=> t \notin Started'
                          /\ t \in ToSet(l) => st[t] = "READY" \/ t = task_next_run(l)
  PROVE  StateMatchesLists'
<1> DEFINE to == task_next_run(l)
<1>1. /\ ready_list' = l /\ curr_task' = to
      /\ state' = IF to # curr_task THEN [st EXCEPT ![to] = "RUNNING"] ELSE st
  BY DEF task_dispatch
<1>2. to \in AllTasks /\ (to \in Tasks => to \in ToSet(l))
  BY NextRunLemma
<1> HIDE DEF to
<1>3. to \in Tasks => to \notin ToSet(sleep_list') /\ to \in Started'
  BY <1>1, <1>2 DEF TaskInv, QueuesOK
<1>4. SUFFICES ASSUME NEW t \in Tasks
               PROVE  /\ state'[t] = "SLEEP" <=> t \in ToSet(sleep_list')
                      /\ state'[t] = "CREATED" <=> t \notin Started'
                      /\ t \in ToSet(ready_list') /\ t # curr_task' => state'[t] = "READY"
  BY DEF StateMatchesLists
<1>5. state'[t] = IF t = to /\ to # curr_task THEN "RUNNING" ELSE st[t]
  BY <1>1, <1>2 DEF AllTasks
<1>6. CASE t = to /\ to # curr_task
  BY <1>1, <1>3, <1>5, <1>6
<1>7. CASE ~(t = to /\ to # curr_task)
  <2>1. state'[t] = st[t]
    BY <1>5, <1>7
  <2>2. t \in ToSet(ready_list') /\ t # curr_task' => st[t] = "READY"
    BY <1>1 DEF to
  <2> QED
    BY <2>1, <2>2
<1> QED
  BY <1>6, <1>7

\* A task that blocks on a mutex or a semaphore keeps its state.
LEMMA BlockStates ==
  ASSUME NEW W, TaskInv(W), StateMatchesLists, NEW t \in Tasks, t = curr_task,
         task_dispatch(task_set_block(ready_list, t), state),
         UNCHANGED <<sleep_list, task_list, sleep_ticks, slice_ticks, sys_tick,
                     starting, asked>>
  PROVE  StateMatchesLists'
<1>1. PICK V : V = W \union {t}
  OBVIOUS
<1>2. TaskInv(V)' /\ Started' = Started
  BY <1>1, BlockLemma, KeptLemma
<1>3. /\ task_set_block(ready_list, t) = list_remove(ready_list, t)
      /\ t \in ToSet(ready_list) /\ ready_list \in Seq(Tasks) /\ NoDuplicates(ready_list)
      /\ state \in [AllTasks -> TaskStates]
  BY RunnerLemma, TaskAssumption DEF task_set_block, TaskInv, TaskTypeOK, QueuesOK
<1>4. /\ task_set_block(ready_list, t) \in Seq(Tasks)
      /\ ToSet(task_set_block(ready_list, t)) = ToSet(ready_list) \ {t}
  BY <1>3, RemoveLemma
<1> QED
  BY <1>2, <1>3, <1>4, DispatchStates DEF StateMatchesLists

\* The state of the running task does not say whether it is ready, but it is the
\* head of the list, and so it is after others have been queued behind it.
LEMMA StillFirst ==
  ASSUME NEW W, TaskInv(W), curr_task \in Tasks, NEW l, l # <<>>,
         l \in Seq(Tasks), Head(l) = Head(ready_list)
  PROVE  task_next_run(l) = curr_task
<1>1. curr_task = task_next_run(ready_list) /\ ready_list # <<>> /\ ready_list \in Seq(Tasks)
  BY RunnerLemma, TaskAssumption DEF TaskInv, RunnerIsHead, TaskTypeOK
<1>2. Len(l) # 0 /\ Len(ready_list) # 0
  BY <1>1
<1> QED
  BY <1>1, <1>2 DEF task_next_run

\* task_set_ready of a started task marks what it queues.
LEMMA WakeStates ==
  ASSUME NEW W, TaskInv(W), StateMatchesLists, NEW t \in W, t \in Tasks, curr_task # NoTask,
         task_dispatch(task_set_ready(ready_list, t), MarkReady(state, {t})),
         UNCHANGED <<sleep_list, task_list, sleep_ticks, slice_ticks, sys_tick,
                     starting, asked>>
  PROVE  StateMatchesLists'
<1> DEFINE l == Append(ready_list, t)
           st == MarkReady(state, {t})
<1>1. PICK V : V = W \ {t}
  OBVIOUS
<1>2. TaskInv(V)' /\ Started' = Started
  BY <1>1, WakeLemma, KeptLemma
<1>3. /\ task_set_ready(ready_list, t) = l
      /\ ready_list \in Seq(Tasks) /\ t \notin ToSet(sleep_list) /\ t \in Started
      /\ state \in [AllTasks -> TaskStates]
      /\ curr_task \in AllTasks
  BY TaskAssumption DEF task_set_ready, TaskInv, TaskTypeOK, QueuesOK
<1>4. /\ l \in Seq(Tasks) /\ l # <<>> /\ ToSet(l) = ToSet(ready_list) \union {t}
      /\ ready_list # <<>> => Head(l) = Head(ready_list)
  BY <1>3, AppendLemma
<1>5. st \in [AllTasks -> TaskStates]
  BY <1>3, MarkReadyLemma
<1>6. \A u \in Tasks : st[u] = IF u = t THEN "READY" ELSE state[u]
  BY TaskAssumption DEF MarkReady, AllTasks
<1> HIDE DEF l, st
<1>7. curr_task \in Tasks => curr_task = task_next_run(l)
  BY <1>4, RunnerLemma, StillFirst
<1>8. ASSUME NEW u \in Tasks
      PROVE  /\ st[u] = "SLEEP" <=> u \in ToSet(sleep_list')
             /\ st[u] = "CREATED" <=> u \notin Started'
             /\ u \in ToSet(l) => st[u] = "READY" \/ u = task_next_run(l)
  <2>1. u = curr_task => u = task_next_run(l)
    BY <1>7
  <2> QED
    BY <1>2, <1>3, <1>4, <1>6, <2>1 DEF StateMatchesLists
<1>9. task_dispatch(l, st)
  BY <1>3 DEF st
<1> QED
  BY <1>2, <1>4, <1>5, <1>8, <1>9, DispatchStates

\* The states a tick hands to the dispatcher.
LEMMA TickStatesLemma ==
  ASSUME NEW W, TaskInv(W), StateMatchesLists, do_handler_timer
  PROVE  StateMatchesLists'
<1>1. TaskInv(W)' /\ Started' = Started
  BY TimerStep DEF do_handler_timer, Started
<1>2. PICK woken \in Seq(Tasks) :
        /\ ToSet(woken) = Expiring
        /\ TickRest \o woken \in Seq(Tasks)
        /\ ToSet(TickRest \o woken) = ToSet(ready_list) \union Expiring
        /\ task_dispatch(TickRest \o woken, TickStates)
  BY TickQueues
<1>3. /\ TickStates \in [AllTasks -> TaskStates] /\ Expiring \subseteq ToSet(sleep_list)
      /\ ToSet(sleep_list') = ToSet(sleep_list) \ Expiring
      /\ TickRest \in Seq(Tasks)
  BY TickQueues
<1> DEFINE l == TickRest \o woken
<1>4. QueuesOK(W) /\ TaskTypeOK
  BY DEF TaskInv
<1>5. \A u \in Tasks : TickStates[u] =
          IF u \in Expiring \/ (u = curr_task /\ slice_ticks[curr_task] = 1)
          THEN "READY" ELSE state[u]
  BY TaskAssumption DEF TickStates, MarkReady, AllTasks
<1>6. curr_task \in Tasks /\ slice_ticks[curr_task] # 1 => curr_task = task_next_run(l)
  <2> SUFFICES ASSUME curr_task \in Tasks, slice_ticks[curr_task] # 1
               PROVE  curr_task = task_next_run(l)
    OBVIOUS
  <2>1. TickRest = ready_list /\ ready_list # <<>>
    BY RunnerLemma DEF TickRest
  <2>2. l # <<>> /\ Head(l) = Head(ready_list)
    BY <1>3, <2>1, ConcatLemma
  <2> QED
    BY <1>2, <2>2, StillFirst
<1>7. ASSUME NEW u \in Tasks
      PROVE  /\ TickStates[u] = "SLEEP" <=> u \in ToSet(sleep_list')
             /\ TickStates[u] = "CREATED" <=> u \notin Started'
             /\ u \in ToSet(l) => TickStates[u] = "READY" \/ u = task_next_run(l)
  <2>1. /\ state[u] = "SLEEP" <=> u \in ToSet(sleep_list)
        /\ state[u] = "CREATED" <=> u \notin Started
        /\ u \in ToSet(ready_list) /\ u # curr_task => state[u] = "READY"
    BY DEF StateMatchesLists
  <2>2. u \in Expiring => u \in Started
    BY <1>3, <1>4 DEF QueuesOK
  <2>3. u = curr_task => u \in Started /\ u \notin ToSet(sleep_list)
    BY RunnerLemma
  <2>4. TickStates[u] = "SLEEP" <=> u \in ToSet(sleep_list')
    BY <1>3, <1>5, <2>1, <2>3
  <2>5. TickStates[u] = "CREATED" <=> u \notin Started'
    BY <1>1, <1>5, <2>1, <2>2, <2>3
  <2>6. u \in ToSet(l) => TickStates[u] = "READY" \/ u = task_next_run(l)
    BY <1>2, <1>5, <1>6, <2>1
  <2> QED
    BY <2>4, <2>5, <2>6
<1> HIDE DEF l
<1> QED
  BY <1>1, <1>2, <1>3, <1>7, DispatchStates DEF l

\* The states match the lists after every step of the task manager.
LEMMA StatesStep ==
  ASSUME NEW W, TaskInv(W), StateMatchesLists, TaskNext
  PROVE  StateMatchesLists'
<1>1. /\ TaskInv(W)' /\ TaskTypeOK /\ QueuesOK(W)
      /\ state \in [AllTasks -> TaskStates] /\ Tasks \subseteq AllTasks
  BY TaskNextInv DEF TaskInv, TaskTypeOK, AllTasks
<1>2. CASE task_first_init
  <2>1. /\ task_list = <<IdleTask>> /\ ready_list = <<>> /\ curr_task' = FirstTask
        /\ ready_list' = Append(ready_list, FirstTask)
        /\ task_list' = Append(task_list, FirstTask)
        /\ state' = MarkReady(state, {FirstTask}) /\ sleep_list' = sleep_list
        /\ starting' = starting
    BY <1>2, TaskAssumption DEF task_first_init, task_set_ready, TaskInv
  <2>2. /\ ToSet(task_list) = {IdleTask} /\ ToSet(ready_list) = {}
        /\ task_list \in Seq(AllTasks) /\ ready_list \in Seq(Tasks)
    BY <2>1 DEF ToSet, AllTasks
  <2>3. /\ ToSet(task_list') = {IdleTask, FirstTask}
        /\ ToSet(ready_list') = {FirstTask}
    <3>1. FirstTask \in Tasks /\ FirstTask \in AllTasks
      BY TaskAssumption DEF AllTasks
    <3>2. ToSet(Append(task_list, FirstTask)) = ToSet(task_list) \union {FirstTask}
      BY <2>2, <3>1, AppendLemma
    <3>3. ToSet(Append(ready_list, FirstTask)) = ToSet(ready_list) \union {FirstTask}
      BY <2>2, <3>1, AppendLemma
    <3> QED
      BY <2>1, <2>2, <3>2, <3>3
  <2>4. Started = {} /\ Started' = {FirstTask}
    BY <2>1, <2>2, <2>3, TaskAssumption DEF Started, TaskInv
  <2>5. ToSet(sleep_list) = {}
    BY <1>1, <2>4 DEF QueuesOK
  <2>6. \A u \in Tasks : state'[u] = IF u = FirstTask THEN "READY" ELSE state[u]
    BY <1>1, <2>1, TaskAssumption DEF MarkReady
  <2> QED
    BY <2>1, <2>3, <2>4, <2>5, <2>6 DEF StateMatchesLists
<1>3. ASSUME NEW t \in Tasks, NEW child \in Tasks, task_init(t, child)
      PROVE  StateMatchesLists'
  <2>1. /\ child \notin ToSet(task_list)
        /\ state' = [state EXCEPT ![child] = "CREATED"]
        /\ UNCHANGED <<curr_task, ready_list, sleep_list>>
    BY <1>3 DEF task_init
  <2>2. Started' = Started
    BY <1>1, <2>1 DEF TaskInv, QueuesOK
  <2>3. child \notin Started
    BY <2>1 DEF Started
  <2>4. child \notin ToSet(ready_list) /\ child \notin ToSet(sleep_list)
    BY <1>1, <2>3 DEF QueuesOK
  <2>5. \A u \in Tasks : state'[u] = IF u = child THEN "CREATED" ELSE state[u]
    BY <1>1, <2>1
  <2> QED
    BY <2>1, <2>2, <2>3, <2>4, <2>5 DEF StateMatchesLists
<1>4. ASSUME NEW t \in Tasks, task_start(t)
      PROVE  StateMatchesLists'
  <2> DEFINE child == starting[t]
  <2>1. /\ child \in Tasks /\ child \notin Started
        /\ ready_list' = Append(ready_list, child)
        /\ state' = MarkReady(state, {child})
        /\ UNCHANGED <<curr_task, sleep_list>>
    BY <1>1, <1>4, TaskAssumption DEF task_start, TaskTypeOK, Started, task_set_ready
  <2> HIDE DEF child
  <2>2. child \notin ToSet(sleep_list) /\ ready_list \in Seq(Tasks)
    BY <1>1, <2>1 DEF QueuesOK, TaskTypeOK
  <2>3. ToSet(ready_list') = ToSet(ready_list) \union {child}
    BY <2>1, <2>2, AppendLemma
  <2>4. Started' = Started \union {child}
    BY <1>1, <2>1, <2>3 DEF TaskInv, QueuesOK
  <2>5. \A u \in Tasks : state'[u] = IF u = child THEN "READY" ELSE state[u]
    BY <1>1, <2>1, TaskAssumption DEF MarkReady
  <2> QED
    BY <2>1, <2>2, <2>3, <2>4, <2>5 DEF StateMatchesLists
<1>5. ASSUME NEW t \in Tasks, sys_yield(t)
      PROVE  StateMatchesLists'
  <2> DEFINE rest == list_remove(ready_list, t)
             l    == Append(rest, t)
             st   == MarkReady(state, {t})
  <2>1. t = curr_task /\ UNCHANGED <<sleep_list, task_list, starting>>
    BY <1>5 DEF sys_yield, MayCall
  <2>2. task_dispatch(l, st)
    BY <1>5, TaskAssumption DEF sys_yield, task_set_ready, task_set_block
  <2>3. /\ t \in ToSet(ready_list) /\ t \in Started /\ t \notin ToSet(sleep_list)
        /\ ready_list \in Seq(Tasks) /\ NoDuplicates(ready_list)
    BY <1>1, <2>1, RunnerLemma DEF QueuesOK, TaskTypeOK
  <2>4. rest \in Seq(Tasks) /\ ToSet(rest) = ToSet(ready_list) \ {t}
    BY <2>3, RemoveLemma
  <2>5. st \in [AllTasks -> TaskStates]
    BY <1>1, MarkReadyLemma
  <2>6. \A u \in Tasks : st[u] = IF u = t THEN "READY" ELSE state[u]
    BY <1>1, TaskAssumption DEF MarkReady
  <2>7. Started' = Started
    BY <2>1 DEF Started
  <2> HIDE DEF rest, st
  <2>8. l \in Seq(Tasks) /\ ToSet(l) = ToSet(ready_list)
    <3>1. l \in Seq(Tasks) /\ ToSet(l) = ToSet(rest) \union {t}
      BY <2>4, AppendLemma
    <3> QED
      BY <2>3, <2>4, <3>1
  <2> HIDE DEF l
  <2>9. ASSUME NEW u \in Tasks
        PROVE  /\ st[u] = "SLEEP" <=> u \in ToSet(sleep_list')
               /\ st[u] = "CREATED" <=> u \notin Started'
               /\ u \in ToSet(l) => st[u] = "READY" \/ u = task_next_run(l)
    BY <2>1, <2>3, <2>6, <2>7, <2>8 DEF StateMatchesLists
  <2> QED
    BY <1>1, <2>2, <2>5, <2>8, <2>9, DispatchStates
<1>6. ASSUME NEW t \in Tasks, NEW ms \in SleepMs, sys_msleep(t, ms)
      PROVE  StateMatchesLists'
  <2> DEFINE l  == list_remove(ready_list, t)
             st == [state EXCEPT ![t] = "SLEEP"]
  <2>1. /\ t = curr_task /\ sleep_list' = Append(sleep_list, t)
        /\ task_dispatch(task_set_block(ready_list, t), st)
        /\ UNCHANGED <<task_list, starting>>
    BY <1>6, SleepTicksLemma DEF sys_msleep, MayCall
  <2>2. /\ t \in ToSet(ready_list) /\ t \in Started
        /\ ready_list \in Seq(Tasks) /\ NoDuplicates(ready_list) /\ sleep_list \in Seq(Tasks)
    BY <1>1, <2>1, RunnerLemma DEF QueuesOK, TaskTypeOK
  <2>3. l \in Seq(Tasks) /\ ToSet(l) = ToSet(ready_list) \ {t}
    BY <2>2, RemoveLemma
  <2>4. st \in [AllTasks -> TaskStates]
    BY <1>1 DEF TaskStates
  <2>5. \A u \in Tasks : st[u] = IF u = t THEN "SLEEP" ELSE state[u]
    BY <1>1
  <2>6. Started' = Started
    BY <2>1 DEF Started
  <2>7. task_dispatch(l, st)
    BY <2>1, TaskAssumption DEF task_set_block
  <2>8. ToSet(sleep_list') = ToSet(sleep_list) \union {t}
    BY <2>1, <2>2, AppendLemma
  <2> HIDE DEF l, st
  <2>9. ASSUME NEW u \in Tasks
        PROVE  /\ st[u] = "SLEEP" <=> u \in ToSet(sleep_list')
               /\ st[u] = "CREATED" <=> u \notin Started'
               /\ u \in ToSet(l) => st[u] = "READY" \/ u = task_next_run(l)
    BY <2>1, <2>2, <2>3, <2>5, <2>6, <2>8 DEF StateMatchesLists
  <2> QED
    BY <1>1, <2>3, <2>4, <2>7, <2>9, DispatchStates
<1>7. CASE do_handler_timer
  BY <1>7, TickStatesLemma
<1> QED
  BY <1>2, <1>3, <1>4, <1>5, <1>6, <1>7 DEF TaskNext, TaskCall

\* The states match the lists when the kernel boots ...
LEMMA StatesInit == TaskInit => StateMatchesLists
<1> SUFFICES ASSUME TaskInit PROVE StateMatchesLists
  OBVIOUS
<1>1. /\ ready_list = <<>> /\ sleep_list = <<>> /\ task_list = <<IdleTask>>
      /\ state = [t \in AllTasks |-> "CREATED"]
  BY DEF TaskInit
<1>2. ToSet(ready_list) = {} /\ ToSet(sleep_list) = {} /\ ToSet(task_list) = {IdleTask}
  BY <1>1 DEF ToSet
<1>3. Started = {}
  BY <1>2, TaskAssumption DEF Started
<1> QED
  BY <1>1, <1>2, <1>3 DEF StateMatchesLists, AllTasks

\* ... and ever after.
THEOREM StatesMatchLists == TaskSpec => []StateMatchesLists
<1>1. TaskInv({}) /\ StateMatchesLists /\ [TaskNext]_taskVars => StateMatchesLists'
  <2> SUFFICES ASSUME TaskInv({}), StateMatchesLists, UNCHANGED taskVars
               PROVE  StateMatchesLists'
    BY StatesStep
  <2> QED
    BY DEF taskVars, StateMatchesLists, Started
<1> QED
  BY <1>1, StatesInit, TaskInvariant, PTL DEF TaskSpec

-----------------------------------------------------------------------------
(* Sleeping *)

\* The difference of two tick counts, across a wrap of the counter.
LEMMA WrapLemma ==
  ASSUME NEW U \in Nat, U > 0, NEW s \in 0 .. U - 1, NEW k \in 0 .. U - 1,
         ((s - k) % U) + 1 < U
  PROVE  (((s + 1) % U) - k) % U = ((s - k) % U) + 1
<1>1. \A x \in 0 .. U - 1 : x % U = x
  OBVIOUS
<1>2. \A x \in Int : -U <= x /\ x < 0 => x % U = x + U
  OBVIOUS
<1>3. U % U = 0
  OBVIOUS
<1>4. CASE s >= k
  <2>1. (s - k) % U = s - k
    BY <1>1, <1>4
  <2>2. CASE s + 1 < U
    <3>1. (s + 1) % U = s + 1 /\ (s + 1 - k) % U = s + 1 - k
      BY <1>1, <1>4, <2>2
    <3> QED
      BY <2>1, <3>1
  <2>3. CASE s + 1 = U
    <3>1. (s + 1) % U = 0 /\ k > 0
      BY <1>3, <2>1, <2>3
    <3>2. (0 - k) % U = -k + U
      BY <1>2, <3>1
    <3> QED
      BY <2>1, <2>3, <3>1, <3>2
  <2> QED
    BY <2>2, <2>3
<1>5. CASE s < k
  <2>1. (s - k) % U = s - k + U
    BY <1>2, <1>5
  <2>2. (s + 1) % U = s + 1 /\ s + 1 - k < 0
    BY <1>1, <1>5, <2>1
  <2>3. (s + 1 - k) % U = s + 1 - k + U
    BY <1>2, <2>2
  <2> QED
    BY <2>1, <2>2, <2>3
<1> QED
  BY <1>4, <1>5

\* The ticks msleep asks for are the least number that lasts as long as asked.
LEMMA CeilingLemma ==
  ASSUME NEW ms \in SleepMs
  PROVE  /\ SleepTicks(ms) \in Nat /\ SleepTicks(ms) < UINT32
         /\ SleepTicks(ms) * OS_TICK_MS >= ms
         /\ (SleepTicks(ms) - 1) * OS_TICK_MS < ms
<1> DEFINE m == IF ms < OS_TICK_MS THEN OS_TICK_MS ELSE ms
           r == m + (OS_TICK_MS - 1)
           q == r \div OS_TICK_MS
<1>1. \A n \in Nat : n \div 2 \in Nat /\ 2 * (n \div 2) <= n
  OBVIOUS
<1>2. /\ ms \in Nat /\ ms <= (UINT32 \div 2) - 1 /\ ms >= 1
      /\ OS_TICK_MS \in Nat /\ OS_TICK_MS > 0 /\ OS_TICK_MS <= UINT32 \div 2
      /\ UINT32 \in Nat /\ UINT32 \div 2 \in Nat /\ 2 * (UINT32 \div 2) <= UINT32
  BY <1>1, TaskAssumption
<1>3. r \in Nat /\ r < UINT32 /\ m \in Nat /\ m >= OS_TICK_MS /\ m >= ms
  BY <1>2
<1>4. SleepTicks(ms) = (r % UINT32) \div OS_TICK_MS
  BY DEF SleepTicks
<1> HIDE DEF m
<1>5. r % UINT32 = r
  BY <1>2, <1>3
<1>6. SleepTicks(ms) = q
  BY <1>4, <1>5
<1>7. \A a, b \in Nat : b > 0 => /\ a \div b \in Nat /\ (a \div b) * b <= a
                                /\ a < (a \div b) * b + b /\ a \div b <= a
  OBVIOUS
<1> HIDE DEF r
<1>8. q \in Nat /\ q * OS_TICK_MS <= r /\ r < q * OS_TICK_MS + OS_TICK_MS /\ q <= r
  BY <1>2, <1>3, <1>7
<1> HIDE DEF q
<1>9. (q - 1) * OS_TICK_MS = q * OS_TICK_MS - OS_TICK_MS /\ q * OS_TICK_MS \in Nat
  <2>1. \A a, b \in Nat : (a - 1) * b = a * b - b /\ a * b \in Nat
    OBVIOUS
  <2> QED
    BY <1>2, <1>8, <2>1
<1>10. q * OS_TICK_MS >= ms
  BY <1>2, <1>3, <1>8, <1>9 DEF r
<1>11. (q - 1) * OS_TICK_MS < m
  BY <1>2, <1>3, <1>8, <1>9 DEF r
<1>12. ms < OS_TICK_MS => (q - 1) * OS_TICK_MS = 0
  <2>1. ms < OS_TICK_MS => q * OS_TICK_MS < 2 * OS_TICK_MS
    BY <1>2, <1>8, <1>9 DEF r, m
  <2>2. \A a, b \in Nat : b > 0 /\ a * b < 2 * b => a < 2
    OBVIOUS
  <2>3. ms < OS_TICK_MS => q < 2
    BY <1>2, <1>8, <2>1, <2>2
  <2>4. q # 0
    BY <1>2, <1>8, <1>10
  <2>5. ms < OS_TICK_MS => q = 1
    BY <1>8, <2>3, <2>4
  <2> QED
    BY <1>2, <2>5
<1>13. (q - 1) * OS_TICK_MS < ms
  BY <1>2, <1>11, <1>12 DEF m
<1> QED
  BY <1>3, <1>2, <1>6, <1>8, <1>10, <1>13

\* What is left of a sleeper's ticks and what it has slept are what it asked for.
\* WakesOnTime needs it: it is what the tick at which a sleeper wakes depends on.
SleepersOK ==
  \A t \in ToSet(sleep_list) :
    /\ asked[t].ms \in SleepMs
    /\ sleep_ticks[t] > 0
    /\ sleep_ticks[t] + Slept(t, sys_tick) = SleepTicks(asked[t].ms)

\* A tick takes one from what is left of a sleep and adds one to what was slept;
\* the sum never reaches the range of the counter, so a wrap does not matter.
LEMMA TickSleepers ==
  ASSUME NEW W, TaskInv(W), SleepersOK, do_handler_timer, NEW t \in ToSet(sleep_list)
  PROVE  /\ asked[t].ms \in SleepMs
         /\ sleep_ticks'[t] = sleep_ticks[t] - 1 /\ sleep_ticks[t] \in Nat /\ sleep_ticks[t] > 0
         /\ t \in ToSet(sleep_list') <=> sleep_ticks[t] # 1
         /\ t \in ToSet(sleep_list') => asked'[t] = asked[t]
         /\ Slept(t, sys_tick') \in Nat
         /\ sleep_ticks[t] - 1 + Slept(t, sys_tick') = SleepTicks(asked[t].ms)
<1>1. /\ TaskTypeOK /\ ToSet(sleep_list') = ToSet(sleep_list) \ Expiring
  BY TickQueues DEF TaskInv
<1>2. t \in Tasks /\ t \in AllTasks
  BY <1>1 DEF TaskTypeOK, ToSet, AllTasks
<1>3. /\ asked[t].ms \in SleepMs /\ sleep_ticks[t] > 0
      /\ sleep_ticks[t] + Slept(t, sys_tick) = SleepTicks(asked[t].ms)
  BY DEF SleepersOK
<1>4. /\ sleep_ticks'[t] = sleep_ticks[t] - 1 /\ sleep_ticks[t] \in Int
      /\ sys_tick' = (sys_tick + 1) % UINT32
      /\ asked'[t] = IF t \in Expiring THEN Awake ELSE asked[t]
  BY <1>1, <1>2 DEF do_handler_timer, TaskTypeOK
<1>5. t \in Expiring <=> sleep_ticks[t] = 1
  BY DEF Expiring
<1>6. /\ sys_tick \in 0 .. UINT32 - 1 /\ asked[t].tick \in 0 .. UINT32 - 1
      /\ UINT32 \in Nat /\ UINT32 > 0
  BY <1>1, <1>2, UintLemma DEF TaskTypeOK
<1>7. SleepTicks(asked[t].ms) \in Nat /\ SleepTicks(asked[t].ms) < UINT32
  BY <1>3, CeilingLemma
<1>8. \A a \in Int, b \in Nat : b > 0 => a % b \in 0 .. b - 1
  OBVIOUS
<1>9. Slept(t, sys_tick) \in Nat
  BY <1>6, <1>8 DEF Slept
<1>10. Slept(t, sys_tick) + 1 < UINT32 \/ Slept(t, sys_tick) + 1 = UINT32
  <2>1. (sys_tick - asked[t].tick) % UINT32 \in 0 .. UINT32 - 1
    BY <1>6, <1>8
  <2> QED
    BY <1>6, <2>1 DEF Slept
<1>11. Slept(t, sys_tick) + 1 < UINT32
  BY <1>3, <1>4, <1>6, <1>7, <1>9
<1>12. Slept(t, sys_tick') = Slept(t, sys_tick) + 1
  BY <1>4, <1>6, <1>11, WrapLemma DEF Slept
<1>13. /\ Slept(t, sys_tick') \in Nat
       /\ sleep_ticks[t] - 1 + Slept(t, sys_tick') = SleepTicks(asked[t].ms)
  BY <1>3, <1>4, <1>7, <1>9, <1>12
<1> QED
  BY <1>1, <1>3, <1>4, <1>5, <1>13

\* The sleepers' counts stay right in every step of the task manager ...
LEMMA SleepersStep ==
  ASSUME NEW W, TaskInv(W), SleepersOK, TaskNext
  PROVE  SleepersOK'
<1>1. TaskTypeOK /\ QueuesOK(W) /\ ToSet(sleep_list) \subseteq Tasks
  BY DEF TaskInv, TaskTypeOK, ToSet
<1>2. CASE task_first_init
  BY <1>2 DEF task_first_init, SleepersOK, Slept
<1>3. ASSUME NEW t \in Tasks, NEW child \in Tasks, task_init(t, child)
      PROVE  SleepersOK'
  <2>1. /\ sleep_ticks' = [sleep_ticks EXCEPT ![child] = 0]
        /\ UNCHANGED <<sleep_list, sys_tick, asked>>
        /\ child \notin ToSet(sleep_list)
    BY <1>1, <1>3 DEF task_init, QueuesOK, Started
  <2>2. \A u \in ToSet(sleep_list) : sleep_ticks'[u] = sleep_ticks[u]
    BY <1>1, <2>1 DEF TaskTypeOK, AllTasks
  <2> QED
    BY <2>1, <2>2 DEF SleepersOK, Slept
<1>4. ASSUME NEW t \in Tasks, task_start(t) \/ sys_yield(t)
      PROVE  SleepersOK'
  BY <1>4 DEF task_start, sys_yield, SleepersOK, Slept
<1>5. ASSUME NEW t \in Tasks, NEW ms \in SleepMs, sys_msleep(t, ms)
      PROVE  SleepersOK'
  <2>1. SleepTicks(ms) \in Nat /\ SleepTicks(ms) > 0
    BY SleepTicksLemma
  <2>2. /\ t = curr_task
        /\ sleep_ticks' = [sleep_ticks EXCEPT ![t] = SleepTicks(ms)]
        /\ sleep_list' = Append(sleep_list, t)
        /\ asked' = [asked EXCEPT ![t] = [ms |-> ms, tick |-> sys_tick]]
        /\ sys_tick' = sys_tick
    BY <1>5, <2>1 DEF sys_msleep, MayCall
  <2>3. ToSet(sleep_list') = ToSet(sleep_list) \union {t} /\ t \notin ToSet(sleep_list)
    BY <1>1, <2>2, AppendLemma, RunnerLemma DEF TaskTypeOK
  <2>4. /\ sleep_ticks'[t] = SleepTicks(ms)
        /\ asked'[t] = [ms |-> ms, tick |-> sys_tick]
        /\ \A u \in ToSet(sleep_list) : sleep_ticks'[u] = sleep_ticks[u] /\ asked'[u] = asked[u]
    BY <1>1, <2>2, <2>3 DEF TaskTypeOK, AllTasks
  <2>5. Slept(t, sys_tick)' = 0
    <3>1. Slept(t, sys_tick)' = (sys_tick - sys_tick) % UINT32
      BY <2>2, <2>4 DEF Slept
    <3>2. sys_tick - sys_tick = 0
      BY <1>1 DEF TaskTypeOK
    <3>3. 0 % UINT32 = 0
      BY UintLemma
    <3> QED
      BY <3>1, <3>2, <3>3
  <2>6. asked'[t].ms = ms /\ sleep_ticks'[t] + Slept(t, sys_tick)' = SleepTicks(ms)
    BY <2>1, <2>4, <2>5
  <2>7. \A u \in ToSet(sleep_list) : Slept(u, sys_tick)' = Slept(u, sys_tick)
    BY <2>2, <2>4 DEF Slept
  <2>8. ASSUME NEW u \in ToSet(sleep_list)
        PROVE  /\ asked'[u].ms \in SleepMs
               /\ sleep_ticks'[u] > 0
               /\ sleep_ticks'[u] + Slept(u, sys_tick)' = SleepTicks(asked'[u].ms)
    BY <2>4, <2>7 DEF SleepersOK
  <2> HIDE DEF SleepersOK
  <2> SUFFICES ASSUME NEW u \in ToSet(sleep_list')
               PROVE  /\ asked'[u].ms \in SleepMs
                      /\ sleep_ticks'[u] > 0
                      /\ sleep_ticks'[u] + Slept(u, sys_tick)' = SleepTicks(asked'[u].ms)
    BY DEF SleepersOK
  <2> QED
    BY <2>1, <2>3, <2>4, <2>6, <2>8
<1>6. CASE do_handler_timer
  <2> SUFFICES ASSUME NEW u \in ToSet(sleep_list')
               PROVE  /\ asked'[u].ms \in SleepMs
                      /\ sleep_ticks'[u] > 0
                      /\ sleep_ticks'[u] + Slept(u, sys_tick)' = SleepTicks(asked'[u].ms)
    BY DEF SleepersOK
  <2>1. u \in ToSet(sleep_list)
    BY <1>6, TickQueues
  <2>2. /\ asked[u].ms \in SleepMs /\ asked'[u] = asked[u]
        /\ sleep_ticks'[u] = sleep_ticks[u] - 1 /\ sleep_ticks[u] \in Nat /\ sleep_ticks[u] > 0
        /\ sleep_ticks[u] # 1
        /\ sleep_ticks[u] - 1 + Slept(u, sys_tick') = SleepTicks(asked[u].ms)
    BY <1>6, <2>1, TickSleepers
  <2>3. Slept(u, sys_tick)' = Slept(u, sys_tick')
    BY <2>2 DEF Slept
  <2> QED
    BY <2>2, <2>3
<1> QED
  BY <1>2, <1>3, <1>4, <1>5, <1>6 DEF TaskNext, TaskCall

\* ... so that a sleeper wakes at the tick it asked for.
LEMMA WakeStep ==
  ASSUME NEW W, TaskInv(W), SleepersOK, do_handler_timer, NEW t \in ToSet(sleep_list)
  PROVE  LET n == Slept(t, sys_tick') IN
         IF t \in ToSet(sleep_list')
         THEN n * OS_TICK_MS < asked[t].ms
         ELSE n * OS_TICK_MS >= asked[t].ms /\ (n - 1) * OS_TICK_MS < asked[t].ms
<1> DEFINE n   == Slept(t, sys_tick')
           ms  == asked[t].ms
           all == SleepTicks(ms)
<1>1. /\ ms \in SleepMs /\ sleep_ticks[t] \in Nat /\ sleep_ticks[t] > 0
      /\ t \in ToSet(sleep_list') <=> sleep_ticks[t] # 1
      /\ n \in Nat /\ sleep_ticks[t] - 1 + n = all
  BY TickSleepers
<1>2. /\ all \in Nat /\ all * OS_TICK_MS >= ms /\ (all - 1) * OS_TICK_MS < ms
      /\ OS_TICK_MS \in Nat /\ ms \in Nat
  <2>1. OS_TICK_MS \in Nat /\ \A k \in SleepMs : k \in Nat
    BY TaskAssumption
  <2> HIDE DEF n, ms
  <2>2. /\ all \in Nat /\ all * OS_TICK_MS >= ms /\ (all - 1) * OS_TICK_MS < ms
    BY <1>1, CeilingLemma
  <2> QED
    BY <1>1, <2>1, <2>2
<1> HIDE DEF n, ms, all
<1>3. CASE sleep_ticks[t] = 1
  <2>1. n = all
    BY <1>1, <1>2, <1>3
  <2> QED
    BY <1>1, <1>2, <1>3, <2>1 DEF n, ms
<1>4. CASE sleep_ticks[t] # 1
  <2>1. n <= all - 1
    BY <1>1, <1>2, <1>4
  <2>2. n * OS_TICK_MS <= (all - 1) * OS_TICK_MS
    <3>1. \A a, b \in Int, c \in Nat : a <= b => a * c <= b * c
      OBVIOUS
    <3> QED
      BY <1>1, <1>2, <2>1, <3>1
  <2>3. n * OS_TICK_MS \in Int /\ (all - 1) * OS_TICK_MS \in Int
    BY <1>1, <1>2
  <2>4. n * OS_TICK_MS < ms
    BY <1>2, <2>2, <2>3
  <2> QED
    BY <1>1, <1>4, <2>4 DEF n, ms
<1> QED
  BY <1>3, <1>4

\* The sleepers' counts are right in every reachable state.
THEOREM SleepersInvariant == TaskSpec => []SleepersOK
<1>1. TaskInit => SleepersOK
  <2>1. ToSet(<<>>) = {}
    BY DEF ToSet
  <2> QED
    BY <2>1 DEF TaskInit, SleepersOK
<1>2. TaskInv({}) /\ SleepersOK /\ [TaskNext]_taskVars => SleepersOK'
  BY SleepersStep DEF taskVars, SleepersOK, Slept
<1> QED
  BY <1>1, <1>2, TaskInvariant, PTL DEF TaskSpec

\* A sleep lasts the least number of ticks that makes up the milliseconds asked
\* for, also when the tick counter wraps during the sleep.
THEOREM SleepersWakeOnTime == TaskSpec => WakesOnTime
<1> DEFINE Step == \A t \in ToSet(sleep_list) :
                     LET n == Slept(t, sys_tick') IN
                     IF t \in ToSet(sleep_list')
                     THEN n * OS_TICK_MS < asked[t].ms
                     ELSE n * OS_TICK_MS >= asked[t].ms /\ (n - 1) * OS_TICK_MS < asked[t].ms
<1>1. TaskInv({}) /\ SleepersOK /\ [TaskNext]_taskVars => [Step]_sys_tick
  <2> SUFFICES ASSUME TaskInv({}), SleepersOK, [TaskNext]_taskVars, sys_tick' # sys_tick
               PROVE  Step
    OBVIOUS
  <2>1. do_handler_timer
    BY DEF TaskNext, TaskCall, taskVars, task_first_init, task_init, task_start,
           sys_yield, sys_msleep
  <2> QED
    BY <2>1, WakeStep
<1> QED
  BY <1>1, TaskInvariant, SleepersInvariant, PTL DEF TaskSpec, WakesOnTime

-----------------------------------------------------------------------------
(* Mutexes and semaphores *)

\* The types of the mutex and semaphore fields.
QueueTypes ==
  /\ owner \in [Mutexes -> Tasks \union {NoTask}]
  /\ locked_count \in [Mutexes -> Nat]
  /\ wait_list \in [Mutexes -> Seq(Tasks)]
  /\ count \in [Sems -> Nat]
  /\ sem_wait_list \in [Sems -> Seq(Tasks)]

\* A free mutex has no owner.  While boot code runs nobody owns or awaits a mutex;
\* afterwards a locked one has an owner.
OwnersOK ==
  /\ \A m \in Mutexes : locked_count[m] = 0 => owner[m] = NoTask
  /\ curr_task # NoTask => \A m \in Mutexes : locked_count[m] > 0 => owner[m] # NoTask
  /\ curr_task = NoTask => \A m \in Mutexes : owner[m] = NoTask /\ wait_list[m] = <<>>

IpcInv ==
  /\ TaskInv(Waiting)
  /\ QueueTypes
  /\ WaitsOnce
  /\ NoLostWakeup
  /\ OwnersOK

-----------------------------------------------------------------------------
(* Joining and leaving a wait list *)

\* A task that waits for nothing joins a mutex.
LEMMA MutexJoinLemma ==
  ASSUME QueueTypes, WaitsOnce, NEW t \in Tasks \ Waiting, NEW m \in Mutexes,
         wait_list' = [wait_list EXCEPT ![m] = Append(@, t)],
         sem_wait_list' = sem_wait_list
  PROVE  /\ wait_list' \in [Mutexes -> Seq(Tasks)]
         /\ WaitsOnce'
         /\ Waiting' = Waiting \union {t}
<1>1. /\ wait_list[m] \in Seq(Tasks) /\ NoDuplicates(wait_list[m])
      /\ t \notin ToSet(wait_list[m])
  BY DEF QueueTypes, WaitsOnce, Waiting
<1>2. /\ wait_list'[m] = Append(wait_list[m], t)
      /\ \A n \in Mutexes \ {m} : wait_list'[n] = wait_list[n]
  BY DEF QueueTypes
<1>3. /\ Append(wait_list[m], t) \in Seq(Tasks)
      /\ NoDuplicates(Append(wait_list[m], t))
      /\ ToSet(Append(wait_list[m], t)) = ToSet(wait_list[m]) \union {t}
  BY <1>1, AppendLemma
<1>4. wait_list' \in [Mutexes -> Seq(Tasks)]
  BY <1>3 DEF QueueTypes
<1>5. WaitsOnce'
  <2>1. /\ \A n \in Mutexes : t \notin ToSet(wait_list[n])
        /\ \A s \in Sems : t \notin ToSet(sem_wait_list[s])
    BY DEF Waiting
  <2>2. \A n \in Mutexes : NoDuplicates(wait_list'[n])
    BY <1>2, <1>3 DEF WaitsOnce
  <2>3. \A n \in Mutexes : n # m => ToSet(wait_list'[m]) \intersect ToSet(wait_list'[n]) = {}
    BY <1>2, <1>3, <2>1 DEF WaitsOnce
  <2>4. \A k, n \in Mutexes : k # n => ToSet(wait_list'[k]) \intersect ToSet(wait_list'[n]) = {}
    BY <1>2, <2>3 DEF WaitsOnce
  <2>5. \A n \in Mutexes, s \in Sems : ToSet(wait_list'[n]) \intersect ToSet(sem_wait_list[s]) = {}
    BY <1>2, <1>3, <2>1 DEF WaitsOnce
  <2> QED
    BY <2>2, <2>4, <2>5 DEF WaitsOnce
<1>6. Waiting' = Waiting \union {t}
  BY <1>2, <1>3 DEF Waiting
<1> QED
  BY <1>4, <1>5, <1>6

\* The first waiter of a mutex leaves it.
LEMMA MutexLeaveLemma ==
  ASSUME QueueTypes, WaitsOnce, NEW m \in Mutexes, wait_list[m] # <<>>,
         wait_list' = [wait_list EXCEPT ![m] = Tail(@)],
         sem_wait_list' = sem_wait_list
  PROVE  /\ wait_list' \in [Mutexes -> Seq(Tasks)]
         /\ Head(wait_list[m]) \in Waiting
         /\ WaitsOnce'
         /\ Waiting' = Waiting \ {Head(wait_list[m])}
<1>1. wait_list[m] \in Seq(Tasks) /\ NoDuplicates(wait_list[m])
  BY DEF QueueTypes, WaitsOnce
<1>2. /\ wait_list'[m] = Tail(wait_list[m])
      /\ \A n \in Mutexes \ {m} : wait_list'[n] = wait_list[n]
  BY DEF QueueTypes
<1>3. /\ Tail(wait_list[m]) \in Seq(Tasks)
      /\ NoDuplicates(Tail(wait_list[m]))
      /\ ToSet(Tail(wait_list[m])) = ToSet(wait_list[m]) \ {Head(wait_list[m])}
      /\ Head(wait_list[m]) \in Tasks /\ Head(wait_list[m]) \in ToSet(wait_list[m])
  BY <1>1, TailLemma
<1>4. wait_list' \in [Mutexes -> Seq(Tasks)]
  BY <1>3 DEF QueueTypes
<1>5. WaitsOnce'
  BY <1>2, <1>3 DEF WaitsOnce
<1>6. Waiting' = Waiting \ {Head(wait_list[m])}
  BY <1>2, <1>3 DEF Waiting, WaitsOnce
<1> QED
  BY <1>3, <1>4, <1>5, <1>6 DEF Waiting

\* A task that waits for nothing joins a semaphore.
LEMMA SemJoinLemma ==
  ASSUME QueueTypes, WaitsOnce, NEW t \in Tasks \ Waiting, NEW s \in Sems,
         sem_wait_list' = [sem_wait_list EXCEPT ![s] = Append(@, t)],
         wait_list' = wait_list
  PROVE  /\ sem_wait_list' \in [Sems -> Seq(Tasks)]
         /\ WaitsOnce'
         /\ Waiting' = Waiting \union {t}
<1>1. /\ sem_wait_list[s] \in Seq(Tasks) /\ NoDuplicates(sem_wait_list[s])
      /\ t \notin ToSet(sem_wait_list[s])
  BY DEF QueueTypes, WaitsOnce, Waiting
<1>2. /\ sem_wait_list'[s] = Append(sem_wait_list[s], t)
      /\ \A r \in Sems \ {s} : sem_wait_list'[r] = sem_wait_list[r]
  BY DEF QueueTypes
<1>3. /\ Append(sem_wait_list[s], t) \in Seq(Tasks)
      /\ NoDuplicates(Append(sem_wait_list[s], t))
      /\ ToSet(Append(sem_wait_list[s], t)) = ToSet(sem_wait_list[s]) \union {t}
  BY <1>1, AppendLemma
<1>4. sem_wait_list' \in [Sems -> Seq(Tasks)]
  BY <1>3 DEF QueueTypes
<1>5. WaitsOnce'
  <2>1. /\ \A n \in Mutexes : t \notin ToSet(wait_list[n])
        /\ \A r \in Sems : t \notin ToSet(sem_wait_list[r])
    BY DEF Waiting
  <2>2. \A r \in Sems : NoDuplicates(sem_wait_list'[r])
    BY <1>2, <1>3 DEF WaitsOnce
  <2>3. ASSUME NEW r \in Sems, r # s
        PROVE  ToSet(sem_wait_list'[s]) \intersect ToSet(sem_wait_list'[r]) = {}
    <3>1. ToSet(sem_wait_list[s]) \intersect ToSet(sem_wait_list[r]) = {}
      BY <2>3 DEF WaitsOnce
    <3>2. ToSet(sem_wait_list'[s]) = ToSet(sem_wait_list[s]) \union {t}
      BY <1>2, <1>3
    <3>3. sem_wait_list'[r] = sem_wait_list[r]
      BY <1>2, <2>3
    <3> QED
      BY <2>1, <3>1, <3>2, <3>3
  <2>4. \A q, r \in Sems : q # r => ToSet(sem_wait_list'[q]) \intersect ToSet(sem_wait_list'[r]) = {}
    BY <1>2, <2>3 DEF WaitsOnce
  <2>5. \A n \in Mutexes, r \in Sems : ToSet(wait_list[n]) \intersect ToSet(sem_wait_list'[r]) = {}
    BY <1>2, <1>3, <2>1 DEF WaitsOnce
  <2> QED
    BY <2>2, <2>4, <2>5 DEF WaitsOnce
<1>6. Waiting' = Waiting \union {t}
  BY <1>2, <1>3 DEF Waiting
<1> QED
  BY <1>4, <1>5, <1>6

\* The first waiter of a semaphore leaves it.
LEMMA SemLeaveLemma ==
  ASSUME QueueTypes, WaitsOnce, NEW s \in Sems, sem_wait_list[s] # <<>>,
         sem_wait_list' = [sem_wait_list EXCEPT ![s] = Tail(@)],
         wait_list' = wait_list
  PROVE  /\ sem_wait_list' \in [Sems -> Seq(Tasks)]
         /\ Head(sem_wait_list[s]) \in Waiting
         /\ WaitsOnce'
         /\ Waiting' = Waiting \ {Head(sem_wait_list[s])}
<1>1. sem_wait_list[s] \in Seq(Tasks) /\ NoDuplicates(sem_wait_list[s])
  BY DEF QueueTypes, WaitsOnce
<1>2. /\ sem_wait_list'[s] = Tail(sem_wait_list[s])
      /\ \A r \in Sems \ {s} : sem_wait_list'[r] = sem_wait_list[r]
  BY DEF QueueTypes
<1>3. /\ Tail(sem_wait_list[s]) \in Seq(Tasks)
      /\ NoDuplicates(Tail(sem_wait_list[s]))
      /\ ToSet(Tail(sem_wait_list[s])) = ToSet(sem_wait_list[s]) \ {Head(sem_wait_list[s])}
      /\ Head(sem_wait_list[s]) \in Tasks /\ Head(sem_wait_list[s]) \in ToSet(sem_wait_list[s])
  BY <1>1, TailLemma
<1>4. sem_wait_list' \in [Sems -> Seq(Tasks)]
  BY <1>3 DEF QueueTypes
<1>5. WaitsOnce'
  BY <1>2, <1>3 DEF WaitsOnce
<1>6. Waiting' = Waiting \ {Head(sem_wait_list[s])}
  <2> DEFINE first == Head(sem_wait_list[s])
  <2>1. /\ \A r \in Sems \ {s} : first \notin ToSet(sem_wait_list[r])
        /\ \A n \in Mutexes : first \notin ToSet(wait_list[n])
    BY <1>3 DEF WaitsOnce
  <2> HIDE DEF first
  <2>2. ToSet(sem_wait_list'[s]) = ToSet(sem_wait_list[s]) \ {first}
    BY <1>2, <1>3 DEF first
  <2>3. \A r \in Sems \ {s} : ToSet(sem_wait_list'[r]) = ToSet(sem_wait_list[r])
    BY <1>2
  <2>4. Waiting' = Waiting \ {first}
    BY <2>1, <2>2, <2>3 DEF Waiting
  <2> QED
    BY <2>4 DEF first
<1> QED
  BY <1>3, <1>4, <1>5, <1>6 DEF Waiting

-----------------------------------------------------------------------------
(* Every step preserves the invariant *)

\* Steps of the task manager alone: the owners stay ready, because a task makes
\* no system call inside a critical section.
LEMMA QuietLemma ==
  ASSUME IpcInv, UNCHANGED <<mutexVars, semVars>>, TaskInv(Waiting)', curr_task' # NoTask,
         \A m \in Mutexes : owner[m] # NoTask => owner[m] \in ToSet(ready_list'),
         curr_task = NoTask => \A m \in Mutexes : locked_count[m] = 0
  PROVE  IpcInv'
<1> USE DEF mutexVars, semVars
<1>1. QueueTypes' /\ WaitsOnce' /\ Waiting' = Waiting
  BY DEF IpcInv, QueueTypes, WaitsOnce, Waiting
<1>2. NoLostWakeup'
  BY DEF IpcInv, NoLostWakeup
<1>3. OwnersOK'
  BY DEF IpcInv, OwnersOK
<1> QED
  BY <1>1, <1>2, <1>3 DEF IpcInv

\* Starting the first task: the boot code holds no mutex any more.
LEMMA BootStep ==
  ASSUME IpcInv, Boot
  PROVE  IpcInv'
<1>1. task_first_init /\ UNCHANGED <<mutexVars, semVars>> /\ curr_task = NoTask
  BY DEF Boot, task_first_init
<1>2. PICK W : W = Waiting
  OBVIOUS
<1>3. TaskInv(W)
  BY <1>2 DEF IpcInv
<1>4. TaskInv(W)' /\ curr_task' # NoTask
  BY <1>1, <1>3, FirstInitStep
<1>5. Waiting' = W
  BY <1>1, <1>2 DEF Waiting, mutexVars, semVars
<1>6. TaskInv(Waiting)'
  BY <1>4, <1>5 DEF TaskInv, QueuesOK
<1>7. \A m \in Mutexes : owner[m] = NoTask /\ locked_count[m] = 0
  BY <1>1 DEF Boot, InSection, Holds, IpcInv, OwnersOK, QueueTypes
<1> QED
  BY <1>1, <1>4, <1>6, <1>7, QuietLemma

\* A system call of the task manager, made outside critical sections.
LEMMA TaskCallStep ==
  ASSUME IpcInv, NEW t \in Tasks, ~InSection(t), TaskCall(t), UNCHANGED <<mutexVars, semVars>>
  PROVE  IpcInv'
<1>1. PICK W : W = Waiting
  OBVIOUS
<1>2. TaskInv(W)
  BY <1>1 DEF IpcInv
<1>3. /\ TaskInv(W)' /\ curr_task' # NoTask
      /\ ToSet(ready_list) \ {t} \subseteq ToSet(ready_list')
  BY <1>2, TaskCallInv
<1>4. Waiting' = W
  BY <1>1 DEF Waiting, mutexVars, semVars
<1>5. TaskInv(Waiting)'
  BY <1>3, <1>4 DEF TaskInv, QueuesOK
<1>6. t = curr_task /\ curr_task # NoTask
  BY TaskAssumption DEF TaskCall, task_init, task_start, sys_yield, sys_msleep, MayCall
<1>7. \A m \in Mutexes : owner[m] # t
  <2> SUFFICES ASSUME NEW m \in Mutexes, owner[m] = t
               PROVE  FALSE
    OBVIOUS
  <2>1. locked_count[m] \in Nat /\ locked_count[m] # 0
    BY <1>6 DEF IpcInv, QueueTypes, OwnersOK
  <2> QED
    BY <2>1 DEF InSection, Holds
<1>8. \A m \in Mutexes : owner[m] # NoTask => owner[m] \in ToSet(ready_list')
  BY <1>3, <1>7 DEF IpcInv, NoLostWakeup
<1> QED
  BY <1>3, <1>5, <1>6, <1>8, QuietLemma

\* A tick: no ready task leaves the ready list.
LEMMA TickStep ==
  ASSUME IpcInv, Timer
  PROVE  IpcInv'
<1>1. PICK W : W = Waiting
  OBVIOUS
<1>2. TaskInv(W)
  BY <1>1 DEF IpcInv
<1>3. do_handler_timer /\ UNCHANGED <<mutexVars, semVars>> /\ curr_task # NoTask
  BY DEF Timer, do_handler_timer
<1>4. /\ TaskInv(W)' /\ curr_task' # NoTask
      /\ ToSet(ready_list) \subseteq ToSet(ready_list')
  BY <1>2, <1>3, TimerStep
<1>5. Waiting' = W
  BY <1>1, <1>3 DEF Waiting, mutexVars, semVars
<1>6. TaskInv(Waiting)'
  BY <1>4, <1>5 DEF TaskInv, QueuesOK
<1>7. \A m \in Mutexes : owner[m] # NoTask => owner[m] \in ToSet(ready_list')
  BY <1>4 DEF IpcInv, NoLostWakeup
<1> QED
  BY <1>3, <1>4, <1>6, <1>7, QuietLemma

\* Nothing of the task manager changes.
LEMMA SameTasksLemma ==
  ASSUME IpcInv, UNCHANGED <<taskVars, wait_list, sem_wait_list>>
  PROVE  TaskInv(Waiting)' /\ WaitsOnce'
<1>1. PICK W : W = Waiting
  OBVIOUS
<1>2. TaskInv(W) /\ [TaskNext]_taskVars
  BY <1>1 DEF IpcInv
<1>3. TaskInv(W)'
  BY <1>2, TaskNextInv
<1>4. Waiting' = W
  BY <1>1 DEF Waiting
<1>5. WaitsOnce'
  BY DEF IpcInv, WaitsOnce
<1> QED
  BY <1>3, <1>4, <1>5 DEF TaskInv, QueuesOK

\* mutex_lock of a mutex that is free or the caller's own.
LEMMA TakeStep ==
  ASSUME IpcInv, NEW t \in Tasks \union {NoTask}, NEW m \in Mutexes,
         mutex_lock_take(t, m), UNCHANGED semVars
  PROVE  IpcInv'
<1>1. /\ t = curr_task
      /\ locked_count[m] = 0 \/ (owner[m] = t /\ t # NoTask)
      /\ locked_count' = [locked_count EXCEPT ![m] = @ + 1]
      /\ owner' = [owner EXCEPT ![m] = t]
      /\ UNCHANGED <<taskVars, wait_list, count, sem_wait_list>>
  BY DEF mutex_lock_take, MayLock, semVars
<1>2. UNCHANGED <<curr_task, ready_list>>
  BY <1>1 DEF taskVars
<1>3. QueueTypes /\ OwnersOK /\ NoLostWakeup /\ TaskInv(Waiting)
  BY DEF IpcInv
<1>4. TaskInv(Waiting)' /\ WaitsOnce'
  BY <1>1, SameTasksLemma
<1>5. QueueTypes'
  BY <1>1, <1>3 DEF QueueTypes
<1>6. /\ owner'[m] = t /\ locked_count'[m] = locked_count[m] + 1 /\ locked_count[m] \in Nat
      /\ \A n \in Mutexes \ {m} : owner'[n] = owner[n] /\ locked_count'[n] = locked_count[n]
  BY <1>1, <1>3 DEF QueueTypes
<1>7. t # NoTask => t \in ToSet(ready_list)
  <2> SUFFICES ASSUME t # NoTask PROVE t \in ToSet(ready_list)
    OBVIOUS
  <2>1. PICK W : W = Waiting
    OBVIOUS
  <2>2. TaskInv(W) /\ t \in Tasks
    BY <1>3, <2>1
  <2> QED
    BY <1>1, <2>2, RunnerLemma
<1>8. NoLostWakeup'
  BY <1>1, <1>2, <1>3, <1>6, <1>7 DEF NoLostWakeup
<1>9. OwnersOK'
  BY <1>1, <1>2, <1>3, <1>6 DEF OwnersOK
<1> QED
  BY <1>4, <1>5, <1>8, <1>9 DEF IpcInv

\* mutex_lock of another task's mutex: the caller owns none, so every owner
\* stays ready.
LEMMA WaitStep ==
  ASSUME IpcInv, NEW t \in Tasks \union {NoTask}, NEW m \in Mutexes,
         mutex_lock_wait(t, m), UNCHANGED semVars
  PROVE  IpcInv'
<1>1. /\ t = curr_task /\ locked_count[m] # 0 /\ t # NoTask /\ t \in Tasks
      /\ ~(owner[m] = t)
      /\ \A n \in Mutexes \ {m} : ~Holds(t, n)
      /\ wait_list' = [wait_list EXCEPT ![m] = Append(@, t)]
      /\ task_dispatch(task_set_block(ready_list, t), state)
      /\ UNCHANGED <<owner, locked_count, count, sem_wait_list>>
      /\ UNCHANGED <<sleep_list, task_list, sleep_ticks, slice_ticks, sys_tick, starting, asked>>
  BY DEF mutex_lock_wait, MayLock, semVars
<1>2. QueueTypes /\ OwnersOK /\ NoLostWakeup /\ WaitsOnce
  BY DEF IpcInv
<1>3. PICK W : W = Waiting
  OBVIOUS
<1>4. TaskInv(W)
  BY <1>3 DEF IpcInv
<1>5. t \notin Waiting
  BY <1>1, <1>3, <1>4, RunnerLemma
<1>6. /\ TaskInv(W \union {t})'
      /\ ToSet(ready_list') = ToSet(ready_list) \ {t} /\ curr_task' # NoTask
  BY <1>1, <1>4, BlockLemma
<1>7. /\ wait_list' \in [Mutexes -> Seq(Tasks)]
      /\ WaitsOnce'
      /\ Waiting' = W \union {t}
  BY <1>1, <1>2, <1>3, <1>5, MutexJoinLemma
<1>8. TaskInv(Waiting)'
  BY <1>6, <1>7 DEF TaskInv, QueuesOK
<1>9. \A n \in Mutexes : owner[n] # t
  <2> SUFFICES ASSUME NEW n \in Mutexes, owner[n] = t
               PROVE  FALSE
    OBVIOUS
  <2>1. locked_count[n] \in Nat /\ locked_count[n] # 0 /\ n # m
    BY <1>1, <1>2 DEF QueueTypes, OwnersOK
  <2> QED
    BY <1>1, <2>1 DEF Holds
<1>10. \A n \in Mutexes \ {m} : wait_list'[n] = wait_list[n]
  BY <1>1, <1>2 DEF QueueTypes
<1>11. locked_count[m] > 0
  BY <1>1, <1>2 DEF QueueTypes
<1>12. NoLostWakeup'
  BY <1>1, <1>2, <1>6, <1>9, <1>10, <1>11 DEF NoLostWakeup
<1>13. OwnersOK'
  BY <1>1, <1>2, <1>6 DEF OwnersOK
<1>14. QueueTypes'
  BY <1>1, <1>2, <1>7 DEF QueueTypes
<1> QED
  BY <1>7, <1>8, <1>12, <1>13, <1>14 DEF IpcInv

\* mutex_unlock that hands nothing over.
LEMMA FreeStep ==
  ASSUME IpcInv, NEW t \in Tasks \union {NoTask}, NEW m \in Mutexes,
         mutex_unlock_free(t, m), UNCHANGED semVars
  PROVE  IpcInv'
<1>1. /\ t = curr_task /\ locked_count[m] > 0 /\ owner[m] = t
      /\ locked_count[m] > 1 \/ wait_list[m] = <<>>
      /\ locked_count' = [locked_count EXCEPT ![m] = @ - 1]
      /\ owner' = [owner EXCEPT ![m] = IF locked_count[m] = 1 THEN NoTask ELSE @]
      /\ UNCHANGED <<taskVars, wait_list, count, sem_wait_list>>
  BY DEF mutex_unlock_free, Holds, semVars
<1>2. UNCHANGED <<curr_task, ready_list>>
  BY <1>1 DEF taskVars
<1>3. QueueTypes /\ OwnersOK /\ NoLostWakeup
  BY DEF IpcInv
<1>4. TaskInv(Waiting)' /\ WaitsOnce'
  BY <1>1, SameTasksLemma
<1>5. /\ locked_count[m] \in Nat /\ locked_count[m] - 1 \in Nat
      /\ locked_count'[m] = locked_count[m] - 1
      /\ owner'[m] = IF locked_count[m] = 1 THEN NoTask ELSE owner[m]
      /\ \A n \in Mutexes \ {m} : owner'[n] = owner[n] /\ locked_count'[n] = locked_count[n]
  BY <1>1, <1>3 DEF QueueTypes
<1>6. QueueTypes'
  BY <1>1, <1>3, <1>5 DEF QueueTypes
<1>7. NoLostWakeup'
  BY <1>1, <1>2, <1>3, <1>5 DEF NoLostWakeup
<1>8. OwnersOK'
  BY <1>1, <1>2, <1>3, <1>5 DEF OwnersOK
<1> QED
  BY <1>4, <1>6, <1>7, <1>8 DEF IpcInv

\* mutex_unlock with a waiter: the new owner is ready when it becomes the owner.
LEMMA HandoverStep ==
  ASSUME IpcInv, NEW t \in Tasks \union {NoTask}, NEW m \in Mutexes,
         mutex_unlock_handover(t, m), UNCHANGED semVars
  PROVE  IpcInv'
<1> DEFINE next == Head(wait_list[m])
<1>1. /\ wait_list[m] # <<>>
      /\ wait_list' = [wait_list EXCEPT ![m] = Tail(@)]
      /\ locked_count' = [locked_count EXCEPT ![m] = 1]
      /\ owner' = [owner EXCEPT ![m] = next]
      /\ task_dispatch(task_set_ready(ready_list, next), MarkReady(state, {next}))
      /\ UNCHANGED <<count, sem_wait_list>>
      /\ UNCHANGED <<sleep_list, task_list, sleep_ticks, slice_ticks, sys_tick, starting, asked>>
  BY DEF mutex_unlock_handover, semVars
<1>2. QueueTypes /\ OwnersOK /\ NoLostWakeup /\ WaitsOnce
  BY DEF IpcInv
<1>3. PICK W : W = Waiting
  OBVIOUS
<1>4. TaskInv(W)
  BY <1>3 DEF IpcInv
<1>5. /\ wait_list' \in [Mutexes -> Seq(Tasks)]
      /\ next \in W
      /\ WaitsOnce'
      /\ Waiting' = W \ {next}
  BY <1>1, <1>2, <1>3, MutexLeaveLemma
<1>6. next \in Tasks /\ next # NoTask
  BY <1>3, <1>5, TaskAssumption DEF Waiting
<1>7. curr_task # NoTask
  BY <1>1, <1>2 DEF OwnersOK
<1> HIDE DEF next
<1>14. PICK u : u = next
  OBVIOUS
<1>8. /\ TaskInv(W \ {u})'
      /\ ToSet(ready_list') = ToSet(ready_list) \union {u} /\ curr_task' # NoTask
  <2>1. /\ u \in W /\ u \in Tasks
        /\ task_dispatch(task_set_ready(ready_list, u), MarkReady(state, {u}))
    BY <1>1, <1>5, <1>6, <1>14
  <2> QED
    BY <1>1, <1>4, <1>7, <2>1, WakeLemma
<1>9. TaskInv(Waiting)'
  BY <1>5, <1>8, <1>14 DEF TaskInv, QueuesOK
<1>10. /\ owner'[m] = next /\ locked_count'[m] = 1
       /\ \A n \in Mutexes \ {m} : /\ owner'[n] = owner[n] /\ locked_count'[n] = locked_count[n]
                                   /\ wait_list'[n] = wait_list[n]
  BY <1>1, <1>2 DEF QueueTypes
<1>11. QueueTypes'
  BY <1>1, <1>2, <1>5, <1>6 DEF QueueTypes
<1>12. NoLostWakeup'
  BY <1>1, <1>2, <1>8, <1>10, <1>14 DEF NoLostWakeup
<1>13. OwnersOK'
  BY <1>2, <1>6, <1>7, <1>8, <1>10 DEF OwnersOK
<1> QED
  BY <1>5, <1>9, <1>11, <1>12, <1>13 DEF IpcInv

\* sem_wait that takes a permit, and sem_notify that leaves one.
LEMMA CountStep ==
  ASSUME IpcInv, NEW t \in Tasks, NEW s \in Sems,
         sem_wait_take(t, s) \/ sem_notify_count(t, s), UNCHANGED mutexVars
  PROVE  IpcInv'
<1>1. UNCHANGED <<taskVars, sem_wait_list, owner, locked_count, wait_list>>
  BY DEF sem_wait_take, sem_notify_count, mutexVars
<1>2. QueueTypes /\ OwnersOK /\ NoLostWakeup
  BY DEF IpcInv
<1>3. TaskInv(Waiting)' /\ WaitsOnce'
  BY <1>1, SameTasksLemma
<1>4. UNCHANGED <<curr_task, ready_list>>
  BY <1>1 DEF taskVars
<1>5. /\ count' \in [Sems -> Nat]
      /\ \A r \in Sems : sem_wait_list[r] # <<>> => count'[r] = 0
  <2>1. CASE sem_wait_take(t, s)
    <3>1. count[s] > 0 /\ count' = [count EXCEPT ![s] = @ - 1]
      BY <2>1 DEF sem_wait_take
    <3>2. count[s] \in Nat /\ count[s] - 1 \in Nat
      BY <1>2, <3>1 DEF QueueTypes
    <3> QED
      BY <1>2, <3>1, <3>2 DEF QueueTypes, NoLostWakeup
  <2>2. CASE sem_notify_count(t, s)
    <3>1. sem_wait_list[s] = <<>> /\ count' = [count EXCEPT ![s] = @ + 1]
      BY <2>2 DEF sem_notify_count
    <3> QED
      BY <1>2, <3>1 DEF QueueTypes, NoLostWakeup
  <2> QED
    BY <2>1, <2>2
<1>6. QueueTypes' /\ NoLostWakeup' /\ OwnersOK'
  BY <1>1, <1>2, <1>4, <1>5 DEF QueueTypes, NoLostWakeup, OwnersOK
<1> QED
  BY <1>3, <1>6 DEF IpcInv

\* sem_wait that blocks, outside critical sections.
LEMMA SemBlockStep ==
  ASSUME IpcInv, NEW t \in Tasks, ~InSection(t), NEW s \in Sems,
         sem_wait_block(t, s), UNCHANGED mutexVars
  PROVE  IpcInv'
<1>1. /\ t = curr_task /\ ~(count[s] > 0) /\ t # NoTask
      /\ sem_wait_list' = [sem_wait_list EXCEPT ![s] = Append(@, t)]
      /\ task_dispatch(task_set_block(ready_list, t), state)
      /\ UNCHANGED <<owner, locked_count, wait_list, count>>
      /\ UNCHANGED <<sleep_list, task_list, sleep_ticks, slice_ticks, sys_tick, starting, asked>>
  BY TaskAssumption DEF sem_wait_block, mutexVars
<1>2. QueueTypes /\ OwnersOK /\ NoLostWakeup /\ WaitsOnce
  BY DEF IpcInv
<1>3. PICK W : W = Waiting
  OBVIOUS
<1>4. TaskInv(W)
  BY <1>3 DEF IpcInv
<1>5. t \notin Waiting
  BY <1>1, <1>3, <1>4, RunnerLemma
<1>6. /\ TaskInv(W \union {t})'
      /\ ToSet(ready_list') = ToSet(ready_list) \ {t} /\ curr_task' # NoTask
  BY <1>1, <1>4, BlockLemma
<1>7. /\ sem_wait_list' \in [Sems -> Seq(Tasks)]
      /\ WaitsOnce'
      /\ Waiting' = W \union {t}
  BY <1>1, <1>2, <1>3, <1>5, SemJoinLemma
<1>8. TaskInv(Waiting)'
  BY <1>6, <1>7 DEF TaskInv, QueuesOK
<1>9. \A n \in Mutexes : owner[n] # t
  <2> SUFFICES ASSUME NEW n \in Mutexes, owner[n] = t
               PROVE  FALSE
    OBVIOUS
  <2>1. locked_count[n] \in Nat /\ locked_count[n] # 0
    BY <1>1, <1>2 DEF QueueTypes, OwnersOK
  <2> QED
    BY <2>1 DEF InSection, Holds
<1>10. count[s] = 0 /\ \A r \in Sems \ {s} : sem_wait_list'[r] = sem_wait_list[r]
  BY <1>1, <1>2 DEF QueueTypes
<1>11. NoLostWakeup'
  BY <1>1, <1>2, <1>6, <1>9, <1>10 DEF NoLostWakeup
<1>12. OwnersOK' /\ QueueTypes'
  BY <1>1, <1>2, <1>6, <1>7 DEF OwnersOK, QueueTypes
<1> QED
  BY <1>7, <1>8, <1>11, <1>12 DEF IpcInv

\* sem_notify with a waiter.
LEMMA SemWakeStep ==
  ASSUME IpcInv, NEW t \in Tasks, NEW s \in Sems,
         sem_notify_wake(t, s), UNCHANGED mutexVars
  PROVE  IpcInv'
<1> DEFINE next == Head(sem_wait_list[s])
<1>1. /\ sem_wait_list[s] # <<>> /\ curr_task # NoTask
      /\ sem_wait_list' = [sem_wait_list EXCEPT ![s] = Tail(@)]
      /\ task_dispatch(task_set_ready(ready_list, next), MarkReady(state, {next}))
      /\ UNCHANGED <<owner, locked_count, wait_list, count>>
      /\ UNCHANGED <<sleep_list, task_list, sleep_ticks, slice_ticks, sys_tick, starting, asked>>
  BY TaskAssumption DEF sem_notify_wake, mutexVars
<1>2. QueueTypes /\ OwnersOK /\ NoLostWakeup /\ WaitsOnce
  BY DEF IpcInv
<1>3. PICK W : W = Waiting
  OBVIOUS
<1>4. TaskInv(W)
  BY <1>3 DEF IpcInv
<1>5. /\ sem_wait_list' \in [Sems -> Seq(Tasks)]
      /\ next \in W
      /\ WaitsOnce'
      /\ Waiting' = W \ {next}
  BY <1>1, <1>2, <1>3, SemLeaveLemma
<1> HIDE DEF next
<1>6. PICK u : u = next
  OBVIOUS
<1>7. /\ TaskInv(W \ {u})'
      /\ ToSet(ready_list') = ToSet(ready_list) \union {u} /\ curr_task' # NoTask
  <2>1. /\ u \in W /\ u \in Tasks
        /\ task_dispatch(task_set_ready(ready_list, u), MarkReady(state, {u}))
    BY <1>1, <1>3, <1>5, <1>6 DEF Waiting
  <2> QED
    BY <1>1, <1>4, <2>1, WakeLemma
<1>8. TaskInv(Waiting)'
  BY <1>5, <1>6, <1>7 DEF TaskInv, QueuesOK
<1>9. \A r \in Sems \ {s} : sem_wait_list'[r] = sem_wait_list[r]
  BY <1>1, <1>2 DEF QueueTypes
<1>10. NoLostWakeup'
  BY <1>1, <1>2, <1>7, <1>9 DEF NoLostWakeup
<1>11. OwnersOK' /\ QueueTypes'
  BY <1>1, <1>2, <1>5, <1>7 DEF OwnersOK, QueueTypes
<1> QED
  BY <1>5, <1>8, <1>10, <1>11 DEF IpcInv

-----------------------------------------------------------------------------
(* The invariant and what follows from it *)

\* The kernel boots with every mutex and semaphore free.
LEMMA IpcInitInv == IpcInit => IpcInv
<1> SUFFICES ASSUME IpcInit PROVE IpcInv
  OBVIOUS
<1>1. /\ owner = [m \in Mutexes |-> NoTask] /\ locked_count = [m \in Mutexes |-> 0]
      /\ wait_list = [m \in Mutexes |-> <<>>]
      /\ count = [s \in Sems |-> 0] /\ sem_wait_list = [s \in Sems |-> <<>>]
      /\ TaskInit
  BY DEF IpcInit, MutexInit, SemInit
<1>2. ToSet(<<>>) = {} /\ NoDuplicates(<<>>)
  BY DEF ToSet, NoDuplicates
<1>3. QueueTypes /\ WaitsOnce /\ Waiting = {}
  BY <1>1, <1>2 DEF QueueTypes, WaitsOnce, Waiting
<1>4. TaskInv(Waiting)
  BY <1>1, <1>3, TaskInitInv
<1>5. NoLostWakeup /\ OwnersOK
  BY <1>1 DEF NoLostWakeup, OwnersOK
<1> QED
  BY <1>3, <1>4, <1>5 DEF IpcInv

\* No step of the kernel, and no stuttering step, disturbs it.
LEMMA IpcNextInv == IpcInv /\ [IpcNext]_ipcVars => IpcInv'
<1> SUFFICES ASSUME IpcInv, [IpcNext]_ipcVars PROVE IpcInv'
  OBVIOUS
<1>1. CASE Boot
  BY <1>1, BootStep
<1>2. ASSUME NEW t \in Tasks, SystemCall(t)
      PROVE  IpcInv'
  <2>1. CASE TaskCall(t) /\ UNCHANGED <<mutexVars, semVars>>
    BY <1>2, <2>1, TaskCallStep DEF SystemCall
  <2>2. ASSUME NEW s \in Sems, sem_wait(t, s) \/ sem_notify(t, s), UNCHANGED mutexVars
        PROVE  IpcInv'
    BY <1>2, <2>2, CountStep, SemBlockStep, SemWakeStep DEF SystemCall, sem_wait, sem_notify
  <2> QED
    BY <1>2, <2>1, <2>2 DEF SystemCall
<1>3. ASSUME NEW t \in Tasks \union {NoTask}, LockStep(t)
      PROVE  IpcInv'
  <2>1. PICK m \in Mutexes : (mutex_lock(t, m) \/ mutex_unlock(t, m)) /\ UNCHANGED semVars
    BY <1>3 DEF LockStep
  <2> QED
    BY <2>1, TakeStep, WaitStep, FreeStep, HandoverStep DEF mutex_lock, mutex_unlock
<1>4. CASE Timer
  BY <1>4, TickStep
<1>5. CASE UNCHANGED ipcVars
  <2>1. UNCHANGED <<taskVars, wait_list, sem_wait_list, owner, locked_count, count>>
    BY <1>5 DEF ipcVars, mutexVars, semVars
  <2>2. TaskInv(Waiting)' /\ WaitsOnce'
    BY <2>1, SameTasksLemma
  <2>3. UNCHANGED <<curr_task, ready_list>>
    BY <2>1 DEF taskVars
  <2>4. QueueTypes' /\ NoLostWakeup' /\ OwnersOK'
    BY <2>1, <2>3 DEF IpcInv, QueueTypes, NoLostWakeup, OwnersOK
  <2> QED
    BY <2>2, <2>4 DEF IpcInv
<1> QED
  BY <1>1, <1>2, <1>3, <1>4, <1>5 DEF IpcNext

\* In every reachable state of the kernel, with any number of tasks, mutexes and
\* semaphores, the inductive invariant holds.
THEOREM IpcInvariant == IpcSpec => []IpcInv
BY IpcInitInv, IpcNextInv, PTL DEF IpcSpec

\* All fields of the composed kernel keep their types.
THEOREM IpcTypes == IpcSpec => []IpcTypeOK
<1>1. IpcInv => IpcTypeOK
  BY DEF IpcInv, TaskInv, QueueTypes, IpcTypeOK
<1> QED
  BY <1>1, IpcInvariant, PTL

\* Every started task is, exactly once, ready, asleep or waiting for one mutex or
\* one semaphore.
THEOREM IpcTasksAreKept == IpcSpec => []NoTaskLostInIpc
<1>1. IpcInv => NoTaskLostInIpc
  BY DEF IpcInv, TaskInv, NoTaskLostInIpc
<1> QED
  BY <1>1, IpcInvariant, PTL

\* Tasks wait only for locked mutexes, whose owners are ready to run, and for
\* semaphores without permits.
THEOREM NoWakeupIsLost == IpcSpec => []NoLostWakeup
<1>1. IpcInv => NoLostWakeup
  BY DEF IpcInv
<1> QED
  BY <1>1, IpcInvariant, PTL

\* Once a task runs, a mutex is locked exactly when it has an owner.
THEOREM LockedMutexesAreOwned == IpcSpec => []OwnerIffLocked
<1>1. IpcInv => OwnerIffLocked
  BY DEF IpcInv, OwnersOK, QueueTypes, OwnerIffLocked
<1> QED
  BY <1>1, IpcInvariant, PTL

\* Only the running owner's last unlock takes a mutex from it, and the mutex goes
\* to the first waiter.
THEOREM OwnersReleaseThemselves == IpcSpec => OnlyOwnerReleases
<1> DEFINE Step ==
      \A m \in Mutexes :
        locked_count[m] > 0 /\ (owner'[m] # owner[m] \/ locked_count'[m] < locked_count[m]) =>
          /\ curr_task = owner[m]
          /\ wait_list[m] # <<>> => locked_count'[m] > 0
          /\ owner'[m] # owner[m] /\ wait_list[m] # <<>> => owner'[m] = wait_list[m][1]
<1>1. IpcInv /\ [IpcNext]_ipcVars => Step
  <2> SUFFICES ASSUME IpcInv, [IpcNext]_ipcVars, NEW m \in Mutexes, locked_count[m] > 0,
                      owner'[m] # owner[m] \/ locked_count'[m] < locked_count[m]
               PROVE  /\ curr_task = owner[m]
                      /\ wait_list[m] # <<>> => locked_count'[m] > 0
                      /\ owner'[m] # owner[m] /\ wait_list[m] # <<>> => owner'[m] = wait_list[m][1]
    OBVIOUS
  <2>1. QueueTypes /\ locked_count[m] \in Nat
    BY DEF IpcInv, QueueTypes
  <2>2. PICK t \in Tasks \union {NoTask}, n \in Mutexes : mutex_lock(t, n) \/ mutex_unlock(t, n)
    <3>1. ~UNCHANGED <<owner, locked_count>>
      BY <2>1
    <3>2. ~Boot /\ ~Timer /\ ~UNCHANGED ipcVars /\ \A t \in Tasks : ~SystemCall(t)
      BY <3>1 DEF Boot, Timer, SystemCall, ipcVars, mutexVars
    <3> QED
      BY <3>2 DEF IpcNext, LockStep
  <2>3. CASE mutex_lock_take(t, n)
    <3>1. /\ locked_count[n] = 0 \/ owner[n] = t
          /\ locked_count' = [locked_count EXCEPT ![n] = @ + 1]
          /\ owner' = [owner EXCEPT ![n] = t]
      BY <2>3 DEF mutex_lock_take
    <3> QED
      BY <2>1, <3>1 DEF QueueTypes
  <2>4. CASE mutex_lock_wait(t, n)
    BY <2>1, <2>4 DEF mutex_lock_wait
  <2>5. CASE mutex_unlock_free(t, n)
    <3>1. /\ t = curr_task /\ owner[n] = t
          /\ locked_count[n] > 1 \/ wait_list[n] = <<>>
          /\ locked_count' = [locked_count EXCEPT ![n] = @ - 1]
          /\ owner' = [owner EXCEPT ![n] = IF locked_count[n] = 1 THEN NoTask ELSE @]
      BY <2>5 DEF mutex_unlock_free, Holds
    <3>2. n = m
      BY <2>1, <3>1 DEF QueueTypes
    <3> QED
      BY <2>1, <3>1, <3>2 DEF QueueTypes
  <2>6. CASE mutex_unlock_handover(t, n)
    <3>1. /\ t = curr_task /\ owner[n] = t
          /\ locked_count' = [locked_count EXCEPT ![n] = 1]
          /\ owner' = [owner EXCEPT ![n] = Head(wait_list[n])]
      BY <2>6 DEF mutex_unlock_handover, Holds
    <3>2. n = m /\ wait_list[m] \in Seq(Tasks)
      BY <2>1, <3>1 DEF QueueTypes
    <3>3. wait_list[m] # <<>> => Head(wait_list[m]) = wait_list[m][1]
      BY <3>2
    <3> QED
      BY <2>1, <3>1, <3>2, <3>3 DEF QueueTypes
  <2> QED
    BY <2>2, <2>3, <2>4, <2>5, <2>6 DEF mutex_lock, mutex_unlock
<1>2. IpcInv /\ [IpcNext]_ipcVars => [Step]_ipcVars
  BY <1>1
<1> QED
  BY <1>2, IpcInvariant, PTL DEF IpcSpec, OnlyOwnerReleases

-----------------------------------------------------------------------------
(* The refinements *)

\* A step of one task at one mutex, as the abstract lock m sees it.
LEMMA LockStepLemma ==
  ASSUME IpcInv, NEW t \in Tasks \union {NoTask}, NEW n \in Mutexes,
         mutex_lock(t, n) \/ mutex_unlock(t, n), NEW m \in Mutexes
  PROVE  Lock(m)!Next \/ UNCHANGED Lock(m)!lockVars
<1>1. /\ QueueTypes
      /\ locked_count[m] \in Nat /\ wait_list[m] \in Seq(Tasks)
      /\ locked_count[n] \in Nat /\ wait_list[n] \in Seq(Tasks)
  BY DEF IpcInv, QueueTypes
<1>2. CASE n # m
  <2>1. owner'[m] = owner[m] /\ locked_count'[m] = locked_count[m] /\ wait_list'[m] = wait_list[m]
    BY <1>1, <1>2 DEF mutex_lock, mutex_unlock, mutex_lock_take, mutex_lock_wait,
                      mutex_unlock_free, mutex_unlock_handover, QueueTypes
  <2> QED
    BY <2>1 DEF Lock!lockVars
<1>3. CASE n = m /\ mutex_lock_take(t, n)
  <2>1. /\ locked_count[m] = 0 \/ owner[m] = t
        /\ owner'[m] = t /\ locked_count'[m] = locked_count[m] + 1
        /\ wait_list'[m] = wait_list[m]
    BY <1>1, <1>3 DEF mutex_lock_take, QueueTypes
  <2>2. Lock(m)!Take(t)
    BY <2>1 DEF Lock!Take
  <2> QED
    BY <2>2 DEF Lock!Next
<1>4. CASE n = m /\ mutex_lock_wait(t, n)
  <2>1. /\ t = curr_task /\ locked_count[m] # 0 /\ t # NoTask /\ owner[m] # t
        /\ wait_list' = [wait_list EXCEPT ![m] = Append(@, t)]
        /\ UNCHANGED <<owner, locked_count>>
    BY <1>4 DEF mutex_lock_wait, MayLock
  <2>2. t \notin Waiting
    BY <2>1, RunnerLemma DEF IpcInv
  <2>3. \A i \in DOMAIN wait_list[m] : wait_list[m][i] # t
    BY <2>1, <2>2 DEF Waiting, ToSet
  <2>4. Lock(m)!Enqueue(t)
    BY <1>1, <2>1, <2>3 DEF Lock!Enqueue, QueueTypes
  <2> QED
    BY <2>4 DEF Lock!Next
<1>5. CASE n = m /\ mutex_unlock_free(t, n)
  <2>1. /\ locked_count[m] > 0 /\ owner[m] = t
        /\ locked_count[m] > 1 \/ wait_list[m] = <<>>
        /\ locked_count'[m] = locked_count[m] - 1
        /\ owner'[m] = IF locked_count[m] = 1 THEN NoTask ELSE t
        /\ wait_list'[m] = wait_list[m]
    BY <1>1, <1>5 DEF mutex_unlock_free, Holds, QueueTypes
  <2>2. CASE locked_count[m] > 1
    <3>1. Lock(m)!LeaveInner(t)
      BY <1>1, <2>1, <2>2 DEF Lock!LeaveInner
    <3> QED
      BY <3>1 DEF Lock!Next
  <2>3. CASE locked_count[m] = 1
    <3>1. Lock(m)!Release(t)
      BY <1>1, <2>1, <2>3 DEF Lock!Release
    <3> QED
      BY <3>1 DEF Lock!Next
  <2> QED
    BY <1>1, <2>1, <2>2, <2>3
<1>6. CASE n = m /\ mutex_unlock_handover(t, n)
  <2>1. /\ locked_count[m] = 1 /\ owner[m] = t /\ wait_list[m] # <<>>
        /\ wait_list'[m] = Tail(wait_list[m])
        /\ locked_count'[m] = 1 /\ owner'[m] = Head(wait_list[m])
    BY <1>1, <1>6 DEF mutex_unlock_handover, Holds, QueueTypes
  <2>2. Lock(m)!Release(t)
    BY <2>1 DEF Lock!Release
  <2> QED
    BY <2>2 DEF Lock!Next
<1> QED
  BY <1>2, <1>3, <1>4, <1>5, <1>6 DEF mutex_lock, mutex_unlock

\* Every mutex, on top of the scheduler, is an abstract lock: each step of the kernel
\* is one of the lock's or leaves it alone.
THEOREM MutexesImplementLocks == IpcSpec => ImplementsLock
<1>1. IpcInit => \A m \in Mutexes : Lock(m)!Init
  BY DEF IpcInit, MutexInit, Lock!Init
<1>2. ASSUME IpcInv, [IpcNext]_ipcVars
      PROVE  \A m \in Mutexes : Lock(m)!Next \/ UNCHANGED Lock(m)!lockVars
  <2>1. CASE \E t \in Tasks \union {NoTask} : LockStep(t)
    BY <1>2, <2>1, LockStepLemma DEF LockStep
  <2>2. CASE ~\E t \in Tasks \union {NoTask} : LockStep(t)
    <3>1. UNCHANGED mutexVars
      BY <1>2, <2>2 DEF IpcNext, Boot, SystemCall, Timer, ipcVars
    <3> QED
      BY <3>1 DEF mutexVars, Lock!lockVars
  <2> QED
    BY <2>1, <2>2
<1>3. IpcInv /\ [IpcNext]_ipcVars =>
        [\A m \in Mutexes : Lock(m)!Next \/ UNCHANGED Lock(m)!lockVars]_ipcVars
  BY <1>2
<1> QED
  BY <1>1, <1>3, IpcInvariant, PTL DEF IpcSpec, ImplementsLock

\* A step of one task at one semaphore, as the abstract semaphore s sees it.
LEMMA SemStepLemma ==
  ASSUME IpcInv, NEW t \in Tasks, NEW r \in Sems, sem_wait(t, r) \/ sem_notify(t, r),
         NEW s \in Sems
  PROVE  Semaphore(s)!Next \/ UNCHANGED Semaphore(s)!semVars
<1>1. /\ QueueTypes
      /\ count[s] \in Nat /\ sem_wait_list[s] \in Seq(Tasks)
      /\ sem_wait_list[s] # <<>> => count[s] = 0
  BY DEF IpcInv, QueueTypes, NoLostWakeup
<1>2. CASE r # s
  <2>1. count'[s] = count[s] /\ sem_wait_list'[s] = sem_wait_list[s]
    BY <1>1, <1>2 DEF sem_wait, sem_notify, sem_wait_take, sem_wait_block,
                      sem_notify_wake, sem_notify_count, QueueTypes
  <2> QED
    BY <2>1 DEF Semaphore!semVars
<1>3. CASE r = s /\ sem_wait_take(t, r)
  <2>1. Semaphore(s)!Pass
    BY <1>1, <1>3 DEF sem_wait_take, Semaphore!Pass, QueueTypes
  <2> QED
    BY <2>1 DEF Semaphore!Next
<1>4. CASE r = s /\ sem_wait_block(t, r)
  <2>1. /\ t = curr_task /\ count[s] = 0
        /\ sem_wait_list' = [sem_wait_list EXCEPT ![s] = Append(@, t)]
        /\ UNCHANGED count
    BY <1>1, <1>4 DEF sem_wait_block
  <2>2. t \notin Waiting
    BY <2>1, RunnerLemma DEF IpcInv
  <2>3. \A i \in DOMAIN sem_wait_list[s] : sem_wait_list[s][i] # t
    BY <2>2 DEF Waiting, ToSet
  <2>4. Semaphore(s)!Enqueue(t)
    BY <1>1, <2>1, <2>3 DEF Semaphore!Enqueue, QueueTypes
  <2> QED
    BY <2>4 DEF Semaphore!Next
<1>5. CASE r = s /\ (sem_notify_wake(t, r) \/ sem_notify_count(t, r))
  <2>1. Semaphore(s)!Notify
    BY <1>1, <1>5 DEF sem_notify_wake, sem_notify_count, Semaphore!Notify, QueueTypes
  <2> QED
    BY <2>1 DEF Semaphore!Next
<1> QED
  BY <1>2, <1>3, <1>4, <1>5 DEF sem_wait, sem_notify

\* Every semaphore initialised for no units is an abstract semaphore.  (sem_init
\* ignores the count it is given, so that one for more units has lost its permits in
\* the initial state.)
THEOREM SemaphoresImplementPermits ==
  ASSUME InitCount = [s \in Sems |-> 0]
  PROVE  IpcSpec => ImplementsSem
<1>1. IpcInit => \A s \in Sems : Semaphore(s)!Init
  BY DEF IpcInit, SemInit, Semaphore!Init
<1>2. ASSUME IpcInv, [IpcNext]_ipcVars
      PROVE  \A s \in Sems : Semaphore(s)!Next \/ UNCHANGED Semaphore(s)!semVars
  <2>1. CASE \E t \in Tasks, r \in Sems : sem_wait(t, r) \/ sem_notify(t, r)
    BY <1>2, <2>1, SemStepLemma
  <2>2. CASE ~\E t \in Tasks, r \in Sems : sem_wait(t, r) \/ sem_notify(t, r)
    <3>1. UNCHANGED semVars
      BY <1>2, <2>2 DEF IpcNext, Boot, SystemCall, LockStep, Timer, ipcVars
    <3> QED
      BY <3>1 DEF semVars, Semaphore!semVars
  <2> QED
    BY <2>1, <2>2
<1>3. IpcInv /\ [IpcNext]_ipcVars =>
        [\A s \in Sems : Semaphore(s)!Next \/ UNCHANGED Semaphore(s)!semVars]_ipcVars
  BY <1>2
<1> QED
  BY <1>1, <1>3, IpcInvariant, PTL DEF IpcSpec, ImplementsSem

-----------------------------------------------------------------------------
(* The scheduler's promises, with tasks that block and are woken *)

\* The running task t waits for a mutex or a semaphore.
Blocks(t) ==
  /\ t \in Tasks /\ t = curr_task
  /\ task_dispatch(task_set_block(ready_list, t), state)
  /\ UNCHANGED <<sleep_list, task_list, sleep_ticks, slice_ticks, sys_tick, starting, asked>>

\* The waiting task t is handed a mutex or a permit.
Wakes(t) ==
  /\ t \in Tasks /\ t \in Waiting /\ curr_task # NoTask
  /\ task_dispatch(task_set_ready(ready_list, t), MarkReady(state, {t}))
  /\ UNCHANGED <<sleep_list, task_list, sleep_ticks, slice_ticks, sys_tick, starting, asked>>

\* Seen from the task manager a step of the kernel is a step of its own, or
\* blocks the running task, or makes a blocked one ready, or is nothing.
LEMMA IpcMoves ==
  ASSUME IpcInv, IpcNext
  PROVE  \/ TaskNext
         \/ \E t \in Tasks : Blocks(t) \/ Wakes(t)
         \/ UNCHANGED taskVars
<1>1. QueueTypes /\ curr_task \in AllTasks \union {NoTask}
  BY DEF IpcInv, TaskInv, TaskTypeOK
<1>2. CASE Boot \/ Timer
  BY <1>2 DEF Boot, Timer, TaskNext
<1>3. ASSUME NEW t \in Tasks, TaskCall(t)
      PROVE  TaskNext
  BY <1>3 DEF TaskNext
<1>4. ASSUME NEW t \in Tasks, NEW s \in Sems, sem_wait(t, s)
      PROVE  UNCHANGED taskVars \/ Blocks(t)
  BY <1>4 DEF sem_wait, sem_wait_take, sem_wait_block, Blocks
<1>5. ASSUME NEW t \in Tasks, NEW s \in Sems, sem_notify(t, s)
      PROVE  UNCHANGED taskVars \/ \E u \in Tasks : Wakes(u)
  <2>1. CASE sem_notify_count(t, s)
    BY <2>1 DEF sem_notify_count
  <2>2. CASE sem_notify_wake(t, s)
    <3> DEFINE next == Head(sem_wait_list[s])
    <3>1. /\ sem_wait_list[s] # <<>> /\ sem_wait_list[s] \in Seq(Tasks)
          /\ NoDuplicates(sem_wait_list[s])
      BY <1>1, <2>2 DEF sem_notify_wake, QueueTypes, IpcInv, WaitsOnce
    <3>2. next \in Tasks /\ next \in ToSet(sem_wait_list[s])
      BY <3>1, TailLemma
    <3>3. next \in Waiting
      BY <3>2 DEF Waiting
    <3>4. curr_task # NoTask
      BY <2>2, TaskAssumption DEF sem_notify_wake
    <3>5. Wakes(next)
      BY <2>2, <3>2, <3>3, <3>4 DEF sem_notify_wake, Wakes
    <3> QED
      BY <3>2, <3>5
  <2> QED
    BY <1>5, <2>1, <2>2 DEF sem_notify
<1>6. ASSUME NEW t \in Tasks \union {NoTask}, NEW m \in Mutexes, mutex_lock(t, m)
      PROVE  UNCHANGED taskVars \/ (t \in Tasks /\ Blocks(t))
  <2>1. CASE mutex_lock_take(t, m)
    BY <2>1 DEF mutex_lock_take
  <2>2. CASE mutex_lock_wait(t, m)
    <3>1. t \in Tasks
      BY <2>2 DEF mutex_lock_wait, MayLock
    <3> QED
      BY <2>2, <3>1 DEF mutex_lock_wait, MayLock, Blocks
  <2> QED
    BY <1>6, <2>1, <2>2 DEF mutex_lock
<1>7. ASSUME NEW t \in Tasks \union {NoTask}, NEW m \in Mutexes, mutex_unlock(t, m)
      PROVE  UNCHANGED taskVars \/ \E u \in Tasks : Wakes(u)
  <2>1. CASE mutex_unlock_free(t, m)
    BY <2>1 DEF mutex_unlock_free
  <2>2. CASE mutex_unlock_handover(t, m)
    <3> DEFINE next == Head(wait_list[m])
    <3>1. /\ wait_list[m] # <<>> /\ wait_list[m] \in Seq(Tasks)
          /\ NoDuplicates(wait_list[m])
      BY <1>1, <2>2 DEF mutex_unlock_handover, QueueTypes, IpcInv, WaitsOnce
    <3>2. next \in Tasks /\ next \in ToSet(wait_list[m])
      BY <3>1, TailLemma
    <3>3. next \in Waiting
      BY <3>2 DEF Waiting
    <3>4. curr_task # NoTask
      BY <3>1 DEF IpcInv, OwnersOK
    <3>5. Wakes(next)
      BY <2>2, <3>2, <3>3, <3>4 DEF mutex_unlock_handover, Wakes
    <3> QED
      BY <3>2, <3>5
  <2> QED
    BY <1>7, <2>1, <2>2 DEF mutex_unlock
<1>8. CASE \E t \in Tasks : SystemCall(t)
  BY <1>3, <1>4, <1>5, <1>8 DEF SystemCall
<1>9. CASE \E t \in Tasks \union {NoTask} : LockStep(t)
  BY <1>6, <1>7, <1>9 DEF LockStep
<1> QED
  BY <1>2, <1>8, <1>9 DEF IpcNext

\* Nobody but the running task is overtaken in the ready list: neither by tasks
\* that block nor by those that are handed a mutex or a permit.
THEOREM IpcNobodyIsOvertaken == IpcSpec => NoOvertaking
<1>1. ASSUME IpcInv, [IpcNext]_ipcVars
      PROVE  [Keeps(ready_list, ready_list', curr_task)]_taskVars
  <2> SUFFICES ASSUME IpcNext, ~UNCHANGED taskVars
               PROVE  Keeps(ready_list, ready_list', curr_task)
    BY <1>1 DEF ipcVars
  <2>1. PICK W : W = Waiting
    OBVIOUS
  <2>2. TaskInv(W)
    BY <1>1, <2>1 DEF IpcInv
  <2>3. CASE TaskNext
    BY <2>2, <2>3, OrderStep
  <2>4. ASSUME NEW t \in Tasks, Blocks(t)
        PROVE  Keeps(ready_list, ready_list', curr_task)
    BY <2>2, <2>4, BlockOrder DEF Blocks, task_dispatch
  <2>5. ASSUME NEW t \in Tasks, Wakes(t)
        PROVE  Keeps(ready_list, ready_list', curr_task)
    <3>1. t \in Tasks \ ToSet(ready_list)
      BY <2>1, <2>2, <2>5 DEF Wakes, TaskInv, QueuesOK
    <3> QED
      BY <2>2, <2>5, <3>1, WakeOrder DEF Wakes, task_dispatch
  <2> QED
    BY <1>1, <2>3, <2>4, <2>5, IpcMoves
<1>2. IpcInv /\ [IpcNext]_ipcVars =>
        [\A t \in ToSet(ready_list) \intersect ToSet(ready_list'), u \in ToSet(ready_list') :
           t \notin {u, curr_task} /\ ~Ahead(ready_list, u, t)
             => Ahead(ready_list', t, u)]_taskVars
  BY <1>1 DEF Keeps
<1> QED
  BY <1>2, IpcInvariant, PTL DEF IpcSpec, NoOvertaking

\* The states match the lists also when tasks block and are woken.
THEOREM IpcStatesMatchLists == IpcSpec => []StateMatchesLists
<1>1. IpcInit => StateMatchesLists
  BY StatesInit DEF IpcInit
<1>2. ASSUME IpcInv, StateMatchesLists, [IpcNext]_ipcVars
      PROVE  StateMatchesLists'
  <2>1. PICK W : W = Waiting
    OBVIOUS
  <2>2. TaskInv(W)
    BY <1>2, <2>1 DEF IpcInv
  <2>3. CASE TaskNext
    BY <1>2, <2>2, <2>3, StatesStep
  <2>4. ASSUME NEW t \in Tasks, Blocks(t)
        PROVE  StateMatchesLists'
    BY <1>2, <2>2, <2>4, BlockStates DEF Blocks
  <2>5. ASSUME NEW t \in Tasks, Wakes(t)
        PROVE  StateMatchesLists'
    BY <1>2, <2>1, <2>2, <2>5, WakeStates DEF Wakes
  <2>6. CASE UNCHANGED taskVars
    BY <1>2, <2>6 DEF taskVars, StateMatchesLists, Started
  <2> QED
    BY <1>2, <2>3, <2>4, <2>5, <2>6, IpcMoves DEF ipcVars
<1> QED
  BY <1>1, <1>2, IpcInvariant, PTL DEF IpcSpec

\* Sleeps last as long as asked for whatever else blocks and wakes tasks.
THEOREM IpcSleepersWakeOnTime == IpcSpec => WakesOnTime
<1> DEFINE Step == \A t \in ToSet(sleep_list) :
                     LET n == Slept(t, sys_tick') IN
                     IF t \in ToSet(sleep_list')
                     THEN n * OS_TICK_MS < asked[t].ms
                     ELSE n * OS_TICK_MS >= asked[t].ms /\ (n - 1) * OS_TICK_MS < asked[t].ms
<1>1. IpcInit => SleepersOK
  <2>1. ToSet(<<>>) = {}
    BY DEF ToSet
  <2> QED
    BY <2>1 DEF IpcInit, TaskInit, SleepersOK
<1>2. ASSUME IpcInv, SleepersOK, [IpcNext]_ipcVars
      PROVE  SleepersOK' /\ [Step]_sys_tick
  <2>1. PICK W : W = Waiting
    OBVIOUS
  <2>2. TaskInv(W)
    BY <1>2, <2>1 DEF IpcInv
  <2>3. CASE TaskNext
    <3>1. SleepersOK'
      BY <1>2, <2>2, <2>3, SleepersStep
    <3>2. ASSUME sys_tick' # sys_tick
          PROVE  Step
      <4>1. do_handler_timer
        BY <2>3, <3>2 DEF TaskNext, TaskCall, task_first_init, task_init, task_start,
                          sys_yield, sys_msleep
      <4> QED
        BY <1>2, <2>2, <4>1, WakeStep
    <3> QED
      BY <3>1, <3>2
  <2>4. CASE UNCHANGED <<sleep_list, sleep_ticks, sys_tick, asked>>
    BY <1>2, <2>4 DEF SleepersOK, Slept
  <2> QED
    BY <1>2, <2>3, <2>4, IpcMoves DEF ipcVars, taskVars, Blocks, Wakes
<1>3. IpcInv /\ SleepersOK /\ [IpcNext]_ipcVars => SleepersOK' /\ [Step]_sys_tick
  BY <1>2
<1> QED
  BY <1>1, <1>3, IpcInvariant, PTL DEF IpcSpec, WakesOnTime

=============================================================================

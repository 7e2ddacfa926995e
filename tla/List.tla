-------------------------------- MODULE List --------------------------------
(***************************************************************************)
(* The doubly linked lists of source/kernel/tools/list.c, link by link,    *)
(* with the use the scheduler makes of them: a node is inserted when it is *)
(* in no list, and removed from the list it is in (list_remove does not    *)
(* check that; Task and Ipc show that the callers respect it), and         *)
(* task_time_tick moves nodes to another list while it walks over one.     *)
(***************************************************************************)
EXTENDS Integers, FiniteSets, SequencesExt

CONSTANTS
  Nodes,  \* list_node_t
  Lists,  \* list_t
  Null    \* the null pointer

ASSUME ListAssumption == Null \notin Nodes /\ IsFiniteSet(Nodes)

VARIABLES
  pre, next,           \* list_node_t.pre and .next
  first, last, count,  \* list_t.first, .last and .count
  walk                 \* the walk of task_time_tick, if one is under way

linkVars == <<pre, next>>
listVars == <<first, last, count>>
vars == <<linkVars, listVars, walk>>

Pointers == Nodes \union {Null}

\* A walk over list from: cursor is curr, saved is the local next, and the
\* history todo is the nodes not visited yet, in the order of the list.
NoWalk == [from |-> Null, cursor |-> Null, todo |-> <<>>]

-----------------------------------------------------------------------------
(* What the list shows: the nodes reached from first through next *)

Reach(l) ==
  LET at[i \in 1 .. Cardinality(Nodes) + 1] ==
        IF i = 1 THEN first[l]
        ELSE IF at[i - 1] = Null THEN Null ELSE next[at[i - 1]]
  IN  at

Content(l) ==
  LET at == Reach(l)
  IN  [i \in 1 .. Cardinality({k \in DOMAIN at : at[k] # Null}) |-> at[i]]

Linked(n, l) == \E i \in 1 .. Cardinality(Nodes) : Reach(l)[i] = n

-----------------------------------------------------------------------------
(* The functions of list.c, as the lists and links they leave *)

list_is_empty(l) == count[l] = 0

\* list_init and list_node_init
ListInit ==
  /\ pre = [n \in Nodes |-> Null] /\ next = [n \in Nodes |-> Null]
  /\ first = [l \in Lists |-> Null] /\ last = [l \in Lists |-> Null]
  /\ count = [l \in Lists |-> 0]
  /\ walk = NoWalk

list_insert_first(l, n) ==
  /\ next' = [next EXCEPT ![n] = first[l]]
  /\ pre' = IF list_is_empty(l) THEN [pre EXCEPT ![n] = Null]
            ELSE [pre EXCEPT ![n] = Null, ![first[l]] = n]
  /\ first' = [first EXCEPT ![l] = n]
  /\ last' = IF list_is_empty(l) THEN [last EXCEPT ![l] = n] ELSE last
  /\ count' = [count EXCEPT ![l] = @ + 1]

\* Mutant: first is not set when the list was empty.
Bad_list_insert_last(l, n) ==
  /\ pre' = [pre EXCEPT ![n] = last[l]]
  /\ next' = IF list_is_empty(l) THEN [next EXCEPT ![n] = Null]
             ELSE [next EXCEPT ![n] = Null, ![last[l]] = n]
  /\ first' = first
  /\ last' = [last EXCEPT ![l] = n]
  /\ count' = [count EXCEPT ![l] = @ + 1]

list_insert_last(l, n) ==
  /\ pre' = [pre EXCEPT ![n] = last[l]]
  /\ next' = IF list_is_empty(l) THEN [next EXCEPT ![n] = Null]
             ELSE [next EXCEPT ![n] = Null, ![last[l]] = n]
  /\ first' = IF list_is_empty(l) THEN [first EXCEPT ![l] = n] ELSE first
  /\ last' = [last EXCEPT ![l] = n]
  /\ count' = [count EXCEPT ![l] = @ + 1]

\* Mutant: the new first node keeps its link to the removed one.
Bad_list_remove_first(l) ==
  LET n    == first[l]
      rest == next[n]
  IN
  /\ ~list_is_empty(l)
  /\ first' = [first EXCEPT ![l] = rest]
  /\ last' = IF rest = Null THEN [last EXCEPT ![l] = Null] ELSE last
  /\ pre' = [pre EXCEPT ![n] = Null]
  /\ next' = [next EXCEPT ![n] = Null]
  /\ count' = [count EXCEPT ![l] = @ - 1]

list_remove_first(l) ==
  LET n    == first[l]
      rest == next[n]
  IN
  /\ ~list_is_empty(l)
  /\ first' = [first EXCEPT ![l] = rest]
  /\ last' = IF rest = Null THEN [last EXCEPT ![l] = Null] ELSE last
  /\ pre' = [p \in Nodes |-> IF p \in {n, rest} THEN Null ELSE pre[p]]
  /\ next' = [next EXCEPT ![n] = Null]
  /\ count' = [count EXCEPT ![l] = @ - 1]

\* The links and ends after list_remove, which task_set_wakeup makes right
\* before another insertion.
PreWithout(n)  == [p \in Nodes |-> IF p = n THEN Null
                                   ELSE IF p = next[n] THEN pre[n] ELSE pre[p]]
NextWithout(n) == [p \in Nodes |-> IF p = n THEN Null
                                   ELSE IF p = pre[n] THEN next[n] ELSE next[p]]
FirstWithout(l, n) == IF first[l] = n THEN [first EXCEPT ![l] = next[n]] ELSE first
LastWithout(l, n)  == IF last[l] = n THEN [last EXCEPT ![l] = pre[n]] ELSE last

list_remove(l, n) ==
  /\ first' = FirstWithout(l, n)
  /\ last' = LastWithout(l, n)
  /\ pre' = PreWithout(n)
  /\ next' = NextWithout(n)
  /\ count' = [count EXCEPT ![l] = @ - 1]

-----------------------------------------------------------------------------
(* Callers *)

Free(n) == \A l \in Lists : ~Linked(n, l)

Insert(l, n) == Free(n) /\ (list_insert_first(l, n) \/ list_insert_last(l, n))

Unlink(l, n) == Linked(n, l) /\ list_remove(l, n)

\* task_time_tick: curr = list_first(&sleep_list).
WalkBegin(l) ==
  /\ walk = NoWalk /\ first[l] # Null
  /\ walk' = [from |-> l, cursor |-> first[l], todo |-> Content(l)]
  /\ UNCHANGED <<linkVars, listVars>>

\* curr = next, the value of next having been read before curr was touched.
Advance(saved) ==
  walk' = IF saved = Null THEN NoWalk
          ELSE [walk EXCEPT !.cursor = saved, !.todo = Tail(@)]

\* The sleeper stays ...
WalkKeep ==
  /\ walk # NoWalk
  /\ Advance(next[walk.cursor])
  /\ UNCHANGED <<linkVars, listVars>>

\* Mutant: next is read after the node was queued elsewhere, where it is last.
Bad_WalkMove(k) ==
  LET l == walk.from
      n == walk.cursor
      empty == list_is_empty(k)
      tail  == last[k]
  IN
  /\ walk # NoWalk /\ k # l
  /\ pre' = [PreWithout(n) EXCEPT ![n] = tail]
  /\ next' = IF empty THEN NextWithout(n) ELSE [NextWithout(n) EXCEPT ![tail] = n]
  /\ first' = IF empty THEN [FirstWithout(l, n) EXCEPT ![k] = n] ELSE FirstWithout(l, n)
  /\ last' = [LastWithout(l, n) EXCEPT ![k] = n]
  /\ count' = [count EXCEPT ![l] = @ - 1, ![k] = @ + 1]
  /\ Advance(Null)

\* ... or is due: task_set_wakeup and task_set_ready.
WalkMove(k) ==
  LET l == walk.from
      n == walk.cursor
      empty == list_is_empty(k)
      tail  == last[k]
  IN
  /\ walk # NoWalk /\ k # l
  /\ pre' = [PreWithout(n) EXCEPT ![n] = tail]
  /\ next' = IF empty THEN NextWithout(n) ELSE [NextWithout(n) EXCEPT ![tail] = n]
  /\ first' = IF empty THEN [FirstWithout(l, n) EXCEPT ![k] = n] ELSE FirstWithout(l, n)
  /\ last' = [LastWithout(l, n) EXCEPT ![k] = n]
  /\ count' = [count EXCEPT ![l] = @ - 1, ![k] = @ + 1]
  /\ Advance(next[n])

\* A tick runs with interrupts disabled: nobody else touches a list meanwhile.
ListNext ==
  \/ /\ walk = NoWalk
     /\ \/ \E l \in Lists, n \in Nodes : Insert(l, n) \/ Unlink(l, n)
        \/ \E l \in Lists : list_remove_first(l)
     /\ UNCHANGED walk
  \/ \E l \in Lists : WalkBegin(l)
  \/ WalkKeep
  \/ \E k \in Lists : WalkMove(k)

ListSpec == ListInit /\ [][ListNext]_vars

-----------------------------------------------------------------------------
(* Properties *)

\* The links of every list agree in both directions, and a node in no list has
\* no links: what list_remove relies on at the ends of a list.
WellLinked ==
  /\ \A l \in Lists :
       LET s == Content(l) IN
       /\ last[l] = IF s = <<>> THEN Null ELSE s[Len(s)]
       /\ \A i \in 1 .. Len(s) : pre[s[i]] = IF i = 1 THEN Null ELSE s[i - 1]
  /\ \A n \in Nodes : Free(n) => pre[n] = Null /\ next[n] = Null

\* The linked lists implement sequences, each step one operation on them.
Sequences == INSTANCE AbstractLists WITH
  seq <- [l \in Lists |-> Content(l)], size <- count

ImplementsSequences == Sequences!Spec

\* A walk that moves nodes away visits every node the list had when it began, in
\* order, and ends only after the last: the next node is read before the current
\* one is unlinked and relinked elsewhere.
WalkVisitsAll ==
  [][walk # NoWalk =>
       LET left == Tail(walk.todo) IN
       IF walk' = NoWalk THEN left = <<>>
       ELSE left # <<>> /\ walk'.cursor = Head(left)]_vars

=============================================================================

---------------------------- MODULE AbstractLock ----------------------------
(***************************************************************************)
(* What a kernel mutex promises its callers: one holder at a time, which   *)
(* may lock again; everyone else is served first come, first served.       *)
(* There is no scheduler here: any agent may take a step at any time.      *)
(***************************************************************************)
EXTENDS Naturals, Sequences

CONSTANTS Agents, Nobody

VARIABLES holder, depth, queue

lockVars == <<holder, depth, queue>>

Init == holder = Nobody /\ depth = 0 /\ queue = <<>>

Take(a) ==
  /\ depth = 0 \/ holder = a
  /\ holder' = a
  /\ depth' = depth + 1
  /\ UNCHANGED queue

Enqueue(a) ==
  /\ depth > 0 /\ holder # a
  /\ \A i \in DOMAIN queue : queue[i] # a
  /\ queue' = Append(queue, a)
  /\ UNCHANGED <<holder, depth>>

LeaveInner(a) ==
  /\ depth > 1 /\ holder = a
  /\ depth' = depth - 1
  /\ UNCHANGED <<holder, queue>>

Release(a) ==
  /\ depth = 1 /\ holder = a
  /\ IF queue = <<>>
     THEN /\ holder' = Nobody /\ depth' = 0
          /\ UNCHANGED queue
     ELSE /\ holder' = Head(queue) /\ depth' = 1
          /\ queue' = Tail(queue)

Next == \E a \in Agents : Take(a) \/ Enqueue(a) \/ LeaveInner(a) \/ Release(a)

Spec == Init /\ [][Next]_lockVars

=============================================================================

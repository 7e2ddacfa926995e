----------------------------- MODULE AbstractSem -----------------------------
(***************************************************************************)
(* A counting semaphore with Permits permits at the start and a first-     *)
(* come-first-served queue: what sem.h declares.                           *)
(***************************************************************************)
EXTENDS Naturals, Sequences

CONSTANTS Agents, Permits

VARIABLES permits, queue

semVars == <<permits, queue>>

Init == permits = Permits /\ queue = <<>>

Pass ==
  /\ permits > 0
  /\ permits' = permits - 1
  /\ UNCHANGED queue

Enqueue(a) ==
  /\ permits = 0
  /\ \A i \in DOMAIN queue : queue[i] # a
  /\ queue' = Append(queue, a)
  /\ UNCHANGED permits

Notify ==
  IF queue = <<>>
  THEN permits' = permits + 1 /\ UNCHANGED queue
  ELSE queue' = Tail(queue) /\ UNCHANGED permits

Next == Pass \/ (\E a \in Agents : Enqueue(a)) \/ Notify

Spec == Init /\ [][Next]_semVars

=============================================================================

-------------------------------- MODULE MCIpc --------------------------------
(* Instances of Ipc: three tasks, one or two mutexes, one semaphore. *)
EXTENDS Ipc

CONSTANTS t1, t2, t3, m1, m2, s1
MCTasks == {t1, t2, t3}
NoSleep == {}
ShortSleep == {1}
OneSem == {s1}
OneMutex == {m1}
TwoMutexes == {m1, m2}
Zero == [s \in {s1} |-> 0]
=============================================================================

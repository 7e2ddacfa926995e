------------------------------- MODULE MCTask -------------------------------
(* Instance of Task: three tasks, slices of two ticks, sleeps of one and two *)
(* ticks; uint32_t has 8 values, so that the tick counter wraps.             *)
EXTENDS Task

CONSTANTS t1, t2, t3
MCTasks == {t1, t2, t3}
MCSleepMs == {1, 3}
=============================================================================

-------------------------------- MODULE MCIrq -------------------------------
(* Instance of Irq: two tasks, the second to be forked, with idle and boot. *)
EXTENDS Irq

CONSTANTS t1, t2
MCTasks == {t1, t2}
MCSites == {"site"}
=============================================================================
